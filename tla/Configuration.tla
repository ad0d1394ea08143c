----------------------------- MODULE Configuration -----------------------------
(***************************************************************************)
(* What a worker is started with: the layers of configuration files, merged    *)
(* key by key, the validation of the result, and the model of a role.          *)
(*                                                                         *)
(* A file maps the keys it sets, pairs of a table and a name, to values.  The    *)
(* value of a model key is a selector: a name in the catalog, or a model itself. *)
(* Which files count depends on the registry of projects, which is read twice  *)
(* and may be rewritten meanwhile.                                            *)
(***************************************************************************)
EXTENDS Sequences, SequencesExt

CONSTANTS
    Files,      \* what the layers may hold: functions from Layers to files
    Models,     \* selectors of the form provider/model
    CliModels   \* selectors --model may have, with "none" for no such flag

Layers == {"global", "legacy", "root", "project", "local", "user", "bench", "cli"}
DefaultModel == <<"", "default_model">>
ReviewerModel == <<"second_opinion", "reviewer_model">>

\* The keys that select the model of a role, the most specific first.
Keys(role) ==
    CASE role = "worker" -> <<<<"models.workers", "w">>, <<"models.default", "worker">>>>
      [] role = "coordinator" -> <<<<"models.coordinators", "c">>, <<"models.default", "coordinator">>>>
      [] role = "phase" -> <<<<"models.phases", "p">>, <<"models.default", "phase">>>>
      [] role = "reviewer" -> <<ReviewerModel, <<"models.default", "reviewer">>>>
      [] role = "bench" -> <<<<"models.bench", "default">>, <<"models.default", "bench">>>>
      [] role = "grader" -> <<<<"models.bench", "grader">>, <<"models.default", "bench">>>>
      [] role = "chat" -> <<<<"models.default", "chat">>>>
Roles == {"worker", "coordinator", "phase", "reviewer", "bench", "grader", "chat"}
Selectors == UNION {ToSet(Keys(role)) : role \in Roles}

Settable == Selectors \cup {DefaultModel} \cup ({"models.options"} \X STRING)

ASSUME ConfigurationAssumption ==
    /\ "none" \notin Models /\ "" \notin Models
    /\ \A f \in Files : DOMAIN f = Layers /\ \A layer \in Layers : DOMAIN f[layer] \subseteq Settable

VARIABLES
    files,      \* the layers on disk
    registered, \* the project's registered root: "none", "project", "root"; or "torn"
    found,      \* what the first read of the registry found
    config,     \* the merged tables
    step,       \* how far the load, and then the resolution, is
    source      \* what selected the model

fvars == <<files, registered, found, config, step, source>>

ConfigurationTypeOK ==
    /\ files \in Files
    /\ registered \in {"none", "project", "root", "torn"}
    /\ found \in {"none", "project", "root"}
    /\ DOMAIN config \subseteq Settable
    /\ step \in {"start", "policies", "merged", "loaded", "invalid", "resolved", "failed"}
    /\ source \in Selectors \cup {DefaultModel, <<"", "--model">>, <<"", "none">>}
-----------------------------------------------------------------------------
\* merge_toml_tables: what a later file sets replaces it, the rest is inherited.
Merge(base, overlay) ==
    [k \in DOMAIN base \cup DOMAIN overlay |-> IF k \in DOMAIN overlay THEN overlay[k] ELSE base[k]]
Overlay(base, layer) == Merge(base, files[layer])

\* Mutant: a registry that is being written is taken as it is.
FoundAsItIs == registered
\* A registry that cannot be read counts as one without the project.
Found == IF registered = "torn" THEN "none" ELSE registered

\* The built-in model is there before any file; the ancestors count up to the root.
ReadPolicies ==
    /\ step = "start" /\ step' = "policies"
    /\ found' = Found
    /\ config' = LET builtIn == [k \in {DefaultModel} |-> CHOOSE m \in Models : TRUE]
                     common == Overlay(Overlay(builtIn, "global"), "legacy")
                     ancestors == IF Found = "root" THEN Overlay(common, "root") ELSE common
                 IN Overlay(Overlay(ancestors, "project"), "local")
    /\ UNCHANGED <<files, registered, source>>

ReadUserAndCli ==
    /\ step = "policies" /\ step' = "merged"
    /\ config' = LET withUser == IF Found = "none" THEN config ELSE Overlay(config, "user")
                 IN Overlay(Overlay(withUser, "bench"), "cli")
    /\ UNCHANGED <<files, registered, found, source>>

Catalog == {key[2] : key \in {k \in DOMAIN config : k[1] = "models.options"}}
Resolves(selector) == selector \in Models \cup Catalog

\* Mutant: the selectors of the phases are left out.
ValidatedButPhases ==
    {k \in DOMAIN config : k[1] \in {"models.workers", "models.coordinators", "models.default",
                                     "models.bench"}}
Validated ==
    {k \in DOMAIN config : k[1] \in {"models.workers", "models.coordinators", "models.phases",
                                     "models.default", "models.bench"}}

\* Another section may be invalid too.
Validate ==
    /\ step = "merged"
    /\ \/ step' = "loaded" /\ \A k \in Validated : Resolves(config[k])
       \/ step' = "invalid"
    /\ UNCHANGED <<files, registered, found, config, source>>

\* --model replaces every selector; a selector of a role, the more general ones.
FirstSet(keys) == keys[SelectInSeq(keys, LAMBDA k : k \in DOMAIN config)]
Resolve(role, cliModel) ==
    LET key == FirstSet(Append(Keys(role), DefaultModel))
        selector == IF cliModel # "none" THEN cliModel ELSE config[key]
    IN /\ step = "loaded"
       /\ source' = IF cliModel # "none" THEN <<"", "--model">> ELSE key
       /\ step' = IF Resolves(selector) THEN "resolved" ELSE "failed"
       /\ UNCHANGED <<files, registered, found, config>>

\* Registering any project, this one or another, empties the file before it is written
\* anew; under a name that is taken, the project that had it is registered no more.
EmptyRegistry ==
    /\ registered # "torn" /\ registered' = "torn"
    /\ UNCHANGED <<files, found, config, step, source>>

WriteRegistry ==
    /\ registered = "torn" /\ registered' \in {"none", "project", "root"}
    /\ UNCHANGED <<files, found, config, step, source>>

ConfigurationInit ==
    /\ files \in Files /\ registered \in {"none", "project", "root"} /\ found = "none"
    /\ config = [k \in {DefaultModel} |-> ""] /\ step = "start" /\ source = <<"", "none">>

ConfigurationNext ==
    \/ ReadPolicies \/ ReadUserAndCli \/ Validate
    \/ \E role \in Roles, cliModel \in CliModels : Resolve(role, cliModel)
    \/ EmptyRegistry \/ WriteRegistry

ConfigurationSpec == ConfigurationInit /\ [][ConfigurationNext]_fvars
-----------------------------------------------------------------------------
\* A role and the catalog may come from different files, some of them there only
\* while the registry can be read.  A configuration that loads has a model for every
\* role, unless --model, the default model or the reviewer's own key selected it:
\* these three are not validated.
RolesResolve ==
    step = "failed" => source \in {<<"", "--model">>, DefaultModel, ReviewerModel}
=============================================================================
