--------------------------- MODULE ComponentsProofs ---------------------------
(***************************************************************************)
(* Proofs about Configuration and Hooks, for all files, models and lists of    *)
(* hooks; and about the components side by side: a behaviour of MCComponents is  *)
(* one of its subject, so what is proved of each component alone holds there.    *)
(***************************************************************************)
EXTENDS MCComponents, SupervisorProofs, DecompositionProofs, ConversationProofs, BenchmarkProofs

-----------------------------------------------------------------------------
(* Configuration.                                                           *)

Tables == {"models.workers", "models.coordinators", "models.phases", "models.default", "models.bench"}

\* There is a default model before any file is read, and no file takes it away; what
\* was validated stays.
ConfigurationInv ==
    /\ ConfigurationTypeOK
    /\ DefaultModel \in DOMAIN config
    /\ step = "loaded" => \A k \in Validated : Resolves(config[k])
    /\ RolesResolve

LEMMA KeysOfRole ==
    ASSUME NEW role \in Roles
    PROVE  LET keys == Append(Keys(role), DefaultModel)
           IN  /\ Len(keys) \in {2, 3} /\ keys[Len(keys)] = DefaultModel
               /\ \A n \in 1..Len(keys) :
                      /\ keys[n] \in Selectors \cup {DefaultModel}
                      /\ keys[n] \notin {DefaultModel, ReviewerModel} => keys[n][1] \in Tables
  <1>1. Keys(role) \in Seq(Selectors) /\ Len(Keys(role)) \in {1, 2}
    <2>1. \/ \E a, b : Keys(role) = <<a, b>>
          \/ \E a : Keys(role) = <<a>>
      <3>1. role # "chat" => \E a, b : Keys(role) = <<a, b>>  BY DEF Keys, Roles
      <3>2. role = "chat" => \E a : Keys(role) = <<a>>  BY DEF Keys
      <3>3. QED  BY <3>1, <3>2
    <2> HIDE DEF Keys
    <2>2. \A n \in 1..Len(Keys(role)) : Keys(role)[n] \in ToSet(Keys(role))
      BY <2>1 DEF ToSet
    <2>3. ToSet(Keys(role)) \subseteq Selectors  BY Zenon DEF Selectors
    <2>4. QED  BY <2>1, <2>2, <2>3
  <1>2. \A n \in 1..Len(Keys(role)) :
            Keys(role)[n] # ReviewerModel => Keys(role)[n][1] \in Tables
    BY DEF Keys, Roles, ReviewerModel, Tables
  <1> HIDE DEF Keys
  <1> DEFINE keys == Append(Keys(role), DefaultModel)
  <1>3. Len(keys) = Len(Keys(role)) + 1 /\ keys[Len(keys)] = DefaultModel
        /\ \A n \in 1..Len(Keys(role)) : keys[n] = Keys(role)[n]
    BY <1>1
  <1>4. \A n \in 1..Len(keys) : n = Len(keys) \/ n \in 1..Len(Keys(role))  BY <1>1, <1>3
  <1>5. \A n \in 1..Len(Keys(role)) : Keys(role)[n] \in Selectors  BY <1>1
  <1> HIDE DEF keys
  <1>6. ASSUME NEW n \in 1..Len(keys)
        PROVE  /\ keys[n] \in Selectors \cup {DefaultModel}
               /\ keys[n] \notin {DefaultModel, ReviewerModel} => keys[n][1] \in Tables
    <2>1. CASE n = Len(keys)  BY <1>3, <2>1
    <2>2. CASE n \in 1..Len(Keys(role))  BY <1>2, <1>3, <1>5, <2>2
    <2>3. QED  BY <1>4, <2>1, <2>2
  <1>7. Len(keys) \in {2, 3}  BY <1>1, <1>3
  <1>8. QED  BY <1>3, <1>6, <1>7 DEF keys

\* The first of the keys that some layer sets is set.
LEMMA FirstSetIsSet ==
    ASSUME NEW role \in Roles, DefaultModel \in DOMAIN config
    PROVE  LET key == FirstSet(Append(Keys(role), DefaultModel))
           IN  /\ key \in DOMAIN config /\ key \in Selectors \cup {DefaultModel}
               /\ key \notin {DefaultModel, ReviewerModel} => key[1] \in Tables
  <1> DEFINE keys == Append(Keys(role), DefaultModel)
             I == {n \in 1..Len(keys) : keys[n] \in DOMAIN config}
  <1>1. Len(keys) \in {2, 3} /\ keys[Len(keys)] = DefaultModel
        /\ \A n \in 1..Len(keys) :
               /\ keys[n] \in Selectors \cup {DefaultModel}
               /\ keys[n] \notin {DefaultModel, ReviewerModel} => keys[n][1] \in Tables
    BY KeysOfRole
  <1>2. FirstSet(keys) = keys[SelectInSeq(keys, LAMBDA k : k \in DOMAIN config)]  BY DEF FirstSet
  <1>3. SelectInSeq(keys, LAMBDA k : k \in DOMAIN config) = IF I # {} THEN Min(I) ELSE 0
    BY DEF SelectInSeq
  <1> HIDE DEF keys
  <1>4. I \subseteq 1..3 /\ I # {}  BY <1>1
  <1>5. \E x \in I : \A y \in I : x =< y
    <2>1. CASE 1 \in I  BY <1>4, <2>1
    <2>2. CASE 1 \notin I /\ 2 \in I  BY <1>4, <2>2
    <2>3. CASE 1 \notin I /\ 2 \notin I  BY <1>4, <2>3
    <2>4. QED  BY <2>1, <2>2, <2>3
  <1>6. Min(I) \in I  BY <1>5 DEF Min
  <1>7. QED  BY <1>1, <1>2, <1>3, <1>4, <1>6 DEF keys

\* A layer adds the keys it sets.
LEMMA OverlayKeeps ==
    ASSUME files \in Files, NEW c, NEW layer \in Layers,
           DefaultModel \in DOMAIN c, DOMAIN c \subseteq Settable
    PROVE  DefaultModel \in DOMAIN Overlay(c, layer) /\ DOMAIN Overlay(c, layer) \subseteq Settable
  <1>1. DOMAIN files[layer] \subseteq Settable  BY ConfigurationAssumption
  <1>2. DOMAIN Overlay(c, layer) = DOMAIN files[layer] \cup DOMAIN c  BY DEF Overlay, Merge
  <1>3. QED  BY <1>1, <1>2

LEMMA InitConfiguration == ConfigurationInit => ConfigurationInv
  <1> SUFFICES ASSUME ConfigurationInit PROVE ConfigurationInv  OBVIOUS
  <1>1. DOMAIN config = {DefaultModel}  BY DEF ConfigurationInit
  <1>2. ConfigurationTypeOK
    BY <1>1 DEF ConfigurationTypeOK, ConfigurationInit, Settable
  <1>3. QED  BY <1>1, <1>2 DEF ConfigurationInv, ConfigurationInit, RolesResolve

LEMMA StepConfiguration ==
    ConfigurationInv /\ [ConfigurationNext]_fvars => ConfigurationInv'
  <1> SUFFICES ASSUME ConfigurationInv, [ConfigurationNext]_fvars PROVE ConfigurationInv'  OBVIOUS
  <1> USE DEF ConfigurationInv
  <1>1. files \in Files /\ DefaultModel \in DOMAIN config /\ DOMAIN config \subseteq Settable
    BY DEF ConfigurationTypeOK
  <1>2. Found \in {"none", "project", "root"}  BY DEF Found, ConfigurationTypeOK
  <1>3. CASE ReadPolicies
    <2> DEFINE builtIn == [k \in {DefaultModel} |-> CHOOSE m \in Models : TRUE]
               common == Overlay(Overlay(builtIn, "global"), "legacy")
               ancestors == IF Found = "root" THEN Overlay(common, "root") ELSE common
               Good(c) == DefaultModel \in DOMAIN c /\ DOMAIN c \subseteq Settable
    <2>1. \A l \in {"global", "legacy", "root", "project", "local"} : l \in Layers  BY DEF Layers
    <2>2. Good(builtIn)  BY DEF Settable
    <2>3. Good(Overlay(builtIn, "global"))  BY <1>1, <2>1, <2>2, OverlayKeeps
    <2>4. Good(common)  BY <1>1, <2>1, <2>3, OverlayKeeps
    <2>5. Good(Overlay(common, "root"))  BY <1>1, <2>1, <2>4, OverlayKeeps
    <2>6. Good(ancestors)  BY <2>4, <2>5
    <2>7. Good(Overlay(ancestors, "project"))  BY <1>1, <2>1, <2>6, OverlayKeeps
    <2>8. Good(Overlay(Overlay(ancestors, "project"), "local"))  BY <1>1, <2>1, <2>7, OverlayKeeps
    <2>9. config' = Overlay(Overlay(ancestors, "project"), "local")  BY <1>3 DEF ReadPolicies
    <2> HIDE DEF ancestors
    <2>10. QED
      BY <1>2, <1>3, <2>8, <2>9 DEF ReadPolicies, ConfigurationTypeOK, RolesResolve
  <1>4. CASE ReadUserAndCli
    <2> DEFINE withUser == IF Found = "none" THEN config ELSE Overlay(config, "user")
               Good(c) == DefaultModel \in DOMAIN c /\ DOMAIN c \subseteq Settable
    <2>1. \A l \in {"user", "bench", "cli"} : l \in Layers  BY DEF Layers
    <2>2. Good(Overlay(config, "user"))  BY <1>1, <2>1, OverlayKeeps
    <2>3. Good(withUser)  BY <1>1, <2>2
    <2>4. Good(Overlay(withUser, "bench"))  BY <1>1, <2>1, <2>3, OverlayKeeps
    <2>5. Good(Overlay(Overlay(withUser, "bench"), "cli"))  BY <1>1, <2>1, <2>4, OverlayKeeps
    <2>6. config' = Overlay(Overlay(withUser, "bench"), "cli")  BY <1>4 DEF ReadUserAndCli
    <2> HIDE DEF withUser
    <2>7. QED
      BY <1>4, <2>5, <2>6 DEF ReadUserAndCli, ConfigurationTypeOK, RolesResolve
  <1>5. CASE Validate
    <2>1. UNCHANGED <<files, registered, found, config, source>>  BY <1>5 DEF Validate
    <2>2. Validated' = Validated /\ Catalog' = Catalog /\ DOMAIN config' = DOMAIN config
      BY <2>1 DEF Validated, Catalog
    <2>3. step' \in {"loaded", "invalid"}
          /\ (step' = "loaded" => \A k \in Validated : Resolves(config[k]))
      BY <1>5 DEF Validate
    <2>4. QED  BY <2>1, <2>2, <2>3 DEF ConfigurationTypeOK, RolesResolve, Resolves
  <1>6. ASSUME NEW role \in Roles, NEW cliModel \in CliModels, Resolve(role, cliModel)
        PROVE  ConfigurationInv'
    <2> DEFINE key == FirstSet(Append(Keys(role), DefaultModel))
    <2>1. /\ key \in DOMAIN config /\ key \in Selectors \cup {DefaultModel}
          /\ key \notin {DefaultModel, ReviewerModel} => key[1] \in Tables
      BY <1>1, FirstSetIsSet
    <2>2. /\ step = "loaded" /\ UNCHANGED <<files, registered, found, config>>
          /\ source' = IF cliModel # "none" THEN <<"", "--model">> ELSE key
          /\ step' = IF Resolves(IF cliModel # "none" THEN cliModel ELSE config[key])
                     THEN "resolved" ELSE "failed"
      BY <1>6 DEF Resolve
    <2> HIDE DEF key
    <2>3. key \notin {DefaultModel, ReviewerModel} => key \in Validated
      BY <2>1 DEF Validated, Tables
    <2>4. RolesResolve'  BY <2>2, <2>3 DEF RolesResolve
    <2>5. ConfigurationTypeOK'  BY <2>1, <2>2 DEF ConfigurationTypeOK
    <2>6. QED  BY <2>2, <2>4, <2>5
  <1>7. CASE EmptyRegistry \/ WriteRegistry
    <2>1. UNCHANGED <<files, found, config, step, source>>
          /\ registered' \in {"none", "torn", "project", "root"}
      BY <1>7 DEF EmptyRegistry, WriteRegistry
    <2>2. Validated' = Validated /\ Catalog' = Catalog /\ DOMAIN config' = DOMAIN config
      BY <2>1 DEF Validated, Catalog
    <2>3. QED  BY <2>1, <2>2 DEF ConfigurationTypeOK, RolesResolve, Resolves
  <1>8. CASE UNCHANGED fvars
    BY <1>8 DEF fvars, ConfigurationTypeOK, RolesResolve, Resolves, Catalog, Validated
  <1>9. QED  BY <1>3, <1>4, <1>5, <1>6, <1>7, <1>8 DEF ConfigurationNext

\* Whichever layers the two reads of the registry let count, the merged tables hold a
\* default model, and every validated selector of a loaded configuration resolves.
THEOREM ConfigurationIsInvariant == ConfigurationSpec => []ConfigurationInv
  BY InitConfiguration, StepConfiguration, PTL DEF ConfigurationSpec

\* A configuration that loads has a model for every role, unless --model, the default
\* model or the reviewer's own key selected it, whatever files the registry let count.
THEOREM LoadedRolesResolve == ConfigurationSpec => []RolesResolve
  <1>1. ConfigurationInv => RolesResolve  BY DEF ConfigurationInv
  <1>2. QED  BY ConfigurationIsInvariant, <1>1, PTL

-----------------------------------------------------------------------------
(* Hooks.                                                                   *)

\* The function of Matching exists, value by value: the hooks kept of the first n.
Filtered(list, n) ==
    {f \in [0..n -> Seq(Hook)] :
        \A k \in 0..n :
            f[k] = IF k = 0 THEN <<>>
                   ELSE IF list[k].enabled /\ list[k].accepts THEN Append(f[k - 1], list[k])
                   ELSE f[k - 1]}

LEMMA FilteredExists ==
    ASSUME NEW list \in Seq(Hook), NEW n \in Nat, n <= Len(list)
    PROVE  Filtered(list, n) # {}
  <1> DEFINE Missing == {m \in 0..n : Filtered(list, m) = {}}
  <1>1. SUFFICES ASSUME Missing # {} PROVE FALSE  OBVIOUS
  <1>2. PICK m \in Missing : \A k \in Missing : m <= k
    <2>1. Missing \in SUBSET Nat  OBVIOUS
    <2> HIDE DEF Missing
    <2>2. QED  BY <1>1, <2>1, NatMin
  <1>3. CASE m = 0
    <2>1. <<>> \in Seq(Hook) /\ Len(<<>>) = 0  OBVIOUS
    <2>2. [k \in 0..0 |-> <<>>] \in Filtered(list, 0)  BY <2>1 DEF Filtered
    <2>3. QED  BY <1>3, <2>2
  <1>4. CASE m # 0
    <2>1. m \in Nat /\ m - 1 \in 0..n /\ ~(m <= m - 1) /\ m \in 1..Len(list)  BY <1>4
    <2>2. PICK f \in Filtered(list, m - 1) : TRUE  BY <1>2, <2>1
    <2>3. /\ f \in [0..(m - 1) -> Seq(Hook)]
          /\ \A k \in 0..(m - 1) :
                 f[k] = IF k = 0 THEN <<>>
                        ELSE IF list[k].enabled /\ list[k].accepts
                             THEN Append(f[k - 1], list[k])
                        ELSE f[k - 1]
      BY <2>2 DEF Filtered
    <2> DEFINE last == IF list[m].enabled /\ list[m].accepts THEN Append(f[m - 1], list[m])
                       ELSE f[m - 1]
               g == [k \in 0..m |-> IF k = m THEN last ELSE f[k]]
    <2>4. last \in Seq(Hook)
      <3>1. list[m] \in Hook /\ f[m - 1] \in Seq(Hook)  BY <2>1, <2>3
      <3>2. QED  BY <3>1
    <2>5. last = IF list[m].enabled /\ list[m].accepts THEN Append(f[m - 1], list[m])
                 ELSE f[m - 1]
      OBVIOUS
    <2> HIDE DEF last
    <2>6. \A k \in 0..m : k = m \/ k \in 0..(m - 1)  BY <2>1
    <2>7. g \in [0..m -> Seq(Hook)]  BY <2>3, <2>4, <2>6
    <2>8. /\ m \in 0..m /\ g[m] = last
          /\ \A k \in 0..(m - 1) : k \in 0..m /\ k # m /\ g[k] = f[k]
      BY <2>1
    <2>9. ASSUME NEW k \in 0..m
          PROVE  g[k] = IF k = 0 THEN <<>>
                        ELSE IF list[k].enabled /\ list[k].accepts
                             THEN Append(g[k - 1], list[k])
                        ELSE g[k - 1]
      <3> HIDE DEF g
      <3>1. CASE k = m
        <4>1. m - 1 \in 0..(m - 1)  BY <2>1
        <4>2. g[k - 1] = f[m - 1]  BY <2>8, <3>1, <4>1
        <4>3. QED  BY <1>4, <2>5, <2>8, <3>1, <4>2
      <3>2. CASE k # m
        <4>1. k \in 0..(m - 1) /\ (k # 0 => k - 1 \in 0..(m - 1))  BY <2>1, <3>2
        <4>2. g[k] = f[k] /\ (k # 0 => g[k - 1] = f[k - 1])  BY <2>8, <4>1
        <4>3. QED  BY <2>3, <4>1, <4>2
      <3>3. QED  BY <3>1, <3>2
    <2>10. g \in Filtered(list, m)
      <3> HIDE DEF g
      <3>1. QED  BY <2>7, <2>9 DEF Filtered
    <2>11. QED  BY <2>10
  <1>5. QED  BY <1>3, <1>4

\* What matches is a list of hooks, no longer than the files'.
LEMMA MatchingIsList ==
    ASSUME NEW list \in Configs
    PROVE  Matching(list) \in Seq(Hook) /\ Len(Matching(list)) <= MaxHooks
  <1>1. list \in Seq(Hook) /\ Len(list) \in Nat /\ Len(list) <= MaxHooks /\ MaxHooks \in Nat
    BY HooksAssumption
  <1> DEFINE kept == CHOOSE f : f = [n \in 0..Len(list) |->
                        IF n = 0 THEN <<>>
                        ELSE IF list[n].enabled /\ list[n].accepts
                             THEN Append(f[n - 1], list[n])
                        ELSE f[n - 1]]
  <1>2. Matching(list) = kept[Len(list)]  BY DEF Matching
  <1>3. PICK f \in Filtered(list, Len(list)) : TRUE  BY <1>1, FilteredExists
  <1>4. f = [n \in 0..Len(list) |->
                IF n = 0 THEN <<>>
                ELSE IF list[n].enabled /\ list[n].accepts THEN Append(f[n - 1], list[n])
                ELSE f[n - 1]]
    BY <1>3 DEF Filtered
  <1>5. kept = [n \in 0..Len(list) |->
                   IF n = 0 THEN <<>>
                   ELSE IF list[n].enabled /\ list[n].accepts THEN Append(kept[n - 1], list[n])
                   ELSE kept[n - 1]]
    BY <1>4
  <1> HIDE DEF kept
  <1> DEFINE B == {n \in 0..Len(list) : ~(kept[n] \in Seq(Hook) /\ Len(kept[n]) <= n)}
  <1>6. B = {}
    <2>1. SUFFICES ASSUME B # {} PROVE FALSE  OBVIOUS
    <2>2. PICK n \in B : \A k \in B : n <= k
      <3>1. B \in SUBSET Nat  BY <1>1
      <3> HIDE DEF B
      <3>2. QED  BY <2>1, <3>1, NatMin
    <2>3. kept[n] = IF n = 0 THEN <<>>
                    ELSE IF list[n].enabled /\ list[n].accepts THEN Append(kept[n - 1], list[n])
                    ELSE kept[n - 1]
      BY <1>5
    <2>4. n # 0
      <3>1. <<>> \in Seq(Hook) /\ Len(<<>>) <= 0  OBVIOUS
      <3>2. QED  BY <2>2, <2>3, <3>1
    <2>5. n - 1 \in 0..Len(list) /\ ~(n <= n - 1) /\ n \in 1..Len(list)  BY <1>1, <2>4
    <2>6. kept[n - 1] \in Seq(Hook) /\ Len(kept[n - 1]) <= n - 1  BY <2>2, <2>5
    <2>7. list[n] \in Hook  BY <1>1, <2>5
    <2>8. /\ Append(kept[n - 1], list[n]) \in Seq(Hook)
          /\ Len(Append(kept[n - 1], list[n])) = Len(kept[n - 1]) + 1
          /\ Len(kept[n - 1]) \in Nat
      BY <2>6, <2>7
    <2>9. kept[n] = Append(kept[n - 1], list[n]) \/ kept[n] = kept[n - 1]  BY <2>3, <2>4
    <2>10. kept[n] \in Seq(Hook) /\ Len(kept[n]) <= n
      <3>1. n \in Nat  BY <2>5
      <3>2. Len(kept[n - 1]) <= n /\ Len(kept[n - 1]) + 1 <= n
        BY <2>6, <2>8, <3>1
      <3>3. CASE kept[n] = Append(kept[n - 1], list[n])  BY <2>8, <3>2, <3>3
      <3>4. CASE kept[n] = kept[n - 1]  BY <2>6, <3>2, <3>4
      <3>5. QED  BY <2>9, <3>3, <3>4
    <2>11. QED  BY <2>2, <2>10
  <1>7. kept[Len(list)] \in Seq(Hook) /\ Len(kept[Len(list)]) <= Len(list)  BY <1>1, <1>6
  <1>8. Len(kept[Len(list)]) \in Nat  BY <1>7
  <1>9. QED  BY <1>1, <1>2, <1>7, <1>8

\* While the firing feeds or awaits a hook, it is at a sync hook it has started; the
\* hooks it has not come to are not started, and each it passed is done with if sync.
HooksInv ==
    /\ HooksTypeOK
    /\ hooks \in Seq(Hook)
    /\ firing \in {"feeds", "awaits"} =>
           at <= Len(hooks) /\ Here.sync /\ Here.starts /\ process[at] # "none"
    /\ firing = "next" => outcome # "aborted" /\ (at <= Len(hooks) => process[at] = "none")
    /\ firing \in {"feeds", "awaits"} => outcome # "aborted"
    /\ \A i \in DOMAIN hooks : i > at => process[i] = "none"
    /\ \A i \in DOMAIN hooks : hooks[i].sync /\ process[i] = "running" =>
           i = at /\ firing \in {"feeds", "awaits"}
    /\ outcome = "aborted" =>
           /\ at \in DOMAIN hooks /\ Here.sync /\ process[at] = "ended"
           /\ Here.exit = "two" \/ Here.timeoutAborts

\* At most one sync hook runs at a time, and none is left running when the firing has
\* ended; what was refused was refused by a sync hook that exits with 2 or may not time
\* out, and no hook after it was started.
OneAtATime ==
    /\ \A i, j \in DOMAIN hooks :
           (hooks[i].sync /\ hooks[j].sync /\ process[i] = "running" /\ process[j] = "running") => i = j
    /\ firing \in {"ended", "gone"} =>
           \A i \in DOMAIN hooks : hooks[i].sync => process[i] # "running"
    /\ outcome = "aborted" =>
           /\ at \in DOMAIN hooks /\ Here.sync /\ (Here.exit = "two" \/ Here.timeoutAborts)
           /\ \A i \in DOMAIN hooks : i > at => process[i] = "none"

LEMMA InitHooks == HooksInit => HooksInv
  <1> SUFFICES ASSUME HooksInit PROVE HooksInv  OBVIOUS
  <1>1. hooks \in Seq(Hook)  BY MatchingIsList DEF HooksInit
  <1>2. Len(hooks) \in Nat /\ DOMAIN hooks = 1..Len(hooks)  BY <1>1
  <1>3. 1 \in 1..(Len(hooks) + 1)  BY <1>2
  <1>4. HooksTypeOK  BY <1>3 DEF HooksInit, HooksTypeOK
  <1>5. QED  BY <1>1, <1>2, <1>4 DEF HooksInit, HooksInv

LEMMA StepHooks == HooksInv /\ [HooksNext]_hvars => HooksInv'
  <1> SUFFICES ASSUME HooksInv, [HooksNext]_hvars PROVE HooksInv'  OBVIOUS
  <1>1. /\ hooks \in Seq(Hook) /\ Len(hooks) \in Nat /\ DOMAIN hooks = 1..Len(hooks)
        /\ at \in 1..(Len(hooks) + 1) /\ at \in Nat
        /\ \A i \in DOMAIN hooks : hooks[i] \in Hook
    BY DEF HooksInv, HooksTypeOK
  <1>2. CASE UNCHANGED hvars
    BY <1>2 DEF hvars, HooksInv, HooksTypeOK, Here
  <1>3. ASSUME Stays
        PROVE  /\ hooks' = hooks
               /\ hooks' \in {Matching(c) : c \in Configs} /\ caller' \in Callers /\ large' \in BOOLEAN
    BY <1>3 DEF Stays, HooksInv, HooksTypeOK
  <1> DEFINE Typed == /\ at \in 1..(Len(hooks) + 1)
                      /\ firing \in {"next", "feeds", "awaits", "ended", "gone"}
                      /\ outcome \in {"ok", "softFail", "aborted"}
                      /\ process \in [DOMAIN hooks -> {"none", "running", "ended"}]
                      /\ input \in [DOMAIN hooks -> {"none", "owed", "given", "lost"}]
  <1>4. Typed  BY DEF HooksInv, HooksTypeOK
  <1>5. ASSUME Stays, Typed' PROVE HooksTypeOK'
    BY <1>3, <1>5 DEF HooksTypeOK
  <1>6. CASE NotStarted
    BY <1>1, <1>4, <1>3, <1>5, <1>6 DEF NotStarted, Result, Here, HooksInv
  <1>7. CASE StartSync
    BY <1>1, <1>4, <1>3, <1>5, <1>7 DEF StartSync, Started, Here, HooksInv
  <1>8. CASE StartAsync
    BY <1>1, <1>4, <1>3, <1>5, <1>8 DEF StartAsync, Started, Here, HooksInv
  <1>9. CASE Feed
    BY <1>1, <1>4, <1>3, <1>5, <1>9 DEF Feed, Here, HooksInv
  <1>10. CASE Collect
    BY <1>1, <1>4, <1>3, <1>5, <1>10 DEF Collect, Result, Here, HooksInv, Hook
  <1>11. CASE TimesOut
    BY <1>1, <1>4, <1>3, <1>5, <1>11 DEF TimesOut, Result, Here, HooksInv
  <1>12. CASE End
    BY <1>1, <1>4, <1>3, <1>5, <1>12 DEF End, Here, HooksInv
  <1>13. CASE Leave
    BY <1>1, <1>4, <1>3, <1>5, <1>13 DEF Leave, Here, HooksInv
  <1>14. ASSUME NEW i \in DOMAIN hooks, Exits(i) PROVE HooksInv'
    BY <1>1, <1>4, <1>3, <1>5, <1>14 DEF Exits, Here, HooksInv
  <1>15. ASSUME NEW i \in DOMAIN hooks, FeedAsync(i) PROVE HooksInv'
    BY <1>1, <1>4, <1>3, <1>5, <1>15 DEF FeedAsync, Here, HooksInv
  <1>16. QED
    BY <1>2, <1>6, <1>7, <1>8, <1>9, <1>10, <1>11, <1>12, <1>13, <1>14, <1>15 DEF HooksNext, Fire

\* Where a firing is, and what became of each hook, for every list of hooks.
THEOREM HooksAreInvariant == HooksSpec => []HooksInv
  BY InitHooks, StepHooks, PTL DEF HooksSpec

\* The state of a firing has its type.
THEOREM HooksTypeCorrect == HooksSpec => []HooksTypeOK
  <1>1. HooksInv => HooksTypeOK  BY DEF HooksInv
  <1>2. QED  BY HooksAreInvariant, <1>1, PTL

\* Hooks gate in order: whatever the hooks of the files do, one sync hook runs at a time,
\* none outlives the firing, and an abort is the verdict of one of them.
THEOREM HooksGateInOrder == HooksSpec => []OneAtATime
  <1>1. HooksInv => OneAtATime  BY DEF HooksInv, OneAtATime
  <1>2. QED  BY HooksAreInvariant, <1>1, PTL

-----------------------------------------------------------------------------
(* The components side by side.                                             *)

\* A step is one of the subject, and the subject stays.
LEMMA StepIsOfSubject ==
    [Next]_vars =>
        /\ subject' = subject
        /\ subject = "supervisor" => [SupervisorNext]_svars
        /\ subject = "decomposition" => [DecompositionNext]_dvars
        /\ subject = "conversation" => [ConversationNext]_cvars
        /\ subject = "hooks" => [HooksNext]_hvars
        /\ subject = "configuration" => [ConfigurationNext]_fvars
        /\ subject = "benchmark" => [BenchmarkNext]_bvars
  <1> SUFFICES ASSUME [Next]_vars PROVE
        /\ subject' = subject
        /\ subject = "supervisor" => [SupervisorNext]_svars
        /\ subject = "decomposition" => [DecompositionNext]_dvars
        /\ subject = "conversation" => [ConversationNext]_cvars
        /\ subject = "hooks" => [HooksNext]_hvars
        /\ subject = "configuration" => [ConfigurationNext]_fvars
        /\ subject = "benchmark" => [BenchmarkNext]_bvars
    OBVIOUS
  <1>1. CASE UNCHANGED vars
    <2>1. UNCHANGED <<subject, svars, dvars, cvars, hvars, fvars, bvars>>  BY <1>1 DEF vars
    <2>2. QED  BY <2>1
  <1>2. CASE Next  BY <1>2 DEF Next
  <1>3. QED  BY <1>1, <1>2

\* A behaviour is one of its subject from beginning to end.
LEMMA BehaviourIsOfSubject ==
    Spec =>
        /\ (subject = "supervisor" => SupervisorSpec /\ [](subject = "supervisor"))
        /\ (subject = "decomposition" => DecompositionSpec /\ [](subject = "decomposition"))
        /\ (subject = "conversation" => ConversationSpec /\ [](subject = "conversation"))
        /\ (subject = "hooks" => HooksSpec /\ [](subject = "hooks"))
        /\ (subject = "configuration" => ConfigurationSpec /\ [](subject = "configuration"))
        /\ (subject = "benchmark" => BenchmarkSpec /\ [](subject = "benchmark"))
        /\ (~(subject = "supervisor") => []~(subject = "supervisor"))
        /\ (~(subject = "decomposition") => []~(subject = "decomposition"))
        /\ (~(subject = "conversation") => []~(subject = "conversation"))
        /\ (~(subject = "hooks") => []~(subject = "hooks"))
        /\ (~(subject = "configuration") => []~(subject = "configuration"))
        /\ (~(subject = "benchmark") => []~(subject = "benchmark"))
  <1>1. Init =>
        /\ subject = "supervisor" => SupervisorInit
        /\ subject = "decomposition" => DecompositionInit
        /\ subject = "conversation" => ConversationInit
        /\ subject = "hooks" => HooksInit
        /\ subject = "configuration" => ConfigurationInit
        /\ subject = "benchmark" => BenchmarkInit
    BY DEF Init
  <1>2. [Next]_vars =>
        /\ subject = "supervisor" => [SupervisorNext]_svars
        /\ subject = "decomposition" => [DecompositionNext]_dvars
        /\ subject = "conversation" => [ConversationNext]_cvars
        /\ subject = "hooks" => [HooksNext]_hvars
        /\ subject = "configuration" => [ConfigurationNext]_fvars
        /\ subject = "benchmark" => [BenchmarkNext]_bvars
        /\ (subject = "supervisor")' <=> subject = "supervisor"
        /\ (subject = "decomposition")' <=> subject = "decomposition"
        /\ (subject = "conversation")' <=> subject = "conversation"
        /\ (subject = "hooks")' <=> subject = "hooks"
        /\ (subject = "configuration")' <=> subject = "configuration"
        /\ (subject = "benchmark")' <=> subject = "benchmark"
    BY StepIsOfSubject
  <1>3. QED
    BY <1>1, <1>2, PTL
    DEF Spec, SupervisorSpec, DecompositionSpec, ConversationSpec, HooksSpec,
        ConfigurationSpec, BenchmarkSpec

\* Whatever the component, its state has its type; so every state that the run of the
\* components reaches, whatever the constants, is one of the program's.
THEOREM TypesAreCorrect == Spec => []TypesOK
  <1>1. Spec => [](subject = "supervisor" => SupervisorTypeOK)
    BY BehaviourIsOfSubject, SupervisorTypeCorrect, PTL
  <1>2. Spec => [](subject = "decomposition" => DecompositionTypeOK)
    BY BehaviourIsOfSubject, DecompositionTypeCorrect, PTL
  <1>3. Spec => [](subject = "conversation" => ConversationTypeOK)
    BY BehaviourIsOfSubject, ConversationTypeCorrect, PTL
  <1>4. Spec => [](subject = "hooks" => HooksTypeOK)
    BY BehaviourIsOfSubject, HooksTypeCorrect, PTL
  <1>5. Spec => [](subject = "configuration" => ConfigurationTypeOK)
    <2>1. ConfigurationInv => ConfigurationTypeOK  BY DEF ConfigurationInv
    <2>2. QED  BY BehaviourIsOfSubject, ConfigurationIsInvariant, <2>1, PTL
  <1>6. Spec => [](subject = "benchmark" => BenchmarkTypeOK)
    BY BehaviourIsOfSubject, BenchmarkTypeCorrect, PTL
  <1>7. QED  BY <1>1, <1>2, <1>3, <1>4, <1>5, <1>6, PTL DEF TypesOK
=============================================================================
