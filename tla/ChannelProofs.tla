---------------------------- MODULE ChannelProofs ----------------------------
(***************************************************************************)
(* What the inputs are given and what they publish through.                *)
(*                                                                         *)
(* Setup for any configuration, any number of files and inputs, and any    *)
(* settings: what newBeater accepts, what it lists, and that clients that  *)
(* were given the same maps do not share what the settings make of them.   *)
(*                                                                         *)
(* The sub-outlet over an outlet, for any events and any number of         *)
(* goroutines that close it: no channel is closed twice or sent on when    *)
(* closed, an answer goes to the call it belongs to, and both outlets      *)
(* implement, as far as safety goes, what Outleter promises.               *)
(***************************************************************************)
EXTENDS Setup, Outlets, FiniteSetTheorems, FunctionTheorems, TLAPS

(***************************************************************************)
(* Setup.                                                                 *)
(***************************************************************************)

SetupType ==
  /\ config \in ConfigType
  /\ phase \in {"unpack", "fetch", "list", "check", "accepted", "refused", "exited", "failed"}
  /\ t \in InputTypes \cup {Empty}
  /\ listed \in Seq(InputTypes \cup {Empty})
  /\ next \in Nat \ {0}

\* Merging moves inputs, it neither loses nor doubles one: those of the files
\* that were merged and those still to come are the ones there were.
SameInputs ==
  \E m \in Bijection(DOMAIN wanted, Places(config)) :
    \A p \in DOMAIN wanted : wanted[p] = Configured(config)[m[p]]

\* Before the list nothing is listed, from the list on no file is left.
ListPhases ==
  /\ phase \in {"unpack", "fetch"} => t = Empty /\ listed = << >> /\ next = 1
  /\ phase \in {"list", "check", "accepted", "failed"} =>
       config.dir # "ok" \/ config.files = << >>
  /\ phase \in {"check", "accepted", "failed"} => next = Len(config.inputs) + 1

\* The inputs that the loop of ListEnabledInputs has passed, and listed.
Passed == EnabledUpTo(next - 1)
PassedTypes == {config.inputs[n].type : n \in Passed}

\* t is a type that was listed, or none yet; so an input without a type lists
\* one that is in the list already, or the empty one.
ListedSoFar ==
  /\ next <= Len(config.inputs) + 1
  /\ Len(listed) = Cardinality(Passed)
  /\ t = Empty \/ t \in Range(listed)
  /\ Range(listed) \ {Empty} = PassedTypes \ {NoType, Empty}
  /\ ListedAs(next - 1, t)
  /\ \A n \in Passed : ListPlace(n) \in 1..Len(listed) /\ ListedAs(n, listed[ListPlace(n)])

\* What is checked is what is accepted.
AcceptedList == phase = "accepted" => ~Refused

\* Each client has fields of its own, and the given ones stay as they are.
OwnFields ==
  /\ memory["given"] = Given
  /\ DOMAIN memory = Clients \cup {"given"}
  /\ \A c \in Clients : client[c] # Unset =>
       client[c].at = c /\ editor[client[c].runner] # Unset

SetupIInv ==
  /\ SetupType /\ SameInputs /\ ListPhases /\ ListedSoFar /\ AcceptedList
  /\ OwnFields /\ ClientIsolated

-----------------------------------------------------------------------------
IsPlace(c, f, n) ==
  \/ f = 0 /\ n \in 1..Len(c.inputs)
  \/ c.dir = "ok" /\ f \in 1..Len(c.files) /\ n \in 1..Len(c.files[f])

\* A place is a pair of a file and a position in it.
LEMMA PlacesAre ==
  ASSUME NEW c \in ConfigType
  PROVE  /\ \A p \in Places(c) :
              p = <<p[1], p[2]>> /\ p[1] \in Nat /\ p[2] \in Nat /\ IsPlace(c, p[1], p[2])
         /\ \A f, n : IsPlace(c, f, n) => <<f, n>> \in Places(c)
<1> USE DEF ConfigType
<1>1. DOMAIN c.inputs = 1..Len(c.inputs) /\ DOMAIN c.files = 1..Len(c.files)
  OBVIOUS
<1>2. \A f \in 1..Len(c.files) : DOMAIN c.files[f] = 1..Len(c.files[f]) /\ Len(c.files[f]) \in Nat
  OBVIOUS
<1>3. ASSUME NEW p \in Places(c)
      PROVE  p = <<p[1], p[2]>> /\ p[1] \in Nat /\ p[2] \in Nat /\ IsPlace(c, p[1], p[2])
  <2>1. CASE p \in {0} \X DOMAIN c.inputs
    BY <1>1, <2>1 DEF IsPlace
  <2>2. CASE p \notin {0} \X DOMAIN c.inputs
    <3>1. PICK f \in DOMAIN c.files : p \in {f} \X DOMAIN c.files[f]
      BY <2>2 DEF Places
    <3>2. c.dir = "ok"
      BY <2>2 DEF Places
    <3> QED BY <1>1, <1>2, <3>1, <3>2 DEF IsPlace
  <2> QED BY <2>1, <2>2
<1>4. ASSUME NEW f, NEW n, IsPlace(c, f, n)
      PROVE  <<f, n>> \in Places(c)
  <2>1. CASE f = 0 /\ n \in 1..Len(c.inputs)
    BY <1>1, <2>1 DEF Places
  <2>2. CASE c.dir = "ok" /\ f \in 1..Len(c.files) /\ n \in 1..Len(c.files[f])
    <3>1. f \in DOMAIN c.files /\ <<f, n>> \in {f} \X DOMAIN c.files[f]
      BY <1>1, <1>2, <2>2
    <3> QED BY <2>2, <3>1 DEF Places
  <2> QED BY <1>4, <2>1, <2>2 DEF IsPlace
<1> QED BY <1>3, <1>4

\* The input at a place, in the main file and in another.
LEMMA ConfiguredAt ==
  ASSUME NEW c
  PROVE  /\ \A n : <<0, n>> \in Places(c) => Configured(c)[<<0, n>>] = c.inputs[n]
         /\ \A f, n : f # 0 /\ <<f, n>> \in Places(c) =>
              Configured(c)[<<f, n>>] = c.files[f][n]
<1> QED BY DEF Configured

\* mergeConfigFiles: the inputs of the first file move to the end of the main
\* one's, and the other files move up.
LEMMA MergeMoves ==
  ASSUME NEW c \in ConfigType, c.dir = "ok", c.files # << >>,
         NEW d \in ConfigType, d.dir = "ok",
         d.inputs = Merge(c.inputs, Head(c.files)), d.files = Tail(c.files)
  PROVE  \E g \in Bijection(Places(c), Places(d)) :
           \A p \in Places(c) : Configured(c)[p] = Configured(d)[g[p]]
<1> DEFINE len == Len(c.inputs)
           head == Head(c.files)
           g == [p \in Places(c) |->
                   IF p[1] = 0 THEN p
                   ELSE IF p[1] = 1 THEN <<0, len + p[2]>> ELSE <<p[1] - 1, p[2]>>]
<1>1. /\ head \in Seq(Input) /\ head = c.files[1] /\ Len(head) \in Nat
      /\ len \in Nat /\ Len(c.files) \in Nat \ {0}
      /\ \A f \in 1..Len(c.files) : c.files[f] \in Seq(Input) /\ Len(c.files[f]) \in Nat
  BY DEF ConfigType
<1>2. d.inputs = c.inputs \o head /\ d.files = Tail(c.files) /\ d.dir = "ok"
  BY DEF Merge
<1>4. /\ Len(d.inputs) = len + Len(head)
      /\ \A n \in 1..len : d.inputs[n] = c.inputs[n]
      /\ \A n \in 1..Len(head) : d.inputs[len + n] = head[n]
  BY <1>1, <1>2 DEF ConfigType
<1>5. /\ Len(d.files) = Len(c.files) - 1
      /\ \A f \in 1..(Len(c.files) - 1) : d.files[f] = c.files[f + 1]
  BY <1>1, <1>2 DEF ConfigType
<1>6. \A p \in Places(c) :
        /\ p[1] = 0 => g[p] = p
        /\ p[1] = 1 => g[p] = <<0, len + p[2]>>
        /\ p[1] \notin {0, 1} => g[p] = <<p[1] - 1, p[2]>>
  <2> HIDE DEF len
  <2> QED OBVIOUS
<1>7. \A p \in Places(c) : Configured(c)[p] = IF p[1] = 0 THEN c.inputs[p[2]] ELSE c.files[p[1]][p[2]]
  BY DEF Configured
<1> HIDE DEF len, head, g
<1>p. ASSUME NEW p \in Places(c)
      PROVE  g[p] \in Places(d) /\ Configured(c)[p] = Configured(d)[g[p]]
  <2>1. p = <<p[1], p[2]>> /\ p[1] \in Nat /\ p[2] \in Nat /\ IsPlace(c, p[1], p[2])
    BY PlacesAre
  <2>2. CASE p[1] = 0
    <3>1. p[2] \in 1..len
      BY <1>1, <2>1, <2>2 DEF IsPlace, len
    <3>i. IsPlace(d, 0, p[2])
      BY <1>1, <1>4, <2>1, <3>1 DEF IsPlace
    <3>2. <<0, p[2]>> \in Places(d)
      BY <3>i, PlacesAre
    <3>3. g[p] = <<0, p[2]>>
      BY <1>6, <2>1, <2>2
    <3>4. Configured(d)[<<0, p[2]>>] = d.inputs[p[2]]
      BY <3>2, ConfiguredAt
    <3> QED BY <1>4, <1>7, <2>2, <3>1, <3>2, <3>3, <3>4
  <2>3. CASE p[1] = 1
    <3>1. p[2] \in 1..Len(head)
      BY <1>1, <2>1, <2>3 DEF IsPlace
    <3>2. IsPlace(d, 0, len + p[2])
      BY <1>1, <1>4, <3>1 DEF IsPlace
    <3>3. <<0, len + p[2]>> \in Places(d)
      BY <3>2, PlacesAre
    <3>4. g[p] = <<0, len + p[2]>>
      BY <1>6, <2>3
    <3>5. Configured(d)[<<0, len + p[2]>>] = d.inputs[len + p[2]]
      BY <3>3, ConfiguredAt
    <3>6. Configured(c)[p] = head[p[2]]
      BY <1>1, <1>7, <2>3
    <3> QED BY <1>4, <3>1, <3>3, <3>4, <3>5, <3>6
  <2>4. CASE p[1] > 1
    <3>0. p[1] - 1 # 0
      BY <2>1, <2>4
    <3>1. p[1] - 1 \in 1..(Len(c.files) - 1) /\ p[2] \in 1..Len(c.files[p[1]])
      BY <1>1, <2>1, <2>4 DEF IsPlace
    <3>2. d.files[p[1] - 1] = c.files[p[1]]
      BY <1>1, <1>5, <2>1, <3>1
    <3>3. IsPlace(d, p[1] - 1, p[2])
      BY <1>2, <1>5, <3>1, <3>2 DEF IsPlace
    <3>4. <<p[1] - 1, p[2]>> \in Places(d)
      BY <3>3, PlacesAre
    <3>5. g[p] = <<p[1] - 1, p[2]>>
      BY <1>6, <2>1, <2>4
    <3>6. Configured(d)[<<p[1] - 1, p[2]>>] = d.files[p[1] - 1][p[2]]
      <4>1. \A f, n : f # 0 /\ <<f, n>> \in Places(d) =>
              Configured(d)[<<f, n>>] = d.files[f][n]
        BY ConfiguredAt
      <4> QED BY <3>0, <3>4, <4>1
    <3> QED BY <1>7, <2>1, <2>4, <3>2, <3>4, <3>5, <3>6
  <2> QED BY <2>1, <2>2, <2>3, <2>4
<1>i. ASSUME NEW p \in Places(c), NEW q \in Places(c), g[p] = g[q]
      PROVE  p = q
  <2>1. /\ p = <<p[1], p[2]>> /\ p[1] \in Nat /\ p[2] \in Nat /\ IsPlace(c, p[1], p[2])
        /\ q = <<q[1], q[2]>> /\ q[1] \in Nat /\ q[2] \in Nat /\ IsPlace(c, q[1], q[2])
    BY PlacesAre
  <2>2. /\ g[p][1] = (IF p[1] = 0 THEN 0 ELSE p[1] - 1)
        /\ g[p][2] = (IF p[1] = 1 THEN len + p[2] ELSE p[2])
        /\ g[q][1] = (IF q[1] = 0 THEN 0 ELSE q[1] - 1)
        /\ g[q][2] = (IF q[1] = 1 THEN len + q[2] ELSE q[2])
    BY <1>6, <2>1
  <2>3. /\ p[1] = 0 => p[2] \in 1..len
        /\ q[1] = 0 => q[2] \in 1..len
        /\ p[1] = 1 => p[2] > 0
        /\ q[1] = 1 => q[2] > 0
    BY <1>1, <2>1 DEF IsPlace, len
  <2>4. p[1] = q[1] /\ p[2] = q[2]
    BY <1>1, <1>i, <2>1, <2>2, <2>3
  <2> QED BY <2>1, <2>4
<1>s. ASSUME NEW q \in Places(d)
      PROVE  \E p \in Places(c) : g[p] = q
  <2>1. q = <<q[1], q[2]>> /\ q[1] \in Nat /\ q[2] \in Nat /\ IsPlace(d, q[1], q[2])
    BY PlacesAre
  <2>2. CASE q[1] = 0 /\ q[2] <= len
    <3>1. IsPlace(c, q[1], q[2])
      BY <1>1, <1>5, <2>1, <2>2 DEF IsPlace, len
    <3>2. q \in Places(c)
      BY <2>1, <3>1, PlacesAre
    <3> QED BY <1>6, <2>2, <3>2
  <2>3. CASE q[1] = 0 /\ q[2] > len
    <3>1. q[2] - len \in 1..Len(head)
      BY <1>1, <1>4, <1>5, <2>1, <2>3 DEF IsPlace
    <3>2. IsPlace(c, 1, q[2] - len)
      BY <1>1, <3>1 DEF IsPlace
    <3>3. <<1, q[2] - len>> \in Places(c)
      BY <3>2, PlacesAre
    <3>4. g[<<1, q[2] - len>>] = <<0, len + (q[2] - len)>>
      BY <1>6, <3>3
    <3>5. len + (q[2] - len) = q[2]
      BY <1>1, <2>1
    <3> QED BY <2>1, <2>3, <3>3, <3>4, <3>5
  <2>4. CASE q[1] # 0
    <3>1. q[1] \in 1..(Len(c.files) - 1) /\ q[2] \in 1..Len(c.files[q[1] + 1])
      BY <1>1, <1>5, <2>1, <2>4 DEF IsPlace
    <3>2. q[1] + 1 \in 1..Len(c.files) /\ q[1] + 1 > 1 /\ (q[1] + 1) - 1 = q[1]
      BY <1>1, <3>1
    <3>3. IsPlace(c, q[1] + 1, q[2])
      BY <3>1, <3>2 DEF IsPlace
    <3>4. <<q[1] + 1, q[2]>> \in Places(c)
      BY <3>3, PlacesAre
    <3>5. g[<<q[1] + 1, q[2]>>] = <<(q[1] + 1) - 1, q[2]>>
      BY <1>6, <3>2, <3>4
    <3> QED BY <2>1, <3>2, <3>4, <3>5
  <2> QED BY <1>1, <2>1, <2>2, <2>3, <2>4
<1>f. g \in [Places(c) -> Places(d)]
  BY <1>p DEF g
<1>9. g \in Injection(Places(c), Places(d)) /\ g \in Surjection(Places(c), Places(d))
  BY <1>f, <1>i, <1>s, Fun_IsInj, Fun_IsSurj
<1> QED BY <1>9, <1>p DEF Bijection

-----------------------------------------------------------------------------

\* The invariant holds initially.
LEMMA SetupInitIInv == SetupInit => SetupIInv
<1> SUFFICES ASSUME SetupInit PROVE SetupIInv
  OBVIOUS
<1> USE DEF SetupInit, ConfigInit, CommonInit
<1>1. SetupType
  BY ConfigsType DEF SetupType
<1>2. SameInputs
  <2> DEFINE m == [p \in Places(config) |-> p]
  <2>1. DOMAIN wanted = Places(config) /\ wanted = Configured(config)
    BY DEF Configured
  <2>2. m \in [Places(config) -> Places(config)]
    OBVIOUS
  <2>3. m \in Injection(Places(config), Places(config))
    BY <2>2, Fun_IsInj
  <2>4. m \in Surjection(Places(config), Places(config))
    BY <2>2, Fun_IsSurj
  <2>5. m \in Bijection(DOMAIN wanted, Places(config))
    BY <2>1, <2>3, <2>4 DEF Bijection
  <2>6. \A p \in DOMAIN wanted : wanted[p] = Configured(config)[m[p]]
    BY <2>1
  <2> HIDE DEF m
  <2> QED BY <2>5, <2>6 DEF SameInputs
<1>3. ListPhases /\ AcceptedList
  BY DEF ListPhases, AcceptedList
<1>4. ListedSoFar
  <2>1. Passed = {} /\ Range(listed) = {}
    BY DEF Passed, EnabledUpTo, Range
  <2>2. Len(config.inputs) \in Nat
    BY <1>1 DEF SetupType, ConfigType
  <2>3. ListedAs(next - 1, t)
    BY <2>1 DEF Passed, ListedAs
  <2> QED BY <2>1, <2>2, <2>3, FS_EmptySet DEF ListedSoFar, PassedTypes
<1>5. OwnFields /\ ClientIsolated
  BY GivenIsNoClient DEF OwnFields, ClientIsolated
<1> QED BY <1>1, <1>2, <1>3, <1>4, <1>5 DEF SetupIInv

\* The parts of the invariant about the configuration, and those about clients.
ConfigIInv == SetupType /\ SameInputs /\ ListPhases /\ ListedSoFar /\ AcceptedList
CommonIInv == OwnFields /\ ClientIsolated

\* What was listed stays while the inputs and the list do.
LEMMA ListedFrame ==
  ASSUME ListedSoFar, UNCHANGED <<config, t, listed, next>>
  PROVE  ListedSoFar'
<1>1. \A n : EnabledUpTo(n)' = EnabledUpTo(n)
  BY DEF EnabledUpTo
<1>2. Passed' = Passed /\ PassedTypes' = PassedTypes
  BY <1>1 DEF Passed, PassedTypes
<1>3. /\ \A n, x : ListedAs(n, x)' <=> ListedAs(n, x)
      /\ \A n : ListPlace(n)' = ListPlace(n)
  BY <1>1 DEF ListedAs, ListPlace
<1> QED BY <1>2, <1>3 DEF ListedSoFar

\* Merging a file moves its inputs behind those there are.
LEMMA MergeStep == ASSUME ConfigIInv, MergeFile PROVE ConfigIInv'
<1> USE DEF ConfigIInv, MergeFile
<1>1. CASE phase' = "exited" /\ UNCHANGED config
  BY <1>1, ListedFrame DEF SetupType, SameInputs, ListPhases, AcceptedList
<1>2. CASE config' = [config EXCEPT !.inputs = Merge(@, Head(config.files)), !.files = Tail(@)]
           /\ UNCHANGED phase
  <2> DEFINE inputs == Merge(config.inputs, Head(config.files))
             files == Tail(config.files)
  <2>1. inputs \in Seq(Input) /\ files \in Seq(Seq(Input))
    BY DEF SetupType, ConfigType, Merge
  <2>2. config' = [config EXCEPT !.inputs = inputs, !.files = files]
    BY <1>2
  <2> HIDE DEF inputs, files
  <2>3. /\ config' \in ConfigType /\ config'.dir = "ok"
        /\ config'.inputs = inputs /\ config'.files = files
    BY <2>1, <2>2 DEF SetupType, ConfigType
  <2>4. SetupType'
    BY <1>2, <2>3 DEF SetupType
  <2>5. SameInputs'
    <3>1. PICK g \in Bijection(Places(config), Places(config')) :
            \A p \in Places(config) : Configured(config)[p] = Configured(config')[g[p]]
      BY <2>3, MergeMoves DEF SetupType, inputs, files
    <3>2. PICK m \in Bijection(DOMAIN wanted, Places(config)) :
            \A p \in DOMAIN wanted : wanted[p] = Configured(config)[m[p]]
      BY DEF SameInputs
    <3> DEFINE h == [p \in DOMAIN wanted |-> g[m[p]]]
    <3>3. h \in Bijection(DOMAIN wanted, Places(config'))
      BY Fun_BijTransitive
    <3>4. m \in [DOMAIN wanted -> Places(config)]
      BY DEF Bijection, Injection
    <3>5. \A p \in DOMAIN wanted : wanted[p] = Configured(config')[h[p]]
      BY <3>1, <3>2, <3>4
    <3> HIDE DEF h
    <3> QED BY <3>3, <3>5 DEF SameInputs
  <2>6. Passed' = {} /\ PassedTypes' = {} /\ Range(listed') = {}
    BY <1>2 DEF Passed, PassedTypes, EnabledUpTo, ListPhases, Range
  <2>7. Len(config'.inputs) \in Nat
    BY <2>3 DEF ConfigType
  <2>8. ListPhases' /\ AcceptedList'
    BY <1>2 DEF ListPhases, AcceptedList
  <2>9. ListedSoFar'
    BY <2>6, <2>7, FS_EmptySet DEF ListedSoFar, ListPhases, Passed, ListedAs
  <2> QED BY <2>4, <2>5, <2>8, <2>9
<1> QED BY <1>1, <1>2

\* The elements of a sequence that has grown by one.
LEMMA RangeAppend ==
  ASSUME NEW S, NEW s \in Seq(S), NEW x \in S
  PROVE  Len(Append(s, x)) = Len(s) + 1 /\ Range(Append(s, x)) = Range(s) \cup {x}
<1> DEFINE r == Append(s, x)
<1>1. /\ Len(s) \in Nat /\ DOMAIN s = 1..Len(s)
      /\ Len(r) = Len(s) + 1 /\ DOMAIN r = 1..(Len(s) + 1)
      /\ \A i \in 1..Len(s) : r[i] = s[i]
      /\ r[Len(s) + 1] = x
  OBVIOUS
<1> HIDE DEF r
<1>2. 1..(Len(s) + 1) = 1..Len(s) \cup {Len(s) + 1}
  BY <1>1
<1>3. {r[i] : i \in DOMAIN r} = {s[i] : i \in DOMAIN s} \cup {x}
  BY <1>1, <1>2
<1> QED BY <1>1, <1>3 DEF Range, r

\* One turn of the loop, or its end.
LEMMA ListStep == ASSUME ConfigIInv, ListEnabledInputs PROVE ConfigIInv'
<1> USE DEF ConfigIInv, ListEnabledInputs
<1>u. UNCHANGED <<config, wanted>> /\ SameInputs'
  BY DEF SameInputs
<1>1. Len(config.inputs) \in Nat
      /\ \A n \in 1..Len(config.inputs) : config.inputs[n] \in Input
  BY DEF SetupType, ConfigType
<1>2. CASE next > Len(config.inputs)
  <2>1. phase' = "check" /\ UNCHANGED <<t, listed, next>> /\ next = Len(config.inputs) + 1
    BY <1>1, <1>2 DEF SetupType, ListedSoFar
  <2>2. SetupType' /\ AcceptedList'
    BY <1>u, <2>1 DEF SetupType, AcceptedList
  <2>3. ListPhases'
    BY <1>u, <2>1 DEF ListPhases
  <2>4. ListedSoFar'
    BY <1>u, <2>1, ListedFrame
  <2> QED BY <1>u, <2>2, <2>3, <2>4
<1>3. CASE ~(next > Len(config.inputs))
  <2> DEFINE input == config.inputs[next]
  <2>1. next \in 1..Len(config.inputs) /\ input \in Input /\ next' = next + 1
    BY <1>1, <1>3 DEF SetupType
  <2>2. Passed' = IF input.enabled THEN Passed \cup {next} ELSE Passed
    BY <1>u, <2>1 DEF Passed, EnabledUpTo
  <2>3. IsFiniteSet(Passed) /\ next \notin Passed
    <3>1. IsFiniteSet(1..(next - 1))
      BY <2>1, FS_Interval
    <3> QED BY <2>1, <3>1, FS_Subset DEF Passed, EnabledUpTo
  <2>4. PassedTypes' = IF input.enabled THEN PassedTypes \cup {input.type} ELSE PassedTypes
    BY <1>u, <2>2 DEF PassedTypes
  <2>5. SetupType'
    <3>1. /\ phase' = phase /\ t' \in InputTypes \cup {Empty}
          /\ listed' = listed \/ listed' = Append(listed, t')
      BY <1>3, <2>1 DEF SetupType, ListInput, Input
    <3>2. listed' \in Seq(InputTypes \cup {Empty})
      BY <3>1 DEF SetupType
    <3> QED BY <1>u, <2>1, <3>1, <3>2 DEF SetupType
  <2>6. ListPhases' /\ AcceptedList'
    BY <1>u, <1>3 DEF ListPhases, AcceptedList
  <2>p. /\ Passed' = EnabledUpTo(next) /\ next \notin Passed
        /\ \A n, x : ListedAs(n, x)' <=> ListedAs(n, x)
        /\ \A n : ListPlace(n)' = ListPlace(n)
    BY <1>u, <2>1, <2>3 DEF Passed, EnabledUpTo, ListedAs, ListPlace
  <2>7. CASE ~input.enabled
    <3>1. UNCHANGED <<t, listed>>
      BY <1>3, <2>7 DEF ListInput
    <3>2. ListedAs(next, t)
      BY <2>2, <2>7, <2>p DEF ListedSoFar, ListedAs, Passed
    <3> QED BY <1>u, <1>1, <2>1, <2>2, <2>4, <2>7, <2>p, <3>1, <3>2, <2>5, <2>6 DEF ListedSoFar
  <2>8. CASE input.enabled
    <3>1. t' = (IF input.type = NoType THEN t ELSE input.type) /\ listed' = Append(listed, t')
      BY <1>3, <2>8 DEF ListInput
    <3>2. Len(listed') = Len(listed) + 1 /\ Range(listed') = Range(listed) \cup {t'}
      BY <2>5, <3>1, RangeAppend DEF SetupType
    <3>3. Cardinality(Passed') = Cardinality(Passed) + 1
      BY <2>2, <2>3, <2>8, FS_AddElement
    <3>4. ListedAs(next, t')
      <4>1. EnabledUpTo(next) = Passed \cup {next} /\ \A m \in Passed : m < next
        BY <2>1, <2>2, <2>8, <2>p DEF Passed, EnabledUpTo
      <4>2. CASE input.type = NoType
        BY <3>1, <4>1, <4>2 DEF ListedSoFar, ListedAs, Passed
      <4>3. CASE input.type # NoType
        <5>1. next \in EnabledUpTo(next) /\ next \in Nat /\ t' = config.inputs[next].type
          BY <2>1, <3>1, <4>1, <4>3
        <5>2. \A m \in EnabledUpTo(next) : m <= next
          BY <4>1, <5>1 DEF Passed, EnabledUpTo
        <5> QED BY <4>3, <5>1, <5>2 DEF ListedAs
      <4> QED BY <4>2, <4>3
    <3>5. ASSUME NEW n \in Passed'
          PROVE  ListPlace(n) \in 1..Len(listed') /\ ListedAs(n, listed'[ListPlace(n)])
      <4>1. /\ Len(listed) \in Nat /\ listed'[Len(listed) + 1] = t'
            /\ \A l \in 1..Len(listed) : listed'[l] = listed[l]
        BY <2>5, <3>1 DEF SetupType
      <4>2. CASE n \in Passed
        BY <3>2, <4>1, <4>2 DEF ListedSoFar
      <4>3. CASE n = next
        <5>1. ListPlace(n) = Len(listed) + 1
          BY <2>3, <2>8, <2>2, <2>p, <4>3, FS_AddElement DEF ListPlace, ListedSoFar
        <5> QED BY <3>2, <3>4, <4>1, <4>3, <5>1
      <4> QED BY <2>2, <2>8, <4>2, <4>3
    <3> QED BY <1>u, <1>1, <2>1, <2>2, <2>4, <2>5, <2>6, <2>8, <2>p, <3>1, <3>2, <3>3, <3>4, <3>5
        DEF ListedSoFar
  <2> QED BY <2>7, <2>8
<1> QED BY <1>2, <1>3

\* Every step of the configuration keeps its part of the invariant.
LEMMA ConfigStep == ASSUME ConfigIInv, ConfigNext PROVE ConfigIInv'
<1> USE DEF ConfigIInv
<1>1. CASE Unpack \/ FetchConfigs \/ Check
  <2>u. UNCHANGED <<config, t, listed, next, wanted>>
    BY <1>1 DEF Unpack, FetchConfigs, Check
  <2>1. SetupType'
    BY <1>1, <2>u DEF SetupType, Unpack, FetchConfigs, Check
  <2>2. ListPhases'
    BY <1>1, <2>u DEF SetupType, ListPhases, ConfigType, Unpack, FetchConfigs, Check
  <2>3. AcceptedList'
    BY <1>1, <2>u DEF AcceptedList, Refused, IsInputEnabled, Unpack, FetchConfigs, Check
  <2>4. SameInputs' /\ ListedSoFar'
    BY <2>u, ListedFrame DEF SameInputs
  <2> QED BY <2>1, <2>2, <2>3, <2>4
<1> QED BY <1>1, MergeStep, ListStep DEF ConfigNext

\* So does a step that leaves the configuration alone.
LEMMA ConfigSame == ASSUME ConfigIInv, UNCHANGED configVars PROVE ConfigIInv'
<1> QED BY ListedFrame DEF configVars, ConfigIInv, SetupType, SameInputs, ListPhases,
  AcceptedList, Refused, IsInputEnabled

\* A new editor changes no client.
LEMMA CreateStep ==
  ASSUME CommonIInv, NEW r, NEW type, Create(r, type)
  PROVE  CommonIInv'
<1> USE DEF CommonIInv, Create
<1>1. \A c \in Clients : client[c] # Unset => editor'[client[c].runner] = editor[client[c].runner]
  BY DEF OwnFields
<1>2. OwnFields'
  BY <1>1 DEF OwnFields
<1>3. ClientIsolated'
  BY <1>1 DEF ClientIsolated, Edit
<1> QED BY <1>2, <1>3

\* The new client's fields are made of the given ones, and are no other's.
LEMMA ConnectStep ==
  ASSUME CommonIInv, NEW r, NEW c \in Clients, Connect(r, c)
  PROVE  CommonIInv'
<1> USE DEF CommonIInv, Connect, Clone
<1>1. /\ memory' = [memory EXCEPT ![c] = Edit(editor[r], Given)]
      /\ client' = [client EXCEPT ![c] = [runner |-> r, at |-> c]]
  BY DEF OwnFields
<1>2. OwnFields'
  BY <1>1, GivenIsNoClient DEF OwnFields
<1>3. ClientIsolated'
  BY <1>1 DEF ClientIsolated, OwnFields
<1> QED BY <1>2, <1>3

\* Every step keeps the invariant.
LEMMA SetupNextIInv == SetupIInv /\ [SetupNext]_setupVars => SetupIInv'
<1> SUFFICES ASSUME ConfigIInv, CommonIInv, [SetupNext]_setupVars PROVE ConfigIInv' /\ CommonIInv'
  BY DEF SetupIInv, ConfigIInv, CommonIInv
<1>1. CASE ConfigNext /\ UNCHANGED commonVars
  <2>1. ConfigIInv'
    BY <1>1, ConfigStep
  <2>2. CommonIInv'
    BY <1>1 DEF commonVars, CommonIInv, OwnFields, ClientIsolated, Edit
  <2> QED BY <2>1, <2>2
<1>2. CASE CreateNext
  BY <1>2, ConfigSame, CreateStep DEF CreateNext
<1>3. CASE CreateFails
  <2>1. ConfigIInv'
    BY <1>3, ListedFrame DEF CreateFails, ConfigIInv, SetupType, SameInputs, ListPhases, AcceptedList
  <2>2. CommonIInv'
    BY <1>3 DEF CreateFails, commonVars, CommonIInv, OwnFields, ClientIsolated, Edit
  <2> QED BY <2>1, <2>2
<1>4. CASE ConnectSome
  BY <1>4, ConfigSame, ConnectStep DEF ConnectSome
<1>5. CASE UNCHANGED setupVars
  <2>1. ConfigIInv'
    BY <1>5, ConfigSame DEF setupVars
  <2>2. CommonIInv'
    BY <1>5 DEF setupVars, commonVars, CommonIInv, OwnFields, ClientIsolated, Edit
  <2> QED BY <2>1, <2>2
<1> QED BY <1>1, <1>2, <1>3, <1>4, <1>5 DEF SetupNext

\* The invariant of the proof holds in every state.
LEMMA SetupSpecIInv == SetupSpec => []SetupIInv
<1> QED BY SetupInitIInv, SetupNextIInv, PTL DEF SetupSpec

-----------------------------------------------------------------------------

\* Once the loop has passed all inputs, and all files are merged, what it has
\* passed is what is enabled anywhere.
LEMMA AllPassed ==
  ASSUME ConfigIInv, phase \in {"check", "accepted", "failed"}
  PROVE  /\ Cardinality(Passed) = Cardinality(EnabledAt)
         /\ PassedTypes \ {NoType} = TypesWanted
         /\ Passed = {} <=> EnabledAt = {}
<1> USE DEF ConfigIInv
<1>1. PICK m \in Bijection(DOMAIN wanted, Places(config)) :
        \A p \in DOMAIN wanted : wanted[p] = Configured(config)[m[p]]
  BY DEF SameInputs
<1>2. /\ m \in [DOMAIN wanted -> Places(config)]
      /\ \A p, q \in DOMAIN wanted : m[p] = m[q] => p = q
      /\ \A q \in Places(config) : \E p \in DOMAIN wanted : m[p] = q
  BY Fun_BijectionProperties, <1>1
<1>3. /\ \A q \in Places(config) : \E n \in 1..Len(config.inputs) : q = <<0, n>>
      /\ \A n \in 1..Len(config.inputs) : <<0, n>> \in Places(config)
  <2>1. config \in ConfigType /\ (config.dir # "ok" \/ Len(config.files) = 0)
    BY DEF SetupType, ListPhases, ConfigType
  <2> QED BY <2>1, PlacesAre DEF IsPlace
<1>4. \A n \in 1..Len(config.inputs) : Configured(config)[<<0, n>>] = config.inputs[n]
  BY <1>3, ConfiguredAt
<1>5. Passed = {n \in 1..Len(config.inputs) : config.inputs[n].enabled}
  BY DEF Passed, EnabledUpTo, ListPhases, SetupType, ConfigType
<1> DEFINE at == [p \in EnabledAt |-> m[p][2]]
<1>6. ASSUME NEW p \in EnabledAt
      PROVE  at[p] \in Passed /\ config.inputs[at[p]] = wanted[p] /\ m[p] = <<0, at[p]>>
  BY <1>1, <1>2, <1>3, <1>4, <1>5 DEF EnabledAt
<1>7. ASSUME NEW n \in Passed
      PROVE  \E p \in EnabledAt : at[p] = n
  <2>1. PICK p \in DOMAIN wanted : m[p] = <<0, n>>
    BY <1>2, <1>3, <1>5
  <2>2. p \in EnabledAt
    BY <1>1, <1>4, <1>5, <2>1 DEF EnabledAt
  <2> QED BY <2>1, <2>2
<1>8. at \in [EnabledAt -> Passed]
  BY <1>6
<1> HIDE DEF at
<1>9. ASSUME NEW p \in EnabledAt, NEW q \in EnabledAt, at[p] = at[q]
      PROVE  p = q
  <2>1. m[p] = <<0, at[p]>> /\ m[q] = <<0, at[q]>>
    BY <1>6
  <2>2. m[p] = m[q]
    BY <1>9, <2>1
  <2> QED BY <1>2, <2>2 DEF EnabledAt
<1>10. ExistsBijection(EnabledAt, Passed)
  BY <1>7, <1>8, <1>9, Fun_IsInj, Fun_IsSurj, Fun_ExistsBij DEF Bijection
<1>11. IsFiniteSet(Passed)
  <2>1. IsFiniteSet(1..Len(config.inputs))
    BY FS_Interval DEF SetupType, ConfigType
  <2> QED BY <1>5, <2>1, FS_Subset
<1>12. Cardinality(Passed) = Cardinality(EnabledAt)
  BY <1>10, <1>11, FS_Bijection, Fun_ExistsBijSymmetric
<1>13. PassedTypes \ {NoType} = TypesWanted
  BY <1>6, <1>7 DEF PassedTypes, TypesWanted
<1>14. Passed = {} <=> EnabledAt = {}
  BY <1>7, <1>8
<1> QED BY <1>12, <1>13, <1>14

\* ListEnabledInputs, config.go: the variable it shares between the inputs neither
\* invents a type nor loses one, and before it is sorted the list has, place by place,
\* the type of each enabled input or of the last before it, in whatever files they were.
THEOREM ListsWhatIsEnabled == SetupSpec => []NoInventedType
<1>1. SetupIInv => NoInventedType
  <2> SUFFICES ASSUME ConfigIInv, phase \in {"check", "accepted", "failed"} PROVE NoInventedType
    BY DEF SetupIInv, ConfigIInv, NoInventedType
  <2>1. Range(listed) \ {Empty} = TypesWanted \ {Empty} /\ Len(listed) = Cardinality(EnabledAt)
    BY AllPassed DEF ConfigIInv, ListedSoFar
  <2>2. Passed = EnabledUpTo(Len(config.inputs))
    BY DEF Passed, ConfigIInv, ListPhases, SetupType, ConfigType
  <2> QED BY <2>1, <2>2 DEF ConfigIInv, ListedSoFar, NoInventedType
<1> QED BY SetupSpecIInv, <1>1, PTL

\* newBeater, assetbeat.go: what it accepts has something to run, and stdin
\* runs alone, by the inputs themselves and not by the types it has listed.
THEOREM AcceptsOnlyRunnable == SetupSpec => []AcceptedConfig
<1>1. SetupIInv => AcceptedConfig
  <2> SUFFICES ASSUME SetupIInv, phase = "accepted"
               PROVE  /\ EnabledAt # {} \/ config.other \/ config.setup
                      /\ "stdin" \in TypesWanted => Cardinality(EnabledAt) = 1
    BY DEF AcceptedConfig
  <2> USE DEF SetupIInv, ConfigIInv
  <2>a. /\ Cardinality(Passed) = Cardinality(EnabledAt)
        /\ PassedTypes \ {NoType} = TypesWanted
    BY AllPassed
  <2>1. /\ Len(listed) = Cardinality(EnabledAt) /\ Len(listed) \in Nat
        /\ EnabledAt = {} => Len(listed) = 0
        /\ Range(listed) \ {Empty} = TypesWanted \ {Empty}
    <3>1. Len(listed) \in Nat
      BY DEF SetupType
    <3>2. Len(listed) = Cardinality(Passed) /\ Range(listed) \ {Empty} = PassedTypes \ {NoType, Empty}
      BY DEF ListedSoFar
    <3>3. PassedTypes \ {NoType, Empty} = TypesWanted \ {Empty}
      BY <2>a
    <3> QED BY <2>a, <3>1, <3>2, <3>3, FS_EmptySet
  <2>2. Len(listed) = 0 <=> listed = << >>
    BY DEF SetupType
  <2>3. ~Refused
    BY DEF AcceptedList
  <2>4. EnabledAt # {} \/ config.other \/ config.setup
    BY <2>1, <2>2, <2>3 DEF Refused, SetupType, ConfigType
  <2>5. ASSUME "stdin" \in TypesWanted
        PROVE  Cardinality(EnabledAt) = 1
    <3>1. "stdin" \in Range(listed)
      BY <2>1, <2>5 DEF Empty
    <3>2. ~(Len(listed) > 1)
      BY <2>3, <3>1 DEF Refused, IsInputEnabled
    <3>3. Len(listed) # 0
      BY <2>2, <3>1 DEF Range
    <3> QED BY <2>1, <3>2, <3>3
  <2> QED BY <2>4, <2>5
<1> QED BY SetupSpecIInv, <1>1, PTL

\* newCommonConfigEditor, runner.go: the clones keep the settings of one input
\* out of another's clients, in whichever order inputs are created and connect.
THEOREM SettingsStayApart == SetupSpec => []ClientIsolated
<1>1. SetupIInv => ClientIsolated
  BY DEF SetupIInv
<1> QED BY SetupSpecIInv, <1>1, PTL

(***************************************************************************)
(* Outlets.                                                               *)
(***************************************************************************)

OutType ==
  /\ isOpen \in BOOLEAN /\ outDone \in Nat /\ outClient \in {"open", "closed"}
  /\ outCall \in [Events -> {"none", "entered", "publishing", "published", "true", "false"}]
  /\ fate \in [Events -> {"none", "taken", "dropped"}]
  /\ outCloser \in [Out!ClosingParties -> {"idle", "swapped", "signalled", "returned"}]

Answers == [event : Events, ok : BOOLEAN]

SubType ==
  /\ done \in BOOLEAN /\ chClosed \in Nat /\ answer \in BOOLEAN
  /\ call \in [Events -> {"none", "entered", "handed", "true", "false"}]
  /\ closer \in [Closers -> {"idle", "locking", "waiting", "returned"}]
  /\ worker \in {"receiving", "forwarding", "answering", "ended"}
  /\ held \in Seq(Events)
  /\ res = << >> \/ \E x \in Answers : res = <<x>>

TypeOK == OutType /\ SubType

\* Of the parties that close the outlet one finds the flag set, and it alone
\* goes on.
OneSwap ==
  /\ isOpen => /\ outDone = 0 /\ outClient = "open"
               /\ \A c \in Out!ClosingParties : outCloser[c] = "idle"
  /\ outDone <= 1
  /\ \A c \in Out!ClosingParties :
       /\ outCloser[c] = "swapped" => outDone = 0
       /\ outCloser[c] \in {"swapped", "signalled"} =>
            \A d \in Out!ClosingParties : outCloser[d] \in {"swapped", "signalled"} => d = c

\* sync.Once, and the channel that is closed in it after done.
OneClose ==
  /\ ~done => chClosed = 0 /\ \A c \in Closers : closer[c] = "idle"
  /\ chClosed <= 1
  /\ \A c \in Closers :
       closer[c] = "locking" =>
         chClosed = 0 /\ \A d \in Closers : closer[d] = "locking" => d = c

Inside(e) == call[e] \in {"entered", "handed"}

\* The mutex, and what is where while a call holds it: the worker has the
\* event of the call and no answer yet, or its answer is in the slot.  Left
\* behind by a call is only what no other call will find.
Handover ==
  /\ \A e, f \in Events : Inside(e) /\ Inside(f) => e = f
  /\ \A e \in Events :
       /\ Inside(e) => chClosed = 0
       /\ call[e] = "entered" => worker = "receiving" /\ res = << >>
       /\ call[e] = "handed" =>
            \/ worker \in {"forwarding", "answering"} /\ Sub!Current = e
            \/ worker = "receiving" /\ res # << >> /\ Head(res).event = e
  /\ ~done /\ Sub!MutexFree => worker = "receiving" /\ res = << >>
  /\ worker \in {"forwarding", "answering"} => Sub!Current \in Events /\ res = << >>
  /\ worker = "ended" => chClosed > 0

\* What a true answer says at each station on its way back to the caller.
TrueAnswers ==
  /\ \A e \in Events :
       /\ outCall[e] = "published" => fate[e] = "taken" \/ ~isOpen
       /\ outCall[e] = "true" => fate[e] = "taken"
       /\ call[e] = "true" => done \/ outCall[e] = "true"
  /\ worker = "answering" /\ answer => outCall[Sub!Current] = "true"
  /\ res # << >> /\ Head(res).ok => outCall[Head(res).event] = "true"

\* A false answer comes from a closed outlet.
FalseAnswers ==
  /\ worker = "answering" => answer \/ ~isOpen
  /\ res # << >> => Head(res).ok \/ ~isOpen

IInv == TypeOK /\ OneSwap /\ OneClose /\ Handover /\ TrueAnswers /\ FalseAnswers

-----------------------------------------------------------------------------

\* What was appended to a sequence is its last element.
LEMMA AppendLast ==
  ASSUME NEW S, NEW s \in Seq(S), NEW e \in S
  PROVE  /\ Append(s, e) \in Seq(S)
         /\ Append(s, e)[Len(Append(s, e))] = e
<1> QED OBVIOUS

\* A slot with one answer in it.
LEMMA OneAnswer ==
  ASSUME NEW x
  PROVE  <<x>> # << >> /\ Head(<<x>>) = x /\ Tail(<<x>>) = << >>
<1> QED OBVIOUS

\* What is sent in the slot is in it, and what is taken leaves it empty.
LEMMA Slot ==
  ASSUME SubType
  PROVE  res # << >> => Head(res) \in Answers /\ Tail(res) = << >>
<1> QED BY OneAnswer DEF SubType

\* The actions, one by one.
LEMMA Actions ==
  ASSUME [Next]_vars
  PROVE  \/ worker = "forwarding" /\ Out!Load(Sub!Current) /\ isOpen /\ UNCHANGED subVars
         \/ worker = "forwarding" /\ Out!Load(Sub!Current) /\ ~isOpen /\ Sub!Forward
         \/ worker = "forwarding" /\ Out!PublishBegin(Sub!Current) /\ UNCHANGED subVars
         \/ worker = "forwarding" /\ Out!PublishEnd(Sub!Current) /\ UNCHANGED subVars
         \/ worker = "forwarding" /\ Out!Answer(Sub!Current) /\ Sub!Forward
         \/ \E c \in Out!ClosingParties :
              (Out!Swap(c) \/ Out!CloseDone(c) \/ Out!CloseClient(c)) /\ UNCHANGED subVars
         \/ (Out!Signal \/ Out!SignalNotNeeded) /\ UNCHANGED subVars
         \/ \E e \in Events :
              /\ \/ Sub!Enter(e) \/ Sub!Give(e) \/ Sub!GiveUp(e) \/ Sub!LeaveEarly(e)
                 \/ Sub!TakeAnswer(e)
              /\ UNCHANGED outVars
         \/ (Sub!PutAnswer \/ Sub!WorkerEnd) /\ UNCHANGED outVars
         \/ \E c \in Closers :
              (Sub!CloseBegin(c) \/ Sub!CloseChannel(c) \/ Sub!CloseWaits(c)) /\ UNCHANGED outVars
         \/ UNCHANGED vars
<1> QED BY DEF Next, WorkerCall, CloseOutlet, Signal, SubCall, SubEnter, SubWorker, CloseSub,
  EndCloseSub, Sub!InCall

\* The steps of one outlet leave the variables of the other alone, or are
\* the end of the worker's call.
LEMMA OutStep ==
  ASSUME TypeOK, Handover, [Next]_vars
  PROVE  OutType' /\ (OneSwap => OneSwap') /\ (isOpen' => isOpen)
<1>c. worker = "forwarding" => Sub!Current \in Events
  BY DEF Handover
<1>1. CASE \E e \in Events : Out!Load(e) \/ Out!PublishBegin(e) \/ Out!PublishEnd(e) \/ Out!Answer(e)
  BY <1>1 DEF TypeOK, OutType, OneSwap, Out!Load, Out!PublishBegin, Out!PublishEnd, Out!Answer
<1>2. CASE \E c \in Out!ClosingParties : Out!Swap(c)
  <2>1. PICK c \in Out!ClosingParties : Out!Swap(c)
    BY <1>2
  <2>2. CASE isOpen
    <3>1. /\ isOpen' = FALSE /\ UNCHANGED <<outDone, outClient, outCall, fate>>
          /\ outCloser' = [outCloser EXCEPT ![c] = "swapped"]
      BY <2>1, <2>2 DEF Out!Swap
    <3> QED BY <2>2, <3>1 DEF TypeOK, OutType, OneSwap
  <2>3. CASE ~isOpen
    <3>1. /\ isOpen' = FALSE /\ UNCHANGED <<outDone, outClient, outCall, fate>>
          /\ outCloser[c] = "idle" /\ outCloser' = [outCloser EXCEPT ![c] = "returned"]
      BY <2>1, <2>3 DEF Out!Swap
    <3> QED BY <2>3, <3>1 DEF TypeOK, OutType, OneSwap
  <2> QED BY <2>2, <2>3
<1>3. CASE \E c \in Out!ClosingParties : Out!CloseDone(c)
  BY <1>3 DEF TypeOK, OutType, OneSwap, Out!CloseDone
<1>4. CASE \E c \in Out!ClosingParties : Out!CloseClient(c)
  BY <1>4 DEF TypeOK, OutType, OneSwap, Out!CloseClient
<1>5. CASE Out!Signal \/ Out!SignalNotNeeded
  BY <1>5 DEF TypeOK, OutType, OneSwap, Out!Signal, Out!SignalNotNeeded
<1>6. CASE UNCHANGED outVars
  BY <1>6 DEF TypeOK, OutType, OneSwap, outVars
<1> QED BY <1>c, <1>1, <1>2, <1>3, <1>4, <1>5, <1>6, Actions DEF vars

\* Every step keeps the types of the sub-outlet.
LEMMA SubTypeStep ==
  ASSUME TypeOK, Handover, [Next]_vars
  PROVE  SubType'
<1>c. worker \in {"forwarding", "answering"} => Sub!Current \in Events
  BY DEF Handover
<1>1. CASE Sub!Forward
  BY <1>1 DEF TypeOK, OutType, SubType, Sub!Forward
<1>2. CASE \E e \in Events : Sub!Enter(e) \/ Sub!GiveUp(e) \/ Sub!LeaveEarly(e)
  BY <1>2 DEF TypeOK, SubType, Sub!Enter, Sub!GiveUp, Sub!LeaveEarly
<1>3. CASE \E e \in Events : Sub!Give(e)
  BY <1>3, AppendLast DEF TypeOK, SubType, Sub!Give
<1>4. CASE \E e \in Events : Sub!TakeAnswer(e)
  BY <1>4, Slot DEF TypeOK, SubType, Sub!TakeAnswer
<1>5. CASE Sub!PutAnswer
  <2>1. [event |-> Sub!Current, ok |-> answer] \in Answers
    BY <1>5, <1>c DEF TypeOK, SubType, Answers, Sub!PutAnswer
  <2> QED BY <1>5, <2>1 DEF TypeOK, SubType, Sub!PutAnswer
<1>6. CASE Sub!WorkerEnd
  BY <1>6 DEF TypeOK, SubType, Sub!WorkerEnd
<1>7. CASE \E c \in Closers : Sub!CloseBegin(c) \/ Sub!CloseChannel(c) \/ Sub!CloseWaits(c)
  <2>1. /\ closer' \in [Closers -> {"idle", "locking", "waiting", "returned"}]
        /\ done' \in BOOLEAN /\ chClosed' \in Nat
    <3>1. CASE \E c \in Closers : Sub!CloseBegin(c)
      BY <3>1 DEF TypeOK, SubType, Sub!CloseBegin
    <3>2. CASE \E c \in Closers : Sub!CloseChannel(c)
      BY <3>2 DEF TypeOK, SubType, Sub!CloseChannel
    <3>3. CASE \E c \in Closers : Sub!CloseWaits(c)
      BY <3>3 DEF TypeOK, SubType, Sub!CloseWaits
    <3> QED BY <1>7, <3>1, <3>2, <3>3
  <2>2. UNCHANGED <<answer, call, worker, held, res>>
    BY <1>7 DEF Sub!CloseBegin, Sub!CloseChannel, Sub!CloseWaits
  <2> QED BY <2>1, <2>2 DEF TypeOK, SubType
<1>8. CASE UNCHANGED subVars
  BY <1>8 DEF TypeOK, SubType, subVars
<1> QED BY <1>1, <1>2, <1>3, <1>4, <1>5, <1>6, <1>7, <1>8, Actions DEF vars

\* The once lets one closer in, and done stays set.
LEMMA OneCloseStep ==
  ASSUME TypeOK, OneClose, [Next]_vars
  PROVE  OneClose' /\ (done => done')
<1>1. CASE \E c \in Closers : Sub!CloseBegin(c)
  BY <1>1 DEF TypeOK, SubType, OneClose, Sub!CloseBegin
<1>2. CASE \E c \in Closers : Sub!CloseChannel(c)
  BY <1>2 DEF TypeOK, SubType, OneClose, Sub!CloseChannel
<1>3. CASE \E c \in Closers : Sub!CloseWaits(c)
  BY <1>3 DEF TypeOK, SubType, OneClose, Sub!CloseWaits
<1>4. CASE UNCHANGED <<done, chClosed, closer>>
  BY <1>4 DEF OneClose
<1> QED BY <1>1, <1>2, <1>3, <1>4, Actions DEF vars, subVars, Sub!Forward, Sub!Enter, Sub!Give,
  Sub!GiveUp, Sub!LeaveEarly, Sub!TakeAnswer, Sub!PutAnswer, Sub!WorkerEnd

\* Worker and slot serve the call that holds the mutex.
LEMMA HandoverStep ==
  ASSUME TypeOK, OneClose, Handover, [Next]_vars
  PROVE  Handover'
<1>1. CASE UNCHANGED <<call, chClosed, done, worker, held, res>>
  BY <1>1 DEF Handover, Inside, Sub!Current, Sub!MutexFree
<1>2. CASE worker = "forwarding" /\ Sub!Forward
  <2>1. /\ worker' = "answering" /\ UNCHANGED <<call, chClosed, done, held, res>>
    BY <1>2 DEF Sub!Forward
  <2>2. Sub!Current' = Sub!Current /\ (Sub!MutexFree' <=> Sub!MutexFree)
    BY <2>1 DEF Sub!Current, Sub!MutexFree
  <2> QED BY <1>2, <2>1, <2>2 DEF Handover, Inside
<1>3. ASSUME NEW e \in Events, Sub!Enter(e) PROVE Handover'
  <2>1. /\ Sub!MutexFree /\ \A f \in Events : ~Inside(f)
        /\ UNCHANGED <<chClosed, done, worker, held, res>> /\ Sub!Current' = Sub!Current
    BY <1>3 DEF Sub!Enter, Sub!MutexFree, Inside, Sub!Current
  <2>2. CASE done
    <3>1. call' = [call EXCEPT ![e] = "false"]
      BY <1>3, <2>2 DEF Sub!Enter
    <3>2. \A f \in Events : ~Inside(f)'
      BY <2>1, <3>1 DEF Inside, TypeOK, SubType
    <3> QED BY <2>1, <2>2, <3>2 DEF Handover, Inside
  <2>3. CASE ~done
    <3>1. call' = [call EXCEPT ![e] = "entered"]
      BY <1>3, <2>3 DEF Sub!Enter
    <3>2. call'[e] = "entered" /\ \A f \in Events : f # e => ~Inside(f)'
      BY <2>1, <3>1 DEF Inside, TypeOK, SubType
    <3>3. ~Sub!MutexFree' /\ chClosed = 0 /\ worker = "receiving" /\ res = << >>
      BY <2>1, <2>3, <3>2 DEF Sub!MutexFree, Handover, OneClose
    <3> QED BY <2>1, <3>2, <3>3 DEF Handover, Inside
  <2> QED BY <2>2, <2>3
<1>4. ASSUME NEW e \in Events, Sub!Give(e) PROVE Handover'
  <2>1. /\ call[e] = "entered" /\ worker' = "forwarding" /\ held' = Append(held, e)
        /\ UNCHANGED <<chClosed, done, res>> /\ Sub!Current' = e
    BY <1>4, AppendLast DEF Sub!Give, Sub!Current, TypeOK, SubType
  <2>2. call'[e] = "handed" /\ \A f \in Events : f # e => ~Inside(f)'
    BY <1>4, <2>1 DEF Sub!Give, Handover, Inside, TypeOK, SubType
  <2>3. ~Sub!MutexFree' /\ chClosed = 0 /\ res = << >>
    BY <2>1, <2>2 DEF Sub!MutexFree, Handover, Inside
  <2> QED BY <2>1, <2>2, <2>3 DEF Handover, Inside
<1>5. ASSUME NEW e \in Events, Sub!GiveUp(e) \/ Sub!LeaveEarly(e) PROVE Handover'
  <2>1. /\ Inside(e) /\ done /\ UNCHANGED <<chClosed, done, worker, held, res>>
        /\ Sub!Current' = Sub!Current
    BY <1>5 DEF Sub!GiveUp, Sub!LeaveEarly, Sub!Current, Inside
  <2>2. \A f \in Events : ~Inside(f)'
    BY <1>5, <2>1 DEF Sub!GiveUp, Sub!LeaveEarly, Handover, Inside, TypeOK, SubType
  <2> QED BY <2>1, <2>2 DEF Handover, Inside
<1>6. ASSUME NEW e \in Events, Sub!TakeAnswer(e) PROVE Handover'
  <2>1. /\ call[e] = "handed" /\ res # << >> /\ res' = << >>
        /\ UNCHANGED <<chClosed, done, worker, held>> /\ Sub!Current' = Sub!Current
    BY <1>6, Slot DEF Sub!TakeAnswer, Sub!Current, TypeOK
  <2>2. worker = "receiving"
    BY <2>1 DEF Handover
  <2>3. \A f \in Events : ~Inside(f)'
    BY <1>6, <2>1 DEF Sub!TakeAnswer, Handover, Inside, TypeOK, SubType
  <2> QED BY <2>1, <2>2, <2>3 DEF Handover, Inside
<1>7. CASE Sub!PutAnswer
  <2>1. /\ worker = "answering" /\ worker' = "receiving" /\ UNCHANGED <<call, chClosed, done, held>>
        /\ res' # << >> /\ Head(res').event = Sub!Current
    BY <1>7, OneAnswer DEF Sub!PutAnswer
  <2>2. ~(~done /\ Sub!MutexFree) /\ (Sub!MutexFree' <=> Sub!MutexFree)
    BY <2>1 DEF Handover, Sub!MutexFree
  <2> QED BY <2>1, <2>2 DEF Handover, Inside
<1>8. CASE Sub!WorkerEnd
  <2>1. /\ worker' = "ended" /\ chClosed > 0 /\ UNCHANGED <<call, chClosed, done, held, res>>
    BY <1>8 DEF Sub!WorkerEnd
  <2>2. done /\ \A f \in Events : ~Inside(f) /\ ~Inside(f)'
    BY <2>1 DEF Handover, OneClose, Inside
  <2> QED BY <2>1, <2>2 DEF Handover, Inside
<1>9. ASSUME NEW c \in Closers, Sub!CloseBegin(c) PROVE Handover'
  <2>1. done' = TRUE /\ UNCHANGED <<chClosed, call, worker, held, res>> /\ Sub!Current' = Sub!Current
    BY <1>9 DEF Sub!CloseBegin, Sub!Current
  <2> QED BY <2>1 DEF Handover, Inside
<1>10. ASSUME NEW c \in Closers, Sub!CloseChannel(c) PROVE Handover'
  <2>1. /\ Sub!MutexFree /\ done /\ chClosed' > 0 /\ UNCHANGED <<done, call, worker, held, res>>
        /\ Sub!Current' = Sub!Current
    BY <1>10 DEF Sub!CloseChannel, Sub!Current, OneClose, TypeOK, SubType
  <2>2. \A f \in Events : ~Inside(f) /\ ~Inside(f)'
    BY <2>1 DEF Sub!MutexFree, Inside
  <2> QED BY <2>1, <2>2 DEF Handover, Inside
<1>11. ASSUME NEW c \in Closers, Sub!CloseWaits(c) PROVE Handover'
  BY <1>1, <1>11 DEF Sub!CloseWaits
<1> QED BY <1>1, <1>2, <1>3, <1>4, <1>5, <1>6, <1>7, <1>8, <1>9, <1>10, <1>11, Actions
  DEF vars, subVars

\* An answer that is taken is about the call that takes it.
LEMMA OwnAnswer == Handover => AnswerIsOwn
<1> QED BY DEF Handover, AnswerIsOwn, Sub!AnswerIsOwn

\* A true answer is handed on by stations that can vouch for it.
LEMMA TrueAnswersStep ==
  ASSUME TypeOK, OneSwap, Handover, TrueAnswers, FalseAnswers, [Next]_vars,
         isOpen' => isOpen, done => done'
  PROVE  TrueAnswers'
<1>c. worker \in {"forwarding", "answering"} => Sub!Current \in Events /\ res = << >>
  BY DEF Handover
<1>s. res # << >> => Head(res) \in Answers
  BY Slot DEF TypeOK
<1>1. ASSUME UNCHANGED <<outCall, fate, call, worker, held, answer, res>> PROVE TrueAnswers'
  BY <1>1 DEF TrueAnswers, Sub!Current
<1>2. CASE /\ worker = "forwarding" /\ UNCHANGED <<held, res, call>>
           /\ \/ Out!Load(Sub!Current) /\ isOpen /\ UNCHANGED subVars
              \/ Out!Load(Sub!Current) /\ ~isOpen /\ Sub!Forward
              \/ Out!PublishBegin(Sub!Current) /\ UNCHANGED subVars
              \/ Out!PublishEnd(Sub!Current) /\ UNCHANGED subVars
              \/ Out!Answer(Sub!Current) /\ Sub!Forward
  <2> DEFINE e == Sub!Current
  <2>1. e \in Events /\ res = << >> /\ Sub!Current' = e
    BY <1>2, <1>c DEF Sub!Current
  <2>2. /\ isOpen' = isOpen /\ outCall' \in [Events -> {"none", "entered", "publishing", "published", "true", "false"}]
        /\ \A f \in Events : f # e => outCall'[f] = outCall[f] /\ fate'[f] = fate[f]
        /\ outCall'[e] = "published" => fate'[e] = "taken" \/ ~isOpen
        /\ outCall[e] # "true"
        /\ outCall'[e] = "true" => outCall[e] = "published" /\ isOpen /\ fate' = fate
    BY <1>2, <2>1 DEF TypeOK, OutType, OneSwap,
      Out!Load, Out!PublishBegin, Out!PublishEnd, Out!Answer
  <2>3. \A f \in Events : call'[f] = "true" => done' \/ outCall'[f] = "true"
    BY <1>2, <2>2 DEF TrueAnswers
  <2>4. worker' = "answering" /\ answer' => outCall'[e] = "true"
    BY <1>2, <2>1 DEF TypeOK, OutType, Out!Load, Out!Answer, Sub!Forward, subVars
  <2> HIDE DEF e
  <2>5. \A f \in Events : outCall'[f] = "true" => fate'[f] = "taken"
    BY <2>1, <2>2 DEF TrueAnswers
  <2>6. \A f \in Events : outCall'[f] = "published" => fate'[f] = "taken" \/ ~isOpen'
    BY <2>1, <2>2 DEF TrueAnswers
  <2> QED BY <1>2, <2>1, <2>3, <2>4, <2>5, <2>6 DEF TrueAnswers
<1>3. ASSUME NEW e \in Events, UNCHANGED outVars,
             Sub!Enter(e) \/ Sub!Give(e) \/ Sub!GiveUp(e) \/ Sub!LeaveEarly(e)
      PROVE  TrueAnswers'
  <2>1. /\ \A f \in Events : call'[f] = "true" => call[f] = "true" \/ done'
        /\ UNCHANGED res
        /\ worker' = "answering" => UNCHANGED <<worker, held, answer>>
    BY <1>3 DEF TypeOK, SubType, Sub!Enter, Sub!Give, Sub!GiveUp, Sub!LeaveEarly
  <2>2. worker' = "answering" => Sub!Current' = Sub!Current
    BY <2>1 DEF Sub!Current
  <2> QED BY <1>3, <2>1, <2>2 DEF TrueAnswers, outVars
<1>4. ASSUME NEW e \in Events, UNCHANGED outVars, Sub!TakeAnswer(e) PROVE TrueAnswers'
  <2>1. Head(res).event = e /\ res # << >> /\ res' = << >>
    BY <1>4, Slot DEF Handover, Sub!TakeAnswer, TypeOK
  <2>2. call'[e] = "true" => outCall[e] = "true"
    BY <1>4, <2>1 DEF TrueAnswers, Sub!TakeAnswer, TypeOK, SubType
  <2>3. UNCHANGED <<worker, held, answer>> /\ Sub!Current' = Sub!Current
        /\ \A f \in Events : f # e => call'[f] = call[f]
    BY <1>4 DEF Sub!TakeAnswer, Sub!Current, TypeOK, SubType
  <2> QED BY <1>4, <2>1, <2>2, <2>3 DEF TrueAnswers, outVars
<1>5. CASE Sub!PutAnswer /\ UNCHANGED outVars
  <2>1. /\ worker = "answering" /\ worker' = "receiving" /\ UNCHANGED call
        /\ Head(res').event = Sub!Current /\ Head(res').ok = answer
    BY <1>5, OneAnswer DEF Sub!PutAnswer
  <2> QED BY <1>5, <2>1 DEF TrueAnswers, outVars
<1>6. CASE Sub!WorkerEnd /\ UNCHANGED outVars
  <2>1. worker' = "ended" /\ UNCHANGED <<call, res>>
    BY <1>6 DEF Sub!WorkerEnd
  <2> QED BY <1>6, <2>1 DEF TrueAnswers, outVars
<1>7. CASE \E c \in Out!ClosingParties :
             (Out!Swap(c) \/ Out!CloseDone(c) \/ Out!CloseClient(c)) /\ UNCHANGED subVars
  BY <1>1, <1>7 DEF Out!Swap, Out!CloseDone, Out!CloseClient, subVars
<1>8. CASE (Out!Signal \/ Out!SignalNotNeeded) /\ UNCHANGED subVars
  BY <1>1, <1>8 DEF Out!Signal, Out!SignalNotNeeded, subVars
<1>9. CASE \E c \in Closers :
             (Sub!CloseBegin(c) \/ Sub!CloseChannel(c) \/ Sub!CloseWaits(c)) /\ UNCHANGED outVars
  BY <1>1, <1>9 DEF Sub!CloseBegin, Sub!CloseChannel, Sub!CloseWaits, outVars
<1>10. CASE UNCHANGED vars
  BY <1>1, <1>10 DEF vars, subVars, outVars
<1> QED BY <1>2, <1>3, <1>4, <1>5, <1>6, <1>7, <1>8, <1>9, <1>10, Actions
  DEF subVars, Sub!Forward

\* A false answer is one of a closed outlet.
LEMMA FalseAnswersStep ==
  ASSUME TypeOK, FalseAnswers, [Next]_vars, isOpen' => isOpen
  PROVE  FalseAnswers'
<1>1. CASE UNCHANGED <<worker, answer, res>>
  BY <1>1 DEF FalseAnswers
<1>2. CASE Sub!Forward
  <2>1. answer' = isOpen /\ UNCHANGED res
    BY <1>2 DEF Sub!Forward
  <2> QED BY <2>1 DEF FalseAnswers, TypeOK, OutType
<1>3. ASSUME NEW e \in Events, Sub!Give(e) PROVE FalseAnswers'
  BY <1>3 DEF FalseAnswers, Sub!Give
<1>4. ASSUME NEW e \in Events, Sub!TakeAnswer(e) PROVE FalseAnswers'
  BY <1>4, Slot DEF FalseAnswers, Sub!TakeAnswer, TypeOK
<1>5. CASE Sub!PutAnswer
  <2>1. Head(res').ok = answer /\ worker = "answering" /\ worker' = "receiving"
    BY <1>5, OneAnswer DEF Sub!PutAnswer
  <2> QED BY <2>1 DEF FalseAnswers
<1>6. CASE Sub!WorkerEnd
  BY <1>6 DEF FalseAnswers, Sub!WorkerEnd
<1> QED BY <1>1, <1>2, <1>3, <1>4, <1>5, <1>6, Actions DEF vars, subVars, Sub!Enter, Sub!GiveUp,
  Sub!LeaveEarly, Sub!CloseBegin, Sub!CloseChannel, Sub!CloseWaits

-----------------------------------------------------------------------------

\* The outlet keeps the promise: only the flag matters.
LEMMA OutletStep ==
  ASSUME TypeOK, Handover, [Next]_vars, isOpen' => isOpen
  PROVE  [Out!Promise!Next]_(Out!Promise!vars)
<1> DEFINE Promised(c) == [e \in Events |-> IF c[e] \in {"publishing", "published"} THEN "entered" ELSE c[e]]
           p == Promised(outCall)
           q == Promised(outCall')
<1>c. worker = "forwarding" => Sub!Current \in Events
  BY DEF Handover
<1>v. Out!Promise!vars = <<~isOpen, TRUE, p>> /\ Out!Promise!vars' = <<~isOpen', TRUE, q>>
  BY DEF Out!Promise!vars
<1>1. CASE UNCHANGED <<isOpen, outCall>>
  BY <1>1 DEF Out!Promise!vars
<1>2. ASSUME NEW e \in Events,
             Out!Load(e) \/ Out!PublishBegin(e) \/ Out!PublishEnd(e) \/ Out!Answer(e)
      PROVE  [Out!Promise!Next]_(Out!Promise!vars)
  <2>1. isOpen' = isOpen /\ \A f \in Events : f # e => outCall'[f] = outCall[f]
    BY <1>2 DEF TypeOK, OutType, Out!Load, Out!PublishBegin, Out!PublishEnd, Out!Answer
  <2>2. q = [p EXCEPT ![e] = q[e]]
    BY <2>1
  <2>3. \/ p[e] = "none" /\ q[e] = "entered" /\ isOpen
        \/ p[e] \in {"none", "entered"} /\ q[e] = "false" /\ ~isOpen
        \/ p[e] = "entered" /\ q[e] = "entered"
        \/ p[e] = "entered" /\ q[e] = "true"
    BY <1>2 DEF TypeOK, OutType, Out!Load, Out!PublishBegin, Out!PublishEnd, Out!Answer
  <2>4. CASE p[e] = "none" /\ q[e] = "entered" /\ isOpen
    <3>1. Out!Promise!Enter(e)
      BY <2>1, <2>2, <2>4 DEF Out!Promise!Enter
    <3> QED BY <3>1 DEF Out!Promise!Next
  <2>5. CASE p[e] \in {"none", "entered"} /\ q[e] = "false" /\ ~isOpen
    <3>1. Out!Promise!Refuse(e)
      BY <2>1, <2>2, <2>5 DEF Out!Promise!Refuse
    <3> QED BY <3>1 DEF Out!Promise!Next
  <2>6. CASE p[e] = "entered" /\ q[e] = "entered"
    <3>1. q = p
      BY <2>2, <2>6
    <3> QED BY <2>1, <3>1, <1>v
  <2>7. CASE p[e] = "entered" /\ q[e] = "true"
    <3>1. Out!Promise!Accept(e)
      BY <2>1, <2>2, <2>7 DEF Out!Promise!Accept
    <3> QED BY <3>1 DEF Out!Promise!Next
  <2> QED BY <2>3, <2>4, <2>5, <2>6, <2>7
<1>3. ASSUME NEW c, Out!Swap(c) PROVE [Out!Promise!Next]_(Out!Promise!vars)
  <2>1. Out!Promise!Close
    BY <1>3 DEF Out!Swap, Out!Promise!Close
  <2> QED BY <2>1 DEF Out!Promise!Next
<1> QED BY <1>c, <1>1, <1>2, <1>3, Actions
  DEF vars, outVars, Out!CloseDone, Out!CloseClient, Out!Signal, Out!SignalNotNeeded

\* The sub-outlet keeps it too, with the outlet as what it sends to.
LEMMA SubOutletStep ==
  ASSUME TypeOK, Handover, FalseAnswers, [Next]_vars, isOpen' => isOpen, done => done'
  PROVE  [Sub!Promise!Next]_(Sub!Promise!vars)
<1> DEFINE Promised(c) == [e \in Events |-> IF c[e] = "handed" THEN "entered" ELSE c[e]]
           p == Promised(call)
           q == Promised(call')
<1>v. Sub!Promise!vars = <<done, isOpen, p>> /\ Sub!Promise!vars' = <<done', isOpen', q>>
  BY DEF Sub!Promise!vars
<1>1. CASE UNCHANGED <<done, isOpen, call>>
  BY <1>1 DEF Sub!Promise!vars
<1>2. ASSUME NEW e \in Events, UNCHANGED outVars,
             \/ Sub!Enter(e) \/ Sub!Give(e) \/ Sub!GiveUp(e) \/ Sub!LeaveEarly(e)
             \/ Sub!TakeAnswer(e)
      PROVE  [Sub!Promise!Next]_(Sub!Promise!vars)
  <2>1. isOpen' = isOpen /\ done' = done /\ \A f \in Events : f # e => call'[f] = call[f]
    BY <1>2 DEF TypeOK, SubType, outVars, Sub!Enter, Sub!Give, Sub!GiveUp, Sub!LeaveEarly, Sub!TakeAnswer
  <2>2. q = [p EXCEPT ![e] = q[e]]
    BY <2>1
  <2>3. \/ p[e] = "none" /\ q[e] = "entered" /\ ~done
        \/ p[e] \in {"none", "entered"} /\ q[e] = "false" /\ (done \/ ~isOpen)
        \/ p[e] = "entered" /\ q[e] = "entered"
        \/ p[e] = "entered" /\ q[e] = "true"
    BY <1>2 DEF TypeOK, SubType, FalseAnswers,
      Sub!Enter, Sub!Give, Sub!GiveUp, Sub!LeaveEarly, Sub!TakeAnswer
  <2>4. CASE p[e] = "none" /\ q[e] = "entered" /\ ~done
    <3>1. Sub!Promise!Enter(e)
      BY <2>1, <2>2, <2>4 DEF Sub!Promise!Enter
    <3> QED BY <3>1 DEF Sub!Promise!Next
  <2>5. CASE p[e] \in {"none", "entered"} /\ q[e] = "false" /\ (done \/ ~isOpen)
    <3>1. Sub!Promise!Refuse(e)
      BY <2>1, <2>2, <2>5 DEF Sub!Promise!Refuse
    <3> QED BY <3>1 DEF Sub!Promise!Next
  <2>6. CASE p[e] = "entered" /\ q[e] = "entered"
    <3>1. q = p
      BY <2>2, <2>6
    <3> QED BY <2>1, <3>1, <1>v
  <2>7. CASE p[e] = "entered" /\ q[e] = "true"
    <3>1. Sub!Promise!Accept(e)
      BY <2>1, <2>2, <2>7 DEF Sub!Promise!Accept
    <3> QED BY <3>1 DEF Sub!Promise!Next
  <2> QED BY <2>3, <2>4, <2>5, <2>6, <2>7
<1>3. CASE isOpen' = FALSE /\ UNCHANGED <<done, call>>
  <2>1. Sub!Promise!CloseUpstream
    BY <1>3 DEF Sub!Promise!CloseUpstream
  <2> QED BY <2>1 DEF Sub!Promise!Next
<1>4. CASE done' = TRUE /\ UNCHANGED <<isOpen, call>>
  <2>1. Sub!Promise!Close
    BY <1>4 DEF Sub!Promise!Close
  <2> QED BY <2>1 DEF Sub!Promise!Next
<1>5. UNCHANGED <<done, call>> \/ UNCHANGED <<isOpen, call>> \/ \E e \in Events :
        /\ \/ Sub!Enter(e) \/ Sub!Give(e) \/ Sub!GiveUp(e) \/ Sub!LeaveEarly(e)
           \/ Sub!TakeAnswer(e)
        /\ UNCHANGED outVars
  BY Actions DEF vars, outVars, subVars, Sub!Forward, Sub!PutAnswer, Sub!WorkerEnd,
    Sub!CloseBegin, Sub!CloseChannel, Sub!CloseWaits
<1>6. /\ isOpen \in BOOLEAN /\ isOpen' \in BOOLEAN /\ done \in BOOLEAN /\ done' \in BOOLEAN
  BY SubTypeStep, OutStep DEF TypeOK, OutType, SubType
<1> QED BY <1>1, <1>2, <1>3, <1>4, <1>5, <1>6

-----------------------------------------------------------------------------

\* The invariant holds initially, and both outlets are as Outleter begins.
LEMMA InitIInv == Init => IInv /\ Out!Promise!Init /\ Sub!Promise!Init
<1> SUFFICES ASSUME Init PROVE IInv /\ Out!Promise!Init /\ Sub!Promise!Init
  OBVIOUS
<1> USE DEF Init, Out!Init, Sub!Init
<1>1. TypeOK
  <2>1. OutType
    BY DEF OutType
  <2>2. held \in Seq(Events)
    OBVIOUS
  <2>3. SubType
    BY <2>2 DEF SubType
  <2> QED BY <2>1, <2>3 DEF TypeOK
<1>2. OneSwap /\ OneClose
  BY DEF OneSwap, OneClose
<1>3. Handover
  BY DEF Handover, Inside
<1>4. TrueAnswers /\ FalseAnswers
  BY DEF TrueAnswers, FalseAnswers
<1>5. Out!Promise!Init /\ Sub!Promise!Init
  BY DEF Out!Promise!Init, Sub!Promise!Init
<1> QED BY <1>1, <1>2, <1>3, <1>4, <1>5 DEF IInv

\* Every step keeps the invariant and is one of both Outleters, or a stutter.
LEMMA NextIInv ==
  ASSUME IInv, [Next]_vars
  PROVE  IInv' /\ [Out!Promise!Next]_(Out!Promise!vars) /\ [Sub!Promise!Next]_(Sub!Promise!vars)
<1> USE DEF IInv
<1>1. TypeOK' /\ OneSwap' /\ (isOpen' => isOpen)
  BY OutStep, SubTypeStep DEF TypeOK
<1>2. OneClose' /\ (done => done')
  BY OneCloseStep
<1>3. Handover'
  BY HandoverStep
<1>4. TrueAnswers' /\ FalseAnswers'
  BY <1>1, <1>2, TrueAnswersStep, FalseAnswersStep
<1>5. [Out!Promise!Next]_(Out!Promise!vars) /\ [Sub!Promise!Next]_(Sub!Promise!vars)
  BY <1>1, <1>2, OutletStep, SubOutletStep
<1> QED BY <1>1, <1>2, <1>3, <1>4, <1>5

\* The invariant of the proof holds in every state.
LEMMA SpecIInv == Spec => []IInv
<1>1. Init => IInv
  BY InitIInv
<1>2. IInv /\ [Next]_vars => IInv'
  BY NextIInv
<1> QED BY <1>1, <1>2, PTL DEF Spec

\* A call of OnEvent never takes the answer to the event of another, though
\* calls of a closed sub-outlet leave answers behind.
THEOREM AnswersAreOwn == Spec => []AnswerIsOwn
<1>1. IInv => AnswerIsOwn
  BY OwnAnswer DEF IInv
<1> QED BY <1>1, SpecIInv, PTL

\* Neither done channel nor the event channel is closed twice, and no event
\* is sent on a closed one, in whichever order the parties come.
THEOREM NoChannelPanics == Spec => []ChannelsNeverPanic
<1>1. IInv => ChannelsNeverPanic
  BY DEF IInv, ChannelsNeverPanic, OneSwap, OneClose, Handover, Inside,
    Out!ClosedOnce, Sub!ClosedOnce, Sub!NothingSentOnClosed, Sub!MutexFree
<1> QED BY <1>1, SpecIInv, PTL

\* An event for which an open sub-outlet has answered true was taken by the
\* pipeline, through two outlets that may be closed at any time.
THEOREM TrueMeansTaken == Spec => []TrueThroughBoth
<1>1. IInv => TrueThroughBoth
  BY DEF IInv, TrueThroughBoth, TrueAnswers
<1> QED BY <1>1, SpecIInv, PTL

\* The outlet implements an Outleter, as far as safety goes: no call enters it
\* when it is closed, and none is refused while it is open.
THEOREM OutletSafely == Spec => Out!Promise!Init /\ [][Out!Promise!Next]_(Out!Promise!vars)
<1>1. Init => Out!Promise!Init
  BY InitIInv
<1>2. IInv /\ [Next]_vars => [Out!Promise!Next]_(Out!Promise!vars)
  BY NextIInv
<1> QED BY <1>1, <1>2, SpecIInv, PTL DEF Spec

\* So does the sub-outlet, with its channels, mutex and worker.
THEOREM SubOutletSafely == Spec => Sub!Promise!Init /\ [][Sub!Promise!Next]_(Sub!Promise!vars)
<1>1. Init => Sub!Promise!Init
  BY InitIInv
<1>2. IInv /\ [Next]_vars => [Sub!Promise!Next]_(Sub!Promise!vars)
  BY NextIInv
<1> QED BY <1>1, <1>2, SpecIInv, PTL DEF Spec

-----------------------------------------------------------------------------
(***************************************************************************)
(* The parts of WorkerEnds and SignalClosesClient that need no fairness:   *)
(* after a Close somebody can go on until the worker has ended, and every  *)
(* step of those who go on brings the end nearer.                          *)
(***************************************************************************)

\* Where the outlet's call is while the worker is in it, or is still to come.
CallUnderWay ==
  /\ \A e \in Events : call[e] \in {"none", "entered"} => outCall[e] = "none"
  /\ worker = "forwarding" =>
       call[Sub!Current] # "none" /\ outCall[Sub!Current] \notin {"true", "false"}

\* A closer that sync.Once let in is still at it, or the channel is closed;
\* likewise for the party that found the outlet's flag set.
CloserAtWork ==
  /\ done /\ chClosed = 0 => \E c \in Closers : closer[c] = "locking"
  /\ ~isOpen /\ outClient = "open" =>
       \E c \in Out!ClosingParties : outCloser[c] \in {"swapped", "signalled"}

\* Closed, the sub-outlet is not stuck: the worker can take its next step, or
\* it waits for a channel that the closer can close, or that the one call
\* holding the mutex keeps from it, and this call can leave.
WorkerGoesOn ==
  done /\ worker # "ended" =>
    \/ worker = "forwarding"
         /\ outCall[Sub!Current] \in {"none", "entered", "publishing", "published"}
    \/ worker = "answering" /\ res = << >>
    \/ worker = "receiving"
         /\ \/ chClosed > 0
            \/ \E e \in Events : Inside(e)
            \/ Sub!MutexFree /\ \E c \in Closers : closer[c] = "locking"

\* A signal is never forgotten: the client is closed, or CloseOnSignal finds
\* the flag set, or whoever was faster has begun to close.
SignalGoesOn ==
  signal /\ outClient = "open" =>
    \/ isOpen /\ outCloser["onSignal"] = "idle"
    \/ \E c \in Out!ClosingParties : outCloser[c] \in {"swapped", "signalled"}

\* What is left to do: for the worker and its call of the outlet, for the call
\* that holds the mutex (which may still hand over its event), for the closer.
Stage(s) == IF s = "none" THEN 3 ELSE IF s = "entered" THEN 2 ELSE IF s = "publishing" THEN 1 ELSE 0
WorkerLeft ==
  IF worker = "forwarding" THEN 3 + Stage(outCall[Sub!Current])
  ELSE IF worker = "answering" THEN 2 ELSE IF worker = "receiving" THEN 1 ELSE 0
CallLeft ==
  IF \E e \in Events : call[e] = "entered" THEN 8
  ELSE IF \E e \in Events : call[e] = "handed" THEN 1 ELSE 0
CloserLeft == IF chClosed = 0 THEN 1 ELSE 0
Left == WorkerLeft + CallLeft + CloserLeft

GoOn ==
  \/ WorkerCall \/ SubWorker
  \/ \E e \in Events : SubCall(e)
  \/ \E c \in Closers : Sub!CloseChannel(c) /\ UNCHANGED outVars

\* Once the sub-outlet is closed no step makes the way of the worker longer,
\* and each step of those WorkerGoesOn is about makes it shorter.
WorkerNears == done => Left' <= Left /\ (GoOn => Left' < Left)

-----------------------------------------------------------------------------

\* The call of the outlet ends together with the worker's turn.
LEMMA CallUnderWayKept ==
  ASSUME TypeOK, Handover, CallUnderWay, [Next]_vars
  PROVE  CallUnderWay'
<1>c. worker \in {"forwarding", "answering"} => Sub!Current \in Events
  BY DEF Handover
<1>d. worker = "forwarding" => call[Sub!Current] \notin {"none", "entered"}
  BY <1>c DEF Handover, CallUnderWay
<1>1. CASE Sub!Forward
  <2>1. worker = "forwarding" /\ worker' = "answering" /\ call' = call
    BY <1>1 DEF Sub!Forward
  <2>2. \A e \in Events : call[e] \in {"none", "entered"} => outCall'[e] = outCall[e]
    BY <1>1, <2>1, <1>c, <1>d, Actions DEF TypeOK, OutType, Out!Load, Out!Answer,
      Sub!Forward, subVars, vars, outVars, Sub!Enter, Sub!Give, Sub!GiveUp, Sub!LeaveEarly, Sub!TakeAnswer,
      Sub!PutAnswer, Sub!WorkerEnd, Sub!CloseBegin, Sub!CloseChannel, Sub!CloseWaits
  <2> QED BY <2>1, <2>2 DEF CallUnderWay
<1>2. CASE /\ worker = "forwarding" /\ UNCHANGED subVars
           /\ \/ Out!Load(Sub!Current) /\ isOpen
              \/ Out!PublishBegin(Sub!Current) \/ Out!PublishEnd(Sub!Current)
  <2>1. UNCHANGED <<call, worker, held>> /\ Sub!Current' = Sub!Current
    BY <1>2 DEF subVars, Sub!Current
  <2>2. /\ outCall'[Sub!Current] \in {"entered", "publishing", "published"}
        /\ \A e \in Events : e # Sub!Current => outCall'[e] = outCall[e]
    BY <1>2, <1>c DEF TypeOK, OutType, Out!Load, Out!PublishBegin, Out!PublishEnd
  <2>3. outCall'[Sub!Current'] \notin {"true", "false"}
    BY <2>1, <2>2
  <2>4. \A e \in Events : call'[e] \in {"none", "entered"} => outCall'[e] = "none"
    BY <1>2, <1>d, <2>1, <2>2 DEF CallUnderWay
  <2>5. call'[Sub!Current'] # "none"
    BY <1>2, <2>1 DEF CallUnderWay
  <2> QED BY <2>3, <2>4, <2>5 DEF CallUnderWay
<1>3. ASSUME NEW e \in Events, Sub!Enter(e), UNCHANGED outVars PROVE CallUnderWay'
  <2>1. /\ call[e] = "none" /\ call'[e] # "none" /\ \A f \in Events : f # e => call'[f] = call[f]
        /\ UNCHANGED <<worker, outCall>> /\ Sub!Current' = Sub!Current
    BY <1>3 DEF TypeOK, SubType, Sub!Enter, Sub!Current, outVars
  <2> QED BY <1>c, <2>1 DEF CallUnderWay
<1>4. ASSUME NEW e \in Events, Sub!Give(e), UNCHANGED outVars PROVE CallUnderWay'
  <2>1. /\ call[e] = "entered" /\ call' = [call EXCEPT ![e] = "handed"]
        /\ UNCHANGED outCall /\ Sub!Current' = e
    BY <1>4, AppendLast DEF TypeOK, SubType, Sub!Give, Sub!Current, outVars
  <2>2. outCall'[Sub!Current'] = "none"
    BY <2>1 DEF CallUnderWay
  <2>3. \A f \in Events : call'[f] \in {"none", "entered"} => call[f] = call'[f]
    BY <2>1 DEF TypeOK, SubType
  <2> QED BY <2>1, <2>2, <2>3 DEF CallUnderWay
<1>5. ASSUME NEW e \in Events, UNCHANGED outVars,
             Sub!GiveUp(e) \/ Sub!LeaveEarly(e) \/ Sub!TakeAnswer(e)
      PROVE  CallUnderWay'
  <2>1. /\ call'[e] \in {"true", "false"} /\ \A f \in Events : f # e => call'[f] = call[f]
        /\ UNCHANGED <<worker, outCall>> /\ Sub!Current' = Sub!Current
    BY <1>5 DEF TypeOK, SubType, Sub!GiveUp, Sub!LeaveEarly, Sub!TakeAnswer, Sub!Current, outVars
  <2> QED BY <1>c, <2>1 DEF CallUnderWay
<1>6. CASE (Sub!PutAnswer \/ Sub!WorkerEnd) /\ UNCHANGED outVars
  <2>1. UNCHANGED <<call, outCall>> /\ worker' # "forwarding"
    BY <1>6 DEF Sub!PutAnswer, Sub!WorkerEnd, outVars
  <2> QED BY <2>1 DEF CallUnderWay
<1>7. CASE UNCHANGED <<call, outCall, worker, held>>
  BY <1>7 DEF CallUnderWay, Sub!Current
<1>8. ASSUME \/ \E c \in Out!ClosingParties :
                  (Out!Swap(c) \/ Out!CloseDone(c) \/ Out!CloseClient(c)) /\ UNCHANGED subVars
             \/ (Out!Signal \/ Out!SignalNotNeeded) /\ UNCHANGED subVars
             \/ \E c \in Closers :
                  (Sub!CloseBegin(c) \/ Sub!CloseChannel(c) \/ Sub!CloseWaits(c)) /\ UNCHANGED outVars
             \/ UNCHANGED vars
      PROVE  UNCHANGED <<call, outCall, worker, held>>
  BY <1>8 DEF Out!Swap, Out!CloseDone, Out!CloseClient, Out!Signal, Out!SignalNotNeeded,
    Sub!CloseBegin, Sub!CloseChannel, Sub!CloseWaits, vars, outVars, subVars
<1> QED BY <1>1, <1>2, <1>3, <1>4, <1>5, <1>6, <1>7, <1>8, Actions

\* Whoever began to close goes on until the channel or the client is closed.
LEMMA CloserAtWorkKept ==
  ASSUME TypeOK, OneSwap, CloserAtWork, [Next]_vars
  PROVE  CloserAtWork'
<1> DEFINE AtSub == done /\ chClosed = 0 => \E c \in Closers : closer[c] = "locking"
           AtOut == ~isOpen /\ outClient = "open" =>
                      \E c \in Out!ClosingParties : outCloser[c] \in {"swapped", "signalled"}
<1>1. ASSUME NEW c \in Closers, Sub!CloseBegin(c) PROVE AtSub'
  <2>1. CASE done
    <3>1. /\ UNCHANGED <<done, chClosed>>
          /\ \A d \in Closers : closer[d] = "locking" => closer'[d] = "locking"
      BY <1>1, <2>1 DEF TypeOK, SubType, Sub!CloseBegin
    <3> QED BY <2>1, <3>1 DEF CloserAtWork
  <2>2. CASE ~done
    BY <1>1, <2>2 DEF TypeOK, SubType, Sub!CloseBegin
  <2> QED BY <2>1, <2>2
<1>2. ASSUME NEW c \in Closers, Sub!CloseChannel(c) PROVE AtSub'
  <2>1. chClosed' # 0
    BY <1>2 DEF TypeOK, SubType, Sub!CloseChannel
  <2> QED BY <2>1
<1>3. ASSUME NEW c \in Closers, Sub!CloseWaits(c) PROVE AtSub'
  <2>1. /\ UNCHANGED <<done, chClosed>>
        /\ \A d \in Closers : closer[d] = "locking" => closer'[d] = "locking"
    BY <1>3 DEF TypeOK, SubType, Sub!CloseWaits
  <2> QED BY <2>1 DEF CloserAtWork
<1>4. ASSUME UNCHANGED <<done, chClosed, closer>> PROVE AtSub'
  BY <1>4 DEF CloserAtWork
<1>5. AtSub'
  BY <1>1, <1>2, <1>3, <1>4, Actions DEF vars, subVars, Sub!Forward, Sub!Enter, Sub!Give,
    Sub!GiveUp, Sub!LeaveEarly, Sub!TakeAnswer, Sub!PutAnswer, Sub!WorkerEnd
<1>6. ASSUME NEW c \in Out!ClosingParties, Out!Swap(c) PROVE AtOut'
  <2>1. CASE isOpen
    <3>1. outCloser' = [outCloser EXCEPT ![c] = "swapped"]
      BY <1>6, <2>1 DEF Out!Swap
    <3> QED BY <3>1 DEF TypeOK, OutType
  <2>2. CASE ~isOpen
    <3>1. /\ outClient' = outClient
          /\ \A d \in Out!ClosingParties :
               outCloser[d] \in {"swapped", "signalled"} => outCloser'[d] = outCloser[d]
      BY <1>6, <2>2 DEF TypeOK, OutType, Out!Swap
    <3> QED BY <2>2, <3>1 DEF CloserAtWork
  <2> QED BY <2>1, <2>2
<1>7. ASSUME NEW c \in Out!ClosingParties, Out!CloseDone(c) PROVE AtOut'
  <2>1. /\ UNCHANGED <<isOpen, outClient>> /\ outCloser'[c] = "signalled"
        /\ outCloser[c] = "swapped"
    BY <1>7 DEF TypeOK, OutType, Out!CloseDone
  <2> QED BY <2>1
<1>8. ASSUME NEW c \in Out!ClosingParties, Out!CloseClient(c) PROVE AtOut'
  BY <1>8 DEF Out!CloseClient
<1>9. ASSUME Out!SignalNotNeeded PROVE AtOut'
  <2>1. /\ UNCHANGED <<isOpen, outClient>>
        /\ \A d \in Out!ClosingParties :
             outCloser[d] \in {"swapped", "signalled"} => outCloser'[d] = outCloser[d]
    BY <1>9 DEF TypeOK, OutType, Out!SignalNotNeeded
  <2> QED BY <2>1 DEF CloserAtWork
<1>10. ASSUME UNCHANGED <<isOpen, outClient, outCloser>> PROVE AtOut'
  BY <1>10 DEF CloserAtWork
<1>11. AtOut'
  BY <1>6, <1>7, <1>8, <1>9, <1>10, Actions DEF vars, outVars, Out!Load, Out!PublishBegin,
    Out!PublishEnd, Out!Answer, Out!Signal
<1> QED BY <1>5, <1>11 DEF CloserAtWork

\* What progress needs, in every state.
LEMMA SpecAtWork == Spec => [](IInv /\ CallUnderWay /\ CloserAtWork)
<1>1. Init => CallUnderWay /\ CloserAtWork
  BY DEF Init, Out!Init, Sub!Init, CallUnderWay, CloserAtWork
<1>2. IInv /\ CallUnderWay /\ CloserAtWork /\ [Next]_vars => CallUnderWay' /\ CloserAtWork'
  BY CallUnderWayKept, CloserAtWorkKept DEF IInv
<1> QED BY <1>1, <1>2, SpecIInv, PTL DEF Spec

\* A closed sub-outlet always has somebody who can bring its worker further.
\* In particular the answer of a call that left early never fills the slot
\* the worker needs, and the mutex is never held by a call that cannot leave.
THEOREM WorkerNeverStuck == Spec => []WorkerGoesOn
<1>1. IInv /\ CallUnderWay /\ CloserAtWork => WorkerGoesOn
  <2> SUFFICES ASSUME IInv, CallUnderWay, CloserAtWork, done, worker # "ended"
               PROVE  WorkerGoesOn
    BY DEF WorkerGoesOn
  <2>1. CASE worker = "forwarding"
    <3>1. Sub!Current \in Events
      BY <2>1 DEF IInv, Handover
    <3>2. outCall[Sub!Current] \in {"none", "entered", "publishing", "published"}
      BY <2>1, <3>1 DEF IInv, TypeOK, OutType, CallUnderWay
    <3> QED BY <2>1, <3>2 DEF WorkerGoesOn
  <2>2. CASE worker = "answering"
    BY <2>2 DEF IInv, Handover, WorkerGoesOn
  <2>3. CASE worker = "receiving"
    <3>1. chClosed = 0 \/ chClosed > 0
      BY DEF IInv, TypeOK, SubType
    <3>2. Sub!MutexFree \/ \E e \in Events : Inside(e)
      BY DEF Sub!MutexFree, Inside
    <3> QED BY <2>3, <3>1, <3>2 DEF CloserAtWork, WorkerGoesOn
  <2> QED BY <2>1, <2>2, <2>3 DEF IInv, TypeOK, SubType
<1> QED BY <1>1, SpecAtWork, PTL

\* After the factory's signal the client is closed, or a party that can close
\* it is on its way: the one that lost the race for the flag relies on the
\* winner, and the winner is always there.
THEOREM SignalNotForgotten == Spec => []SignalGoesOn
<1>1. IInv /\ CloserAtWork => SignalGoesOn
  <2> SUFFICES ASSUME IInv, CloserAtWork, outClient = "open" PROVE SignalGoesOn
    BY DEF SignalGoesOn
  <2>1. isOpen => outCloser["onSignal"] = "idle"
    BY DEF IInv, OneSwap, Out!ClosingParties
  <2> QED BY <2>1 DEF SignalGoesOn, CloserAtWork
<1> QED BY <1>1, SpecAtWork, PTL

-----------------------------------------------------------------------------

\* The three parts of what is left, by what they depend on.
LEMMA LeftParts ==
  /\ CallLeft \in {0, 1, 8} /\ CloserLeft \in {0, 1} /\ WorkerLeft \in 0..6
  /\ (\E e \in Events : call[e] = "entered") => CallLeft = 8
  /\ (\A e \in Events : ~Inside(e)) => CallLeft = 0
  /\ (\A e \in Events : call[e] # "entered") => CallLeft <= 1
  /\ (\E e \in Events : call[e] = "handed") => CallLeft >= 1
<1> QED BY DEF CallLeft, CloserLeft, WorkerLeft, Stage, Inside

\* A step that makes the worker's part shorter and leaves the others.
LEMMA ShorterWay ==
  ASSUME CallLeft' = CallLeft, CloserLeft' = CloserLeft, WorkerLeft' < WorkerLeft
  PROVE  Left' < Left
<1>1. WorkerLeft \in Int /\ WorkerLeft' \in Int /\ CallLeft \in Int /\ CloserLeft \in Int
  BY DEF WorkerLeft, CallLeft, CloserLeft, Stage
<1>2. \A i, j, m, n \in Int : j < i => j + m + n < i + m + n
  OBVIOUS
<1>3. WorkerLeft' + CallLeft + CloserLeft < WorkerLeft + CallLeft + CloserLeft
  BY <1>1, <1>2
<1>4. Left' = WorkerLeft' + CallLeft + CloserLeft
  BY DEF Left
<1> QED BY <1>3, <1>4 DEF Left

\* A step of the worker's call of the outlet.
LEMMA CallNears ==
  ASSUME TypeOK, Handover, done, worker = "forwarding",
         \/ Out!Load(Sub!Current) /\ isOpen /\ UNCHANGED subVars
         \/ Out!Load(Sub!Current) /\ ~isOpen /\ Sub!Forward
         \/ Out!PublishBegin(Sub!Current) /\ UNCHANGED subVars
         \/ Out!PublishEnd(Sub!Current) /\ UNCHANGED subVars
         \/ Out!Answer(Sub!Current) /\ Sub!Forward
  PROVE  Left' < Left
<1>c. Sub!Current \in Events
  BY DEF Handover
<1>1. UNCHANGED <<call, chClosed, held>> /\ Sub!Current' = Sub!Current
  BY DEF subVars, Sub!Forward, Sub!Current
<1>2. CallLeft' = CallLeft /\ CloserLeft' = CloserLeft
  BY <1>1 DEF CallLeft, CloserLeft
<1>3. CASE Sub!Forward
  <2>1. WorkerLeft' = 2
    BY <1>3 DEF Sub!Forward, WorkerLeft
  <2>2. WorkerLeft >= 3
    BY DEF WorkerLeft, Stage
  <2> QED BY <1>2, <2>1, <2>2, LeftParts DEF Left
<1>4. CASE UNCHANGED subVars /\ (\/ Out!Load(Sub!Current) /\ isOpen
                                 \/ Out!PublishBegin(Sub!Current) \/ Out!PublishEnd(Sub!Current))
  <2>1. \/ outCall[Sub!Current] = "none" /\ outCall'[Sub!Current] = "entered"
        \/ outCall[Sub!Current] = "entered" /\ outCall'[Sub!Current] \in {"publishing", "published"}
        \/ outCall[Sub!Current] = "publishing" /\ outCall'[Sub!Current] = "published"
    BY <1>4, <1>c DEF TypeOK, OutType, Out!Load, Out!PublishBegin, Out!PublishEnd
  <2>2. Stage(outCall'[Sub!Current]) < Stage(outCall[Sub!Current])
    BY <2>1 DEF Stage
  <2>3. worker' = "forwarding"
    BY <1>4 DEF subVars
  <2>4. WorkerLeft' = 3 + Stage(outCall'[Sub!Current]) /\ WorkerLeft = 3 + Stage(outCall[Sub!Current])
    BY <1>1, <2>3 DEF WorkerLeft
  <2>5. Stage(outCall'[Sub!Current]) \in 0..3 /\ Stage(outCall[Sub!Current]) \in 0..3
    BY DEF Stage
  <2> QED BY <1>2, <2>2, <2>4, <2>5, LeftParts DEF Left
<1> QED BY <1>3, <1>4

\* A step of a call of the sub-outlet: the handover makes the worker's way
\* longer by less than it makes the call's shorter.
LEMMA SubCallNears ==
  ASSUME TypeOK, Handover, done, NEW e \in Events, Sub!InCall(e), UNCHANGED outVars
  PROVE  Left' < Left
<1>p. /\ CallLeft' \in {0, 1, 8} /\ WorkerLeft' \in 0..6
      /\ (\A f \in Events : ~Inside(f)') => CallLeft' = 0
      /\ (\A f \in Events : call'[f] # "entered") => CallLeft' <= 1
  BY DEF CallLeft, WorkerLeft, Stage, Inside
<1>0. UNCHANGED <<chClosed, outCall>> /\ CloserLeft' = CloserLeft
  BY DEF Sub!InCall, Sub!Give, Sub!GiveUp, Sub!LeaveEarly, Sub!TakeAnswer, outVars, CloserLeft
<1>1. CASE Sub!Give(e)
  <2>1. call[e] = "entered" /\ worker = "receiving" /\ \A f \in Events : call'[f] # "entered"
    BY <1>1 DEF Sub!Give, TypeOK, SubType, Handover, Inside
  <2>2. CallLeft = 8 /\ CallLeft' <= 1 /\ WorkerLeft = 1
    BY <1>p, <2>1, LeftParts DEF WorkerLeft
  <2> QED BY <1>0, <1>p, <2>2, LeftParts DEF Left
<1>2. CASE Sub!GiveUp(e) \/ Sub!LeaveEarly(e) \/ Sub!TakeAnswer(e)
  <2>1. Inside(e) /\ (\A f \in Events : ~Inside(f)') /\ UNCHANGED <<worker, held>>
    BY <1>2 DEF Sub!GiveUp, Sub!LeaveEarly, Sub!TakeAnswer, TypeOK, SubType, Handover, Inside
  <2>2. CallLeft >= 1 /\ CallLeft' = 0
    BY <1>p, <2>1, LeftParts DEF Inside
  <2>3. WorkerLeft' = WorkerLeft
    BY <1>0, <2>1 DEF WorkerLeft, Sub!Current
  <2> QED BY <1>0, <2>2, <2>3, LeftParts DEF Left
<1> QED BY <1>1, <1>2 DEF Sub!InCall

\* A step of the worker itself.
LEMMA WorkerStepNears ==
  ASSUME Sub!PutAnswer \/ Sub!WorkerEnd
  PROVE  Left' < Left
<1>1. CallLeft' = CallLeft /\ CloserLeft' = CloserLeft
  BY DEF Sub!PutAnswer, Sub!WorkerEnd, CallLeft, CloserLeft
<1>2. WorkerLeft' < WorkerLeft
  BY DEF Sub!PutAnswer, Sub!WorkerEnd, WorkerLeft
<1> QED BY <1>1, <1>2, ShorterWay

\* The closing of the channel, for which there is one closer.
LEMMA CloseNears ==
  ASSUME TypeOK, OneClose, NEW c \in Closers, Sub!CloseChannel(c), UNCHANGED outVars
  PROVE  Left' < Left
<1>1. chClosed = 0 /\ chClosed' = 1
  BY DEF Sub!CloseChannel, OneClose
<1>2. CallLeft' = CallLeft /\ WorkerLeft' = WorkerLeft
  BY DEF Sub!CloseChannel, outVars, CallLeft, WorkerLeft, Sub!Current
<1>3. CloserLeft = 1 /\ CloserLeft' = 0
  BY <1>1 DEF CloserLeft
<1> QED BY <1>2, <1>3, LeftParts DEF Left

\* The steps of everybody else leave what is left as it is.
LEMMA OthersLeave ==
  ASSUME TypeOK, OneClose, done,
         \/ \E e \in Events : Sub!Enter(e) /\ UNCHANGED outVars
         \/ \E c \in Out!ClosingParties :
              (Out!Swap(c) \/ Out!CloseDone(c) \/ Out!CloseClient(c)) /\ UNCHANGED subVars
         \/ (Out!Signal \/ Out!SignalNotNeeded) /\ UNCHANGED subVars
         \/ \E c \in Closers : (Sub!CloseBegin(c) \/ Sub!CloseWaits(c)) /\ UNCHANGED outVars
         \/ UNCHANGED vars
  PROVE  Left' = Left
<1>1. UNCHANGED <<outCall, worker, held, chClosed>>
  BY DEF Sub!Enter, Out!Swap, Out!CloseDone, Out!CloseClient, Out!Signal, Out!SignalNotNeeded,
    Sub!CloseBegin, Sub!CloseWaits, vars, outVars, subVars
<1>2. \A e \in Events : /\ call'[e] = "entered" <=> call[e] = "entered"
                        /\ call'[e] = "handed" <=> call[e] = "handed"
  <2>1. CASE \E e \in Events : Sub!Enter(e)
    BY <2>1 DEF TypeOK, SubType, Sub!Enter
  <2>2. CASE call' = call
    BY <2>2
  <2> QED BY <2>1, <2>2 DEF Sub!CloseBegin, Sub!CloseWaits, vars, subVars
<1>3. CallLeft' = CallLeft
  BY <1>2 DEF CallLeft
<1>4. WorkerLeft' = WorkerLeft /\ CloserLeft' = CloserLeft
  BY <1>1 DEF WorkerLeft, CloserLeft, Sub!Current
<1> QED BY <1>3, <1>4 DEF Left

\* The worker of a closed sub-outlet only gets nearer to its end, whatever the
\* callers, the closers and the outlet do; so WorkerEnds takes no more than
\* that each of them goes on, which its fairness says.
THEOREM WorkerOnlyNears == Spec => [][WorkerNears]_vars
<1>1. ASSUME IInv, [Next]_vars, done PROVE Left' <= Left /\ (GoOn => Left' < Left)
  <2> USE <1>1 DEF IInv
  <2>0. Left \in Int /\ Left' \in Int
    BY DEF Left, CallLeft, CloserLeft, WorkerLeft, Stage
  <2>1. ASSUME WorkerCall PROVE Left' < Left
    <3>1. worker = "forwarding"
      BY <2>1 DEF WorkerCall
    <3> QED BY <2>1, <3>1, CallNears DEF WorkerCall
  <2>2. ASSUME SubWorker PROVE Left' < Left
    BY <2>2, WorkerStepNears DEF SubWorker
  <2>3. ASSUME NEW e \in Events, SubCall(e) PROVE Left' < Left
    BY <2>3, SubCallNears DEF SubCall
  <2>4. ASSUME NEW c \in Closers, Sub!CloseChannel(c) /\ UNCHANGED outVars PROVE Left' < Left
    BY <2>4, CloseNears
  <2>5. GoOn => Left' < Left
    BY <2>1, <2>2, <2>3, <2>4 DEF GoOn
  <2>6. ASSUME ~GoOn PROVE Left' = Left
    <3>1. \/ \E e \in Events : Sub!Enter(e) /\ UNCHANGED outVars
          \/ \E c \in Out!ClosingParties :
               (Out!Swap(c) \/ Out!CloseDone(c) \/ Out!CloseClient(c)) /\ UNCHANGED subVars
          \/ (Out!Signal \/ Out!SignalNotNeeded) /\ UNCHANGED subVars
          \/ \E c \in Closers : (Sub!CloseBegin(c) \/ Sub!CloseWaits(c)) /\ UNCHANGED outVars
          \/ UNCHANGED vars
      BY <2>6 DEF Next, GoOn, SubEnter, CloseOutlet, Signal, CloseSub, EndCloseSub
    <3> QED BY <3>1, OthersLeave
  <2> QED BY <2>0, <2>5, <2>6
<1>2. IInv /\ [Next]_vars => [WorkerNears]_vars
  BY <1>1 DEF WorkerNears
<1> QED BY <1>2, SpecIInv, PTL DEF Spec

=============================================================================
