---------------------------- MODULE MovesProofs ----------------------------
(***************************************************************************)
(* Proofs about Moves, for any configurations and previous states.         *)
(***************************************************************************)
EXTENDS Moves, SequenceTheorems, TLAPS

\* An endpoint of a module has a step, one of a resource a name.
EndpointOK(e) ==
    /\ e.kind \in {"call", "minst", "res", "inst"}
    /\ e.decl \in Seq(STRING) /\ e.path \in Path
    /\ e.kind \in {"call", "minst"} => e.path # <<>>
    /\ e.kind \in {"res", "inst"} => e.res # NoName

\* A statement has endpoints of one kind, relative to one module.
StatementOK(s) ==
    /\ EndpointOK(s.from) /\ EndpointOK(s.to)
    /\ s.from.kind = s.to.kind /\ s.from.decl = s.to.decl
    /\ s.from.kind = "inst" => s.to.key # AnyKey

IsAddress(a) == a = [mod |-> a.mod, res |-> a.res, key |-> a.key]

\* The statement that is being executed is one that was found, and the state has addresses.
MovesInv ==
    /\ config \in Configs /\ prior \in Priors
    /\ \A s \in todo : StatementOK(s)
    /\ visit # {} => StatementOK(stmt)
    /\ \A a \in DOMAIN at : IsAddress(a)
    /\ OldAddrIsTrue

-----------------------------------------------------------------------------
(***************************************************************************)
(* The operators.                                                          *)
(***************************************************************************)

\* What is carried keeps its value at the new address, the rest stays.
LEMMA CarryIs ==
  ASSUME NEW f, NEW x, NEW g, g = Carry(f, x), x.insts \subseteq DOMAIN f,
         \A a, b \in x.insts : NewAddress(x, a) = NewAddress(x, b) => a = b,
         \A a \in x.insts : NewAddress(x, a) \notin DOMAIN f
  PROVE  /\ \A n : n \in DOMAIN g <=>
                  n \in DOMAIN f \ x.insts \/ \E a \in x.insts : n = NewAddress(x, a)
         /\ \A a \in x.insts : g[NewAddress(x, a)] = f[a]
         /\ \A n \in DOMAIN f \ x.insts : g[n] = f[n]
<1> DEFINE New(a) == NewAddress(x, a)
           D == (DOMAIN f \ x.insts) \union {New(a) : a \in x.insts}
           At(n) == IF \E a \in x.insts : New(a) = n THEN f[CHOOSE a \in x.insts : New(a) = n] ELSE f[n]
<1>1. g = [n \in D |-> At(n)]
  BY DEF Carry
<1>2. \A a \in x.insts : At(New(a)) = f[a]
  <2> SUFFICES ASSUME NEW a \in x.insts PROVE At(New(a)) = f[a]
    OBVIOUS
  <2>1. (CHOOSE b \in x.insts : New(b) = New(a)) = a
    OBVIOUS
  <2> QED
    BY <2>1
<1>3. \A n \in DOMAIN f \ x.insts : At(n) = f[n]
  OBVIOUS
<1> HIDE DEF At
<1> QED
  BY <1>1, <1>2, <1>3

\* The first steps of a sequence.
LEMMA PrefixIs ==
  ASSUME NEW S, NEW s \in Seq(S), NEW j \in 0..Len(s)
  PROVE  /\ SubSeq(s, 1, j) \in Seq(S) /\ Len(SubSeq(s, 1, j)) = j
         /\ \A k \in 1..j : SubSeq(s, 1, j)[k] = s[k]
<1>1. \A i \in 1..j : s[i] \in S
  BY ElementOfSeq
<1>2. /\ SubSeq(s, 1, j) \in Seq(S) /\ Len(SubSeq(s, 1, j)) = IF 1 <= j THEN j - 1 + 1 ELSE 0
      /\ \A k \in 1..(j - 1 + 1) : SubSeq(s, 1, j)[k] = s[1 + k - 1]
  BY <1>1, SubSeqProperties
<1>3. \A k \in 1..j : s[1 + k - 1] = s[k]
  OBVIOUS
<1> QED
  BY <1>2, <1>3, LenProperties

\* The steps after the first i of a sequence.
LEMMA SliceIs ==
  ASSUME NEW S, NEW s \in Seq(S), NEW i \in 0..Len(s), NEW j \in i..Len(s)
  PROVE  /\ SubSeq(s, i + 1, j) \in Seq(S) /\ Len(SubSeq(s, i + 1, j)) = j - i
         /\ \A k \in 1..(j - i) : SubSeq(s, i + 1, j)[k] = s[i + k]
<1>1. i + 1 \in Int /\ j \in Int /\ \A k \in (i + 1)..j : s[k] \in S
  BY ElementOfSeq, LenProperties
<1>2. /\ SubSeq(s, i + 1, j) \in Seq(S)
      /\ Len(SubSeq(s, i + 1, j)) = IF i + 1 <= j THEN j - (i + 1) + 1 ELSE 0
      /\ \A k \in 1..(j - (i + 1) + 1) : SubSeq(s, i + 1, j)[k] = s[(i + 1) + k - 1]
  BY <1>1, SubSeqProperties
<1>3. \A k \in 1..(j - i) : s[(i + 1) + k - 1] = s[i + k]
  OBVIOUS
<1> QED
  BY <1>2, <1>3, LenProperties

\* The steps of two sequences, one after the other.
LEMMA ConcatIs ==
  ASSUME NEW S, NEW s \in Seq(S), NEW t \in Seq(S)
  PROVE  /\ s \o t \in Seq(S) /\ Len(s \o t) = Len(s) + Len(t)
         /\ \A i \in 1..Len(s) : (s \o t)[i] = s[i]
         /\ \A i \in 1..Len(t) : (s \o t)[Len(s) + i] = t[i]
<1>1. PICK d \in Nat, n \in Nat : d = Len(s) /\ n = Len(t)
  BY LenProperties
<1>2. /\ s \o t \in Seq(S) /\ Len(s \o t) = Len(s) + Len(t)
      /\ \A i \in 1..(d + n) : (s \o t)[i] = IF i <= d THEN s[i] ELSE t[i - d]
  BY <1>1, ConcatProperties
<1>3. \A i \in 1..d : i \in 1..(d + n) /\ i <= d
  OBVIOUS
<1>4. \A i \in 1..n : d + i \in 1..(d + n) /\ ~(d + i <= d) /\ (d + i) - d = i
  OBVIOUS
<1>5. (\A i \in 1..d : (s \o t)[i] = s[i]) /\ (\A i \in 1..n : (s \o t)[d + i] = t[i])
  BY <1>2, <1>3, <1>4
<1> QED
  BY <1>1, <1>2, <1>5

\* The steps of module instances, and those of synthModuleInstance.
InstanceStep == [name : STRING, key : Key]
PatternStep  == [name : STRING, key : Key \union {AnyKey}]

\* A pattern may have wildcards.
LEMMA StepsAre ==
  /\ InstanceStep \subseteq PatternStep
  /\ \A p \in InstanceStep : p.key # AnyKey /\ p = Step(p.name, p.key)
  /\ \A n \in STRING, k \in Key : Step(n, k) \in InstanceStep
  /\ \A n \in STRING : Step(n, AnyKey) \in PatternStep
<1>1. AnyKey \notin Key
  BY DEF Key, NoKey, Zero, AnyKey
<1> QED
  BY <1>1 DEF InstanceStep, PatternStep, Step

\* The path of a module instance is a sequence of its steps.
LEMMA PathIs ==
  ASSUME NEW m \in Path
  PROVE  /\ m \in Seq(InstanceStep) /\ m \in Seq(PatternStep)
         /\ Len(m) \in Nat /\ (m # <<>> => Len(m) # 0) /\ DOMAIN m = 1..Len(m)
         /\ \A i \in 1..Len(m) : m[i] \in InstanceStep
<1>1. m \in Seq(InstanceStep)
  BY DEF Path, InstanceStep
<1> QED
  BY <1>1, StepsAre, SeqMonotonic, LenProperties, EmptySeq, ElementOfSeq

\* The path of a module instance with another last key, which may be the wildcard.
LEMMA RekeyedIs ==
  ASSUME NEW m \in Path, m # <<>>, NEW k \in Key \union {AnyKey}
  PROVE  /\ Rekeyed(m, k) \in Seq(PatternStep)
         /\ k \in Key => Rekeyed(m, k) \in Path
         /\ Len(Rekeyed(m, k)) = Len(m)
         /\ \A i \in 1..(Len(m) - 1) : Rekeyed(m, k)[i] = m[i]
         /\ Rekeyed(m, k)[Len(m)] = Step(m[Len(m)].name, k)
<1> DEFINE last == Step(m[Len(m)].name, k)
<1>1. /\ Len(m) \in Nat \ {0} /\ \A i \in 1..Len(m) : m[i] \in InstanceStep
      /\ m \in Seq(InstanceStep) /\ m \in Seq(PatternStep)
  BY PathIs
<1>2. Front(m) = SubSeq(m, 1, Len(m) - 1) /\ Len(m) - 1 \in 0..Len(m)
  BY <1>1 DEF Front
<1>3. /\ Front(m) \in Seq(InstanceStep) /\ Len(Front(m)) = Len(m) - 1
      /\ \A i \in 1..(Len(m) - 1) : Front(m)[i] = m[i]
  <2>1. PICK j \in 0..Len(m) : j = Len(m) - 1
    BY <1>2
  <2>2. /\ SubSeq(m, 1, j) \in Seq(InstanceStep) /\ Len(SubSeq(m, 1, j)) = j
        /\ \A i \in 1..j : SubSeq(m, 1, j)[i] = m[i]
    BY <1>1, PrefixIs
  <2> QED
    BY <1>2, <2>1, <2>2
<1>4. Front(m) \in Seq(PatternStep)
  BY <1>1, <1>2, PrefixIs
<1>5. last \in PatternStep /\ (k \in Key => last \in InstanceStep)
  <2>1. m[Len(m)].name \in STRING
    BY <1>1 DEF InstanceStep
  <2> QED
    BY <2>1, StepsAre
<1>6. Rekeyed(m, k) = Append(Front(m), last)
  BY DEF Rekeyed, Last
<1> HIDE DEF last
<1>7. k \in Key => Rekeyed(m, k) \in Seq(InstanceStep)
  BY <1>3, <1>5, <1>6, AppendProperties
<1>8. /\ Rekeyed(m, k) \in Seq(PatternStep) /\ Len(Rekeyed(m, k)) = Len(m)
      /\ \A i \in 1..(Len(m) - 1) : Rekeyed(m, k)[i] = m[i]
      /\ Rekeyed(m, k)[Len(m)] = last
  BY <1>1, <1>3, <1>4, <1>5, <1>6, AppendProperties
<1> QED
  BY <1>7, <1>8 DEF Path, InstanceStep, last

\* UnifyMoveEndpoints and the implied statements give both endpoints the same kind.
LEMMA StatementsAreOK ==
  ASSUME config \in Configs, prior \in Priors
  PROVE  \A s \in Statements : StatementOK(s)
<1>0. <<>> \in Seq(STRING) /\ \A k \in {NoKey, Zero} : k # AnyKey /\ k \in Key
  <2>1. <<>> \in Seq(STRING)
    BY EmptySeq
  <2>2. \A k \in {NoKey, Zero} : k # AnyKey
    BY DEF NoKey, Zero, AnyKey
  <2> QED
    BY <2>1, <2>2 DEF Key
<1>1. ASSUME NEW move \in config.moved PROVE StatementOK(Unify(move))
  <2>1. /\ move.decl \in Seq(STRING) /\ (move.from.res = NoName <=> move.to.res = NoName)
        /\ move.from.mod \in Path /\ (move.from.res = NoName => move.from.mod # <<>>)
        /\ move.to.mod \in Path /\ move.to.key # AnyKey /\ (move.to.res = NoName => move.to.mod # <<>>)
    BY MovesAssumption
  <2> QED
    BY <2>1 DEF StatementOK, EndpointOK, Unify, Endpoint
<1>2. \A s \in Explicit : StatementOK(s)
  BY <1>1 DEF Explicit
<1>3. \A s \in ImpliedForModules(Explicit) : StatementOK(s)
  <2>1. ASSUME NEW m \in Modules(prior) \ {<<>>}, NEW k \in {NoKey, Zero}
        PROVE  StatementOK(ImpliedMove("minst", Address(m, NoName, NoKey), Address(Rekeyed(m, k), NoName, NoKey)))
    <3>1. m \in Path
      BY MovesAssumption DEF Modules
    <3>2. Rekeyed(m, k) \in Path /\ Rekeyed(m, k) # <<>>
      BY <1>0, <3>1, RekeyedIs, PathIs, EmptySeq
    <3> QED
      BY <1>0, <3>1, <3>2 DEF ImpliedMove, Endpoint, StatementOK, EndpointOK, Address
  <2>2. \A s \in ImpliedForModules(Explicit) : \E m \in Modules(prior) \ {<<>>}, k \in {NoKey, Zero} :
          s = ImpliedMove("minst", Address(m, NoName, NoKey), Address(Rekeyed(m, k), NoName, NoKey))
    BY DEF ImpliedForModules, KeptKey
  <2> QED
    BY <2>1, <2>2
<1>4. \A s \in ImpliedForResources(Explicit) : StatementOK(s)
  <2>1. \A a \in prior :
          a = [mod |-> a.mod, res |-> a.res, key |-> a.key] /\ a.mod \in Path /\ a.res # NoName
    BY MovesAssumption
  <2>3. ASSUME NEW a \in prior, NEW k \in {NoKey, Zero}
        PROVE  StatementOK(ImpliedMove("inst", a, [a EXCEPT !.key = k]))
    <3>1. /\ [a EXCEPT !.key = k].mod = a.mod /\ [a EXCEPT !.key = k].res = a.res
          /\ [a EXCEPT !.key = k].key = k
      BY <2>1
    <3> QED
      BY <1>0, <2>1, <3>1 DEF ImpliedMove, Endpoint, StatementOK, EndpointOK
  <2>4. \A s \in ImpliedForResources(Explicit) :
          \E a \in prior, k \in {NoKey, Zero} : s = ImpliedMove("inst", a, [a EXCEPT !.key = k])
    BY DEF ImpliedForResources, KeptKey
  <2> QED
    BY <2>3, <2>4
<1> QED
  BY <1>2, <1>3, <1>4 DEF Statements

\* The instances of a moveable get different addresses, none of which is in use unless the
\* place is taken.
LEMMA MatchIs ==
  ASSUME NEW s, StatementOK(s), NEW m, NEW addresses, \A a \in addresses : IsAddress(a),
         NEW x \in Matches(s, m, addresses)
  PROVE  /\ x.insts \subseteq addresses
         /\ \A a, b \in x.insts : NewAddress(x, a) = NewAddress(x, b) => a = b
         /\ ~x.taken => \A a \in x.insts : NewAddress(x, a) \notin addresses
<1> DEFINE Inside == {a \in addresses : a.mod = m}
           OK(y) == /\ y.insts \subseteq addresses
                    /\ \A a, b \in y.insts : NewAddress(y, a) = NewAddress(y, b) => a = b
                    /\ ~y.taken => \A a \in y.insts : NewAddress(y, a) \notin addresses
<1>1. ASSUME NEW dest,
             x = [obj |-> Address(m, NoName, NoKey), dest |-> Address(dest, NoName, NoKey),
                  insts |-> Inside, taken |-> dest \in Modules(addresses)]
      PROVE  OK(x)
  <2>1. x.insts = Inside /\ x.dest.mod = dest /\ x.dest.res = NoName
        /\ (x.taken <=> dest \in Modules(addresses))
    BY <1>1 DEF Address
  <2>2. \A a \in Inside : NewAddress(x, a) = [mod |-> dest, res |-> a.res, key |-> a.key]
    BY <2>1 DEF NewAddress
  <2>3. \A a, b \in Inside : NewAddress(x, a) = NewAddress(x, b) => a = b
    BY <2>2 DEF IsAddress
  <2>4. ~x.taken => \A a \in Inside : NewAddress(x, a) \notin addresses
    BY <2>1, <2>2 DEF Modules
  <2> QED
    BY <2>1, <2>3, <2>4
<1>2. ASSUME NEW dest, s.from.kind = "res",
             x = [obj |-> Address(m, s.from.res, AnyKey), dest |-> Address(dest, s.to.res, AnyKey),
                  insts |-> {a \in Inside : a.res = s.from.res},
                  taken |-> \E a \in addresses : a.mod = dest /\ a.res = s.to.res]
      PROVE  OK(x)
  <2>1. /\ x.insts = {a \in Inside : a.res = s.from.res}
        /\ x.dest.mod = dest /\ x.dest.res = s.to.res /\ x.dest.key = AnyKey /\ s.to.res # NoName
        /\ (x.taken <=> \E a \in addresses : a.mod = dest /\ a.res = s.to.res)
    BY <1>2 DEF Address, StatementOK, EndpointOK
  <2>2. \A a \in x.insts : NewAddress(x, a) = [mod |-> dest, res |-> s.to.res, key |-> a.key]
    BY <2>1 DEF NewAddress
  <2>3. \A a, b \in x.insts : NewAddress(x, a) = NewAddress(x, b) => a = b
    BY <2>1, <2>2 DEF IsAddress
  <2>4. ~x.taken => \A a \in x.insts : NewAddress(x, a) \notin addresses
    BY <2>1, <2>2
  <2> QED
    BY <2>1, <2>3, <2>4
<1>3. ASSUME NEW dest, s.from.kind = "inst",
             x = [obj |-> Address(m, s.from.res, s.from.key), dest |-> Address(dest, s.to.res, s.to.key),
                  insts |-> {a \in Inside : a.res = s.from.res /\ a.key = s.from.key},
                  taken |-> Address(dest, s.to.res, s.to.key) \in addresses]
      PROVE  OK(x)
  <2>1. /\ x.insts = {a \in Inside : a.res = s.from.res /\ a.key = s.from.key}
        /\ x.dest = Address(dest, s.to.res, s.to.key) /\ s.to.res # NoName /\ s.to.key # AnyKey
        /\ (x.taken <=> Address(dest, s.to.res, s.to.key) \in addresses)
    BY <1>3 DEF StatementOK, EndpointOK
  <2>2. \A a \in x.insts : NewAddress(x, a) = Address(dest, s.to.res, s.to.key)
    BY <2>1 DEF NewAddress, Address
  <2>3. \A a, b \in x.insts : a = b
    BY <2>1 DEF IsAddress
  <2> QED
    BY <2>1, <2>2, <2>3
<1>4. CASE s.from.kind \in {"call", "minst"}
  BY <1>1, <1>4 DEF Matches, IsModuleKind
<1>5. CASE s.from.kind = "res"
  BY <1>2, <1>5 DEF Matches, IsModuleKind
<1>6. CASE s.from.kind = "inst"
  BY <1>3, <1>6 DEF Matches, IsModuleKind
<1> QED
  BY <1>4, <1>5, <1>6 DEF StatementOK, EndpointOK
-----------------------------------------------------------------------------
(***************************************************************************)
(* Where a statement applies.                                              *)
(***************************************************************************)

\* The steps of synthModuleInstance.
LEMMA SynthIs ==
  ASSUME NEW e, EndpointOK(e)
  PROVE  /\ Len(e.decl) \in Nat /\ Len(e.path) \in Nat /\ DOMAIN e.decl = 1..Len(e.decl)
         /\ Synth(e) \in Seq(PatternStep)
         /\ Len(Synth(e)) = Len(e.decl) + Len(e.path) /\ DOMAIN Synth(e) = 1..Len(Synth(e))
         /\ \A i \in 1..Len(e.decl) : Synth(e)[i] = Step(e.decl[i], AnyKey)
         /\ \A i \in 1..Len(e.path) : Synth(e)[Len(e.decl) + i] =
                IF e.kind = "call" /\ i = Len(e.path) THEN Step(e.path[i].name, AnyKey) ELSE e.path[i]
<1> DEFINE outer == [i \in DOMAIN e.decl |-> Step(e.decl[i], AnyKey)]
           inner == IF e.kind = "call" THEN Rekeyed(e.path, AnyKey) ELSE e.path
<1>1. Len(e.decl) \in Nat /\ DOMAIN e.decl = 1..Len(e.decl) /\ \A i \in 1..Len(e.decl) : e.decl[i] \in STRING
  BY LenProperties, ElementOfSeq DEF EndpointOK
<1>2. /\ outer \in Seq(PatternStep) /\ Len(outer) = Len(e.decl)
      /\ \A i \in 1..Len(e.decl) : outer[i] = Step(e.decl[i], AnyKey)
  <2>1. outer \in [1..Len(e.decl) -> PatternStep]
    BY <1>1, StepsAre
  <2>2. outer \in Seq(PatternStep)
    BY <1>1, <2>1, SeqDef
  <2>3. Len(outer) = Len(e.decl)
    BY <1>1, <2>1, <2>2, LenProperties
  <2> QED
    BY <1>1, <2>2, <2>3
<1>3. /\ inner \in Seq(PatternStep) /\ Len(inner) = Len(e.path) /\ Len(e.path) \in Nat
      /\ \A i \in 1..Len(e.path) : inner[i] =
            IF e.kind = "call" /\ i = Len(e.path) THEN Step(e.path[i].name, AnyKey) ELSE e.path[i]
  <2>1. e.path \in Path /\ (e.kind = "call" => e.path # <<>>)
    BY DEF EndpointOK
  <2>2. e.path \in Seq(PatternStep) /\ Len(e.path) \in Nat
    BY <2>1, PathIs
  <2>3. CASE e.kind = "call"
    <3>1. /\ Rekeyed(e.path, AnyKey) \in Seq(PatternStep) /\ Len(Rekeyed(e.path, AnyKey)) = Len(e.path)
          /\ \A i \in 1..(Len(e.path) - 1) : Rekeyed(e.path, AnyKey)[i] = e.path[i]
          /\ Rekeyed(e.path, AnyKey)[Len(e.path)] = Step(e.path[Len(e.path)].name, AnyKey)
      BY <2>1, <2>3, RekeyedIs
    <3>2. inner = Rekeyed(e.path, AnyKey)
      BY <2>3
    <3> HIDE DEF inner
    <3> QED
      BY <2>2, <2>3, <3>1, <3>2
  <2>4. CASE e.kind # "call"
    BY <2>2, <2>4
  <2> QED
    BY <2>3, <2>4
<1>4. Synth(e) = outer \o inner
  BY DEF Synth, Rekeyed
<1> HIDE DEF outer, inner
<1>5. /\ Synth(e) \in Seq(PatternStep) /\ Len(Synth(e)) = Len(e.decl) + Len(e.path)
      /\ \A i \in 1..Len(e.decl) : Synth(e)[i] = outer[i]
      /\ \A i \in 1..Len(e.path) : Synth(e)[Len(e.decl) + i] = inner[i]
  <2>1. PICK p \in Seq(PatternStep), q \in Seq(PatternStep) : p = outer /\ q = inner
    BY <1>2, <1>3
  <2>2. /\ p \o q \in Seq(PatternStep) /\ Len(p \o q) = Len(p) + Len(q)
        /\ \A i \in 1..Len(p) : (p \o q)[i] = p[i]
        /\ \A i \in 1..Len(q) : (p \o q)[Len(p) + i] = q[i]
    BY ConcatIs
  <2>3. Len(p) = Len(e.decl) /\ Len(q) = Len(e.path) /\ Synth(e) = p \o q
    BY <1>2, <1>3, <1>4, <2>1
  <2> QED
    BY <2>1, <2>2, <2>3
<1> QED
  BY <1>1, <1>2, <1>3, <1>5, LenProperties

\* Endpoint e selects module m, or one that m is in.
Covers(e, m) ==
    /\ Len(Synth(e)) <= Len(m)
    /\ \A i \in 1..Len(Synth(e)) :
        Synth(e)[i].name = m[i].name /\ (Synth(e)[i].key = m[i].key \/ Synth(e)[i].key = AnyKey)

\* Two endpoints that select a module around m can match in the steps they both have.
LEMMA CoveredMatch ==
  ASSUME NEW e, NEW o, NEW m \in Path, EndpointOK(e), EndpointOK(o), Covers(e, m), Covers(o, m),
         Len(Synth(e)) <= Len(Synth(o))
  PROVE  CanMatch(Synth(e), Synth(o))
<1>1. Len(Synth(e)) \in Nat /\ DOMAIN Synth(e) = 1..Len(Synth(e)) /\ Len(Synth(o)) \in Nat
  BY SynthIs, LenProperties
<1> QED
  BY <1>1 DEF Covers, CanMatch

\* The steps of a path up to a step and after it.
LEMMA RangeIs ==
  ASSUME NEW d \in Nat, NEW k \in Nat
  PROVE  /\ \A i \in 1..d : i \in 1..(d + k)
         /\ \A i \in 1..k : d + i \in 1..(d + k)
         /\ \A i \in 1..(d + k) : i \in 1..d \/ \E j \in 1..k : i = d + j
<1>1. ASSUME NEW i \in 1..(d + k), ~(i <= d) PROVE \E j \in 1..k : i = d + j
  <2>1. i - d \in 1..k /\ i = d + (i - d)
    BY <1>1
  <2> QED
    BY <2>1
<1> QED
  BY <1>1

\* What that says of the steps of m.
LEMMA CoversIs ==
  ASSUME NEW e, EndpointOK(e), NEW m \in Path
  PROVE  Covers(e, m) <=>
           /\ Len(e.decl) + Len(e.path) <= Len(m)
           /\ \A i \in 1..Len(e.decl) : m[i].name = e.decl[i]
           /\ \A i \in 1..Len(e.path) :
                 /\ m[Len(e.decl) + i].name = e.path[i].name
                 /\ m[Len(e.decl) + i].key = e.path[i].key \/ (e.kind = "call" /\ i = Len(e.path))
<1> DEFINE Agree(i) == /\ Synth(e)[i].name = m[i].name
                       /\ Synth(e)[i].key = m[i].key \/ Synth(e)[i].key = AnyKey
<1>1. PICK d \in Nat : d = Len(e.decl)
  BY SynthIs
<1>2. PICK k \in Nat : k = Len(e.path)
  BY SynthIs
<1>3. /\ Len(Synth(e)) = d + k
      /\ \A i \in 1..d : Synth(e)[i] = Step(e.decl[i], AnyKey)
      /\ \A i \in 1..k : Synth(e)[d + i] =
            IF e.kind = "call" /\ i = k THEN Step(e.path[i].name, AnyKey) ELSE e.path[i]
  BY <1>1, <1>2, SynthIs
<1>4. \A i \in 1..k : e.path[i].key # AnyKey
  <2>1. e.path \in Path
    BY DEF EndpointOK
  <2> QED
    BY <1>2, <2>1, PathIs, StepsAre
<1>5. ASSUME NEW i \in 1..d PROVE Agree(i) <=> m[i].name = e.decl[i]
  <2>1. Synth(e)[i] = Step(e.decl[i], AnyKey)
    BY <1>3
  <2> QED
    BY <2>1 DEF Step
<1>6. ASSUME NEW i \in 1..k
      PROVE  Agree(d + i) <=> /\ m[d + i].name = e.path[i].name
                              /\ m[d + i].key = e.path[i].key \/ (e.kind = "call" /\ i = k)
  <2>1. CASE e.kind = "call" /\ i = k
    <3>1. Synth(e)[d + i] = Step(e.path[i].name, AnyKey)
      BY <1>3, <2>1
    <3> QED
      BY <2>1, <3>1 DEF Step
  <2>2. CASE ~(e.kind = "call" /\ i = k)
    <3>1. Synth(e)[d + i] = e.path[i]
      BY <1>3, <2>2
    <3> QED
      BY <1>4, <2>2, <3>1
  <2> QED
    BY <2>1, <2>2
<1>7. Covers(e, m) <=> d + k <= Len(m) /\ \A i \in 1..(d + k) : Agree(i)
  BY <1>3 DEF Covers
<1> HIDE DEF Agree
<1>8. (\A i \in 1..(d + k) : Agree(i)) <=> (\A i \in 1..d : Agree(i)) /\ (\A i \in 1..k : Agree(d + i))
  BY RangeIs
<1>9. Covers(e, m) <=>
        /\ d + k <= Len(m)
        /\ \A i \in 1..d : m[i].name = e.decl[i]
        /\ \A i \in 1..k : /\ m[d + i].name = e.path[i].name
                           /\ m[d + i].key = e.path[i].key \/ (e.kind = "call" /\ i = k)
  BY <1>5, <1>6, <1>7, <1>8
<1> QED
  BY <1>1, <1>2, <1>9

\* The names of the first steps of a module are those of the declaring module.
LEMMA StaticIs ==
  ASSUME NEW m \in Path, NEW decl \in Seq(STRING), NEW d \in Nat, Len(decl) = d, d <= Len(m)
  PROVE  Static(SubSeq(m, 1, d)) = decl <=> \A i \in 1..d : m[i].name = decl[i]
<1>1. d \in 0..Len(m) /\ m \in Seq(InstanceStep)
  BY PathIs
<1>2. /\ SubSeq(m, 1, d) \in Seq(InstanceStep) /\ Len(SubSeq(m, 1, d)) = d
      /\ \A i \in 1..d : SubSeq(m, 1, d)[i] = m[i]
  BY <1>1, PrefixIs
<1>3. DOMAIN SubSeq(m, 1, d) = 1..d /\ DOMAIN decl = 1..d /\ decl \in [1..d -> STRING]
  BY <1>2, LenProperties
<1>4. Static(SubSeq(m, 1, d)) = [i \in 1..d |-> m[i].name]
  BY <1>2, <1>3 DEF Static
<1>5. decl = [i \in 1..d |-> decl[i]]
  BY <1>3
<1> QED
  BY <1>4, <1>5

\* Equality of paths, and equality but for the last key.
LEMMA SameSteps ==
  ASSUME NEW p \in Path, NEW q \in Path, NEW k \in Nat \ {0}, Len(p) = k, Len(q) = k
  PROVE  /\ p = q <=> \A i \in 1..k : p[i].name = q[i].name /\ p[i].key = q[i].key
         /\ Front(p) = Front(q) /\ Last(p).name = Last(q).name <=>
              \A i \in 1..k : p[i].name = q[i].name /\ (p[i].key = q[i].key \/ i = k)
<1>1. /\ p \in Seq(InstanceStep) /\ q \in Seq(InstanceStep)
      /\ \A i \in 1..k : p[i] \in InstanceStep /\ q[i] \in InstanceStep
  BY PathIs
<1>2. \A i \in 1..k : p[i] = q[i] <=> p[i].name = q[i].name /\ p[i].key = q[i].key
  BY <1>1, StepsAre
<1>3. p = q <=> \A i \in 1..k : p[i] = q[i]
  BY <1>1, SeqEqual
<1>4. PICK j \in 0..k : j = k - 1
  OBVIOUS
<1>5. /\ Front(p) = SubSeq(p, 1, j) /\ Front(q) = SubSeq(q, 1, j)
      /\ Last(p) = p[k] /\ Last(q) = q[k]
  BY <1>4 DEF Front, Last
<1>6. /\ SubSeq(p, 1, j) \in Seq(InstanceStep) /\ Len(SubSeq(p, 1, j)) = j
      /\ SubSeq(q, 1, j) \in Seq(InstanceStep) /\ Len(SubSeq(q, 1, j)) = j
      /\ \A i \in 1..j : SubSeq(p, 1, j)[i] = p[i] /\ SubSeq(q, 1, j)[i] = q[i]
  BY <1>1, PrefixIs
<1>7. SubSeq(p, 1, j) = SubSeq(q, 1, j) <=> \A i \in 1..j : p[i] = q[i]
  <2>1. SubSeq(p, 1, j) = SubSeq(q, 1, j) => \A i \in 1..j : p[i] = q[i]
    BY <1>6
  <2>2. (\A i \in 1..j : p[i] = q[i]) => SubSeq(p, 1, j) = SubSeq(q, 1, j)
    BY <1>6, SeqEqual
  <2> QED
    BY <2>1, <2>2
<1>8. \A i \in 1..k : i \in 1..j <=> i # k
  BY <1>4
<1>9. \A i \in 1..j : i \in 1..k
  OBVIOUS
<1>10. k \in 1..k
  OBVIOUS
<1>11. Front(p) = Front(q) /\ Last(p).name = Last(q).name <=>
         \A i \in 1..k : p[i].name = q[i].name /\ (p[i].key = q[i].key \/ i = k)
  <2>1. ASSUME \A i \in 1..j : p[i] = q[i], p[k].name = q[k].name, NEW i \in 1..k
        PROVE  p[i].name = q[i].name /\ (p[i].key = q[i].key \/ i = k)
    BY <1>8, <2>1
  <2>2. ASSUME \A i \in 1..k : p[i].name = q[i].name /\ (p[i].key = q[i].key \/ i = k)
        PROVE  (\A i \in 1..j : p[i] = q[i]) /\ p[k].name = q[k].name
    BY <1>2, <1>8, <1>9, <1>10, <2>2
  <2> QED
    BY <1>5, <1>7, <2>1, <2>2
<1> QED
  BY <1>2, <1>3, <1>11

\* A path between two others.
LEMMA ThreeParts ==
  ASSUME NEW S, NEW p \in Seq(S), NEW q \in Seq(S), NEW r \in Seq(S)
  PROVE  /\ p \o q \o r \in Seq(S) /\ Len(p \o q \o r) = Len(p) + Len(q) + Len(r)
         /\ \A i \in 1..Len(p) : (p \o q \o r)[i] = p[i]
         /\ \A i \in 1..Len(q) : (p \o q \o r)[Len(p) + i] = q[i]
<1>1. PICK u \in Seq(S) : u = p \o q
  BY ConcatIs
<1>2. /\ Len(u) = Len(p) + Len(q)
      /\ \A i \in 1..Len(p) : u[i] = p[i]
      /\ \A i \in 1..Len(q) : u[Len(p) + i] = q[i]
  BY <1>1, ConcatIs
<1>3. /\ u \o r \in Seq(S) /\ Len(u \o r) = Len(u) + Len(r)
      /\ \A i \in 1..Len(u) : (u \o r)[i] = u[i]
  BY ConcatIs
<1>4. PICK d \in Nat, k \in Nat, h \in Nat : d = Len(p) /\ k = Len(q) /\ h = Len(u)
  BY LenProperties
<1>5. h = d + k
  BY <1>2, <1>4
<1>6. (\A i \in 1..d : i \in 1..h) /\ (\A i \in 1..k : d + i \in 1..h)
  BY <1>5
<1>7. /\ \A i \in 1..d : (u \o r)[i] = p[i]
      /\ \A i \in 1..k : (u \o r)[d + i] = q[i]
  BY <1>2, <1>3, <1>4, <1>6
<1> QED
  BY <1>1, <1>2, <1>3, <1>4, <1>7

\* The parts of a path.
LEMMA PartsAre ==
  ASSUME NEW m \in Path, NEW d \in Nat, NEW k \in Nat, d + k <= Len(m)
  PROVE  /\ SubSeq(m, 1, d) \in Path /\ Len(SubSeq(m, 1, d)) = d
         /\ \A i \in 1..d : SubSeq(m, 1, d)[i] = m[i]
         /\ SubSeq(m, d + 1, d + k) \in Path /\ Len(SubSeq(m, d + 1, d + k)) = k
         /\ \A i \in 1..k : SubSeq(m, d + 1, d + k)[i] = m[d + i]
         /\ SubSeq(m, d + k + 1, Len(m)) \in Path /\ Len(SubSeq(m, d + k + 1, Len(m))) \in Nat
<1>1. m \in Seq(InstanceStep) /\ Len(m) \in Nat
  BY PathIs
<1>2. d \in 0..Len(m)
  BY <1>1
<1>3. PICK n \in d..Len(m) : n = d + k
  BY <1>1
<1>4. n \in 0..Len(m) /\ Len(m) \in n..Len(m) /\ n - d = k
  BY <1>1, <1>3
<1>5. /\ SubSeq(m, 1, d) \in Seq(InstanceStep) /\ Len(SubSeq(m, 1, d)) = d
      /\ \A i \in 1..d : SubSeq(m, 1, d)[i] = m[i]
  BY <1>1, <1>2, PrefixIs
<1>6. /\ SubSeq(m, d + 1, n) \in Seq(InstanceStep) /\ Len(SubSeq(m, d + 1, n)) = n - d
      /\ \A i \in 1..(n - d) : SubSeq(m, d + 1, n)[i] = m[d + i]
  BY <1>1, <1>2, SliceIs
<1>7. SubSeq(m, n + 1, Len(m)) \in Seq(InstanceStep)
  BY <1>1, <1>4, SliceIs
<1>8. Len(SubSeq(m, n + 1, Len(m))) \in Nat
  BY <1>7, LenProperties
<1> QED
  BY <1>3, <1>4, <1>5, <1>6, <1>7, <1>8 DEF Path, InstanceStep

\* A statement about modules applies to the modules that its old endpoint covers, and takes
\* them to where the new one does, in the same instance of the declaring module.
LEMMA ModuleDestinationIs ==
  ASSUME NEW s, StatementOK(s), IsModuleKind(s.from), NEW m \in Path
  PROVE  /\ ModuleDestination(s, m) # {} <=> Covers(s.from, m)
         /\ \A dest \in ModuleDestination(s, m) :
              /\ dest \in Path /\ Covers(s.to, dest)
              /\ \A i \in 1..Len(s.from.decl) : dest[i] = m[i]
<1>1. /\ EndpointOK(s.from) /\ EndpointOK(s.to) /\ s.to.decl = s.from.decl /\ s.to.kind = s.from.kind
      /\ s.from.kind \in {"call", "minst"} /\ s.from.decl \in Seq(STRING)
      /\ s.from.path \in Path /\ s.from.path # <<>> /\ s.to.path \in Path /\ s.to.path # <<>>
  BY DEF StatementOK, EndpointOK, IsModuleKind
<1>2. PICK d \in Nat, k \in Nat \ {0}, h \in Nat \ {0} :
          d = Len(s.from.decl) /\ k = Len(s.from.path) /\ h = Len(s.to.path)
  BY <1>1, PathIs, LenProperties
<1> DEFINE P == SubSeq(m, 1, d)
           M == SubSeq(m, d + 1, d + k)
           F == SubSeq(m, d + k + 1, Len(m))
           Mid == IF s.from.kind = "minst" THEN s.to.path ELSE Rekeyed(s.to.path, Last(M).key)
           Applies == /\ m # <<>> /\ d + k <= Len(m) /\ Static(P) = s.from.decl
                      /\ \/ s.from.kind = "minst" /\ M = s.from.path
                         \/ /\ s.from.kind = "call"
                            /\ Front(M) = Front(s.from.path) /\ Last(M).name = Last(s.from.path).name
<1>3. ModuleDestination(s, m) = IF Applies THEN {P \o Mid \o F} ELSE {}
  BY <1>2 DEF ModuleDestination
<1>4. ASSUME d + k <= Len(m)
      PROVE  /\ P \in Path /\ Len(P) = d /\ \A i \in 1..d : P[i] = m[i]
             /\ M \in Path /\ Len(M) = k /\ \A i \in 1..k : M[i] = m[d + i]
             /\ F \in Path /\ Len(F) \in Nat
  <2>1. PICK n \in Nat : n = k
    OBVIOUS
  <2>2. d + n <= Len(m)
    BY <1>4, <2>1
  <2> HIDE DEF P, M, F
  <2>3. /\ SubSeq(m, 1, d) \in Path /\ Len(SubSeq(m, 1, d)) = d
        /\ \A i \in 1..d : SubSeq(m, 1, d)[i] = m[i]
        /\ SubSeq(m, d + 1, d + n) \in Path /\ Len(SubSeq(m, d + 1, d + n)) = n
        /\ \A i \in 1..n : SubSeq(m, d + 1, d + n)[i] = m[d + i]
        /\ SubSeq(m, d + n + 1, Len(m)) \in Path /\ Len(SubSeq(m, d + n + 1, Len(m))) \in Nat
    BY <2>2, PartsAre
  <2> QED
    BY <2>1, <2>3 DEF P, M, F
<1>5. Covers(s.from, m) <=>
        /\ d + k <= Len(m)
        /\ \A i \in 1..d : m[i].name = s.from.decl[i]
        /\ \A i \in 1..k : /\ m[d + i].name = s.from.path[i].name
                           /\ m[d + i].key = s.from.path[i].key \/ (s.from.kind = "call" /\ i = k)
  <2>1. EndpointOK(s.from)
    BY <1>1
  <2> QED
    BY <1>2, <2>1, CoversIs
<1> HIDE DEF P, M, F, Mid
<1>6. ASSUME d + k <= Len(m) PROVE Applies <=> Covers(s.from, m)
  <2>1. m # <<>>
    <3>1. Len(m) # 0
      BY <1>6, PathIs
    <3> QED
      BY <3>1, EmptySeq
  <2>2. Static(P) = s.from.decl <=> \A i \in 1..d : m[i].name = s.from.decl[i]
    <3>1. d <= Len(m)
      BY <1>6, PathIs
    <3>2. Len(s.from.decl) = d
      BY <1>2
    <3> QED
      BY <1>1, <3>1, <3>2, StaticIs DEF P
  <2>3. /\ M = s.from.path <=> \A i \in 1..k : M[i].name = s.from.path[i].name /\ M[i].key = s.from.path[i].key
        /\ Front(M) = Front(s.from.path) /\ Last(M).name = Last(s.from.path).name <=>
             \A i \in 1..k : M[i].name = s.from.path[i].name /\ (M[i].key = s.from.path[i].key \/ i = k)
    <3>1. PICK q \in Path : q = s.from.path
      BY <1>1
    <3>2. Len(q) = k /\ Len(M) = k /\ M \in Path
      BY <1>2, <1>4, <1>6, <3>1
    <3>3. /\ M = q <=> \A i \in 1..k : M[i].name = q[i].name /\ M[i].key = q[i].key
          /\ Front(M) = Front(q) /\ Last(M).name = Last(q).name <=>
               \A i \in 1..k : M[i].name = q[i].name /\ (M[i].key = q[i].key \/ i = k)
      BY <3>2, SameSteps
    <3> QED
      BY <3>1, <3>3
  <2>4. \A i \in 1..k : M[i] = m[d + i]
    BY <1>4, <1>6
  <2> QED
    BY <1>1, <1>5, <1>6, <2>1, <2>2, <2>3, <2>4
<1>7. Applies <=> Covers(s.from, m)
  BY <1>5, <1>6
<1>8. ASSUME Covers(s.from, m)
      PROVE  /\ P \o Mid \o F \in Path /\ Covers(s.to, P \o Mid \o F)
             /\ \A i \in 1..d : (P \o Mid \o F)[i] = m[i]
  <2>1. d + k <= Len(m) /\ \A i \in 1..d : m[i].name = s.from.decl[i]
    BY <1>5, <1>8
  <2>2. /\ P \in Path /\ Len(P) = d /\ \A i \in 1..d : P[i] = m[i]
        /\ M \in Path /\ Len(M) = k /\ F \in Path /\ Len(F) \in Nat
    BY <1>4, <2>1
  <2>3. /\ Mid \in Path /\ Len(Mid) = h
        /\ \A i \in 1..h : /\ Mid[i].name = s.to.path[i].name
                           /\ Mid[i].key = s.to.path[i].key \/ (s.to.kind = "call" /\ i = h)
    <3>1. CASE s.from.kind = "minst"
      BY <1>1, <1>2, <3>1 DEF Mid
    <3>2. CASE s.from.kind = "call"
      <4>1. Last(M).key \in Key
        <5>1. Last(M) \in InstanceStep
          BY <2>2, PathIs DEF Last
        <5> QED
          BY <5>1 DEF InstanceStep
      <4>2. PICK key \in Key : key = Last(M).key
        BY <4>1
      <4>3. PICK q \in Path : q = s.to.path
        BY <1>1
      <4>4. Mid = Rekeyed(q, key) /\ q # <<>> /\ Len(q) = h
        BY <1>1, <1>2, <3>2, <4>2, <4>3 DEF Mid
      <4>5. /\ Rekeyed(q, key) \in Path /\ Len(Rekeyed(q, key)) = Len(q)
            /\ \A i \in 1..(Len(q) - 1) : Rekeyed(q, key)[i] = q[i]
            /\ Rekeyed(q, key)[Len(q)] = Step(q[Len(q)].name, key)
        BY <4>4, RekeyedIs
      <4>6. \A i \in 1..h : i = h \/ i \in 1..(h - 1)
        OBVIOUS
      <4>7. Step(q[h].name, key).name = q[h].name
        BY DEF Step
      <4> QED
        BY <1>1, <3>2, <4>3, <4>4, <4>5, <4>6, <4>7
    <3> QED
      BY <1>1, <3>1, <3>2
  <2>4. PICK f \in Nat : f = Len(F)
    BY <2>2
  <2>5. PICK dest : dest = P \o Mid \o F
    OBVIOUS
  <2>6. /\ dest \in Path /\ Len(dest) = d + h + f
        /\ \A i \in 1..d : dest[i] = P[i]
        /\ \A i \in 1..h : dest[d + i] = Mid[i]
    <3>1. P \in Seq(InstanceStep) /\ Mid \in Seq(InstanceStep) /\ F \in Seq(InstanceStep)
      BY <2>2, <2>3, PathIs
    <3>2. /\ P \o Mid \o F \in Seq(InstanceStep) /\ Len(P \o Mid \o F) = Len(P) + Len(Mid) + Len(F)
          /\ \A i \in 1..Len(P) : (P \o Mid \o F)[i] = P[i]
          /\ \A i \in 1..Len(Mid) : (P \o Mid \o F)[Len(P) + i] = Mid[i]
      BY <3>1, ThreeParts
    <3> QED
      BY <2>2, <2>3, <2>4, <2>5, <3>2 DEF Path, InstanceStep
  <2>7. Covers(s.to, dest) <=>
          /\ d + h <= Len(dest)
          /\ \A i \in 1..d : dest[i].name = s.from.decl[i]
          /\ \A i \in 1..h : /\ dest[d + i].name = s.to.path[i].name
                             /\ dest[d + i].key = s.to.path[i].key \/ (s.to.kind = "call" /\ i = h)
    <3>1. EndpointOK(s.to) /\ dest \in Path
      BY <1>1, <2>6
    <3>2. d = Len(s.to.decl) /\ s.to.decl = s.from.decl /\ h = Len(s.to.path)
      BY <1>1, <1>2
    <3>3. Covers(s.to, dest) <=>
            /\ Len(s.to.decl) + Len(s.to.path) <= Len(dest)
            /\ \A i \in 1..Len(s.to.decl) : dest[i].name = s.to.decl[i]
            /\ \A i \in 1..Len(s.to.path) :
                  /\ dest[Len(s.to.decl) + i].name = s.to.path[i].name
                  /\ dest[Len(s.to.decl) + i].key = s.to.path[i].key \/ (s.to.kind = "call" /\ i = Len(s.to.path))
      BY <3>1, CoversIs
    <3> QED
      BY <3>2, <3>3
  <2>8. d + h <= Len(dest)
    BY <2>6
  <2>9. \A i \in 1..d : dest[i] = m[i]
    BY <2>2, <2>6
  <2>10. Covers(s.to, dest)
    BY <2>1, <2>3, <2>6, <2>7, <2>8, <2>9
  <2> QED
    BY <2>5, <2>6, <2>9, <2>10
<1> HIDE DEF Applies
<1> QED
  BY <1>2, <1>3, <1>7, <1>8

\* A statement about resources applies in the very module that its old endpoint selects, and
\* goes to the one that the new one does, in the same instance of the declaring module.
LEMMA ContainerDestinationIs ==
  ASSUME NEW s, StatementOK(s), ~IsModuleKind(s.from), NEW m \in Path, NEW dest \in ContainerDestination(s, m)
  PROVE  /\ Covers(s.from, m) /\ Len(m) = Len(Synth(s.from))
         /\ dest \in Path /\ Covers(s.to, dest) /\ Len(dest) = Len(Synth(s.to))
         /\ \A i \in 1..Len(s.from.decl) : dest[i] = m[i]
<1>1. /\ EndpointOK(s.from) /\ EndpointOK(s.to) /\ s.to.decl = s.from.decl
      /\ s.from.decl \in Seq(STRING) /\ s.from.path \in Path /\ s.to.path \in Path
  BY DEF StatementOK, EndpointOK
<1>2. PICK d \in Nat, h \in Nat : d = Len(s.from.decl) /\ h = Len(s.to.path)
  BY <1>1, PathIs, LenProperties
<1>3. /\ d <= Len(m) /\ Static(SubSeq(m, 1, d)) = s.from.decl
      /\ SubSeq(m, d + 1, Len(m)) = s.from.path /\ dest = SubSeq(m, 1, d) \o s.to.path
  BY <1>2 DEF ContainerDestination
<1>4. PICK k \in Nat : d + k = Len(m)
  <2>1. Len(m) \in Nat
    BY PathIs
  <2>2. Len(m) - d \in Nat /\ d + (Len(m) - d) = Len(m)
    BY <1>3, <2>1
  <2> QED
    BY <2>2
<1>5. /\ SubSeq(m, 1, d) \in Path /\ Len(SubSeq(m, 1, d)) = d
      /\ \A i \in 1..d : SubSeq(m, 1, d)[i] = m[i]
      /\ SubSeq(m, d + 1, d + k) \in Path /\ Len(SubSeq(m, d + 1, d + k)) = k
      /\ \A i \in 1..k : SubSeq(m, d + 1, d + k)[i] = m[d + i]
      /\ SubSeq(m, d + k + 1, Len(m)) \in Path /\ Len(SubSeq(m, d + k + 1, Len(m))) \in Nat
  <2>1. d + k <= Len(m)
    BY <1>4
  <2> QED
    BY <2>1, PartsAre
<1>6. k = Len(s.from.path) /\ \A i \in 1..k : s.from.path[i] = m[d + i]
  BY <1>3, <1>4, <1>5
<1>7. \A i \in 1..d : m[i].name = s.from.decl[i]
  <2>1. Len(s.from.decl) = d
    BY <1>2
  <2> QED
    BY <1>1, <1>3, <2>1, StaticIs
<1>8. Covers(s.from, m)
  <2>1. EndpointOK(s.from)
    BY <1>1
  <2>2. Covers(s.from, m) <=>
          /\ Len(s.from.decl) + Len(s.from.path) <= Len(m)
          /\ \A i \in 1..Len(s.from.decl) : m[i].name = s.from.decl[i]
          /\ \A i \in 1..Len(s.from.path) :
                /\ m[Len(s.from.decl) + i].name = s.from.path[i].name
                /\ \/ m[Len(s.from.decl) + i].key = s.from.path[i].key
                   \/ s.from.kind = "call" /\ i = Len(s.from.path)
    BY <2>1, CoversIs
  <2>3. d + k <= Len(m)
    BY <1>4
  <2> QED
    BY <1>2, <1>6, <1>7, <2>2, <2>3
<1>9. PICK p \in Path, q \in Path : p = SubSeq(m, 1, d) /\ q = s.to.path
  BY <1>1, <1>5
<1>10. /\ dest \in Path /\ Len(dest) = d + h
       /\ \A i \in 1..d : dest[i] = m[i]
       /\ \A i \in 1..h : dest[d + i] = q[i]
  <2>1. p \in Seq(InstanceStep) /\ q \in Seq(InstanceStep)
    BY PathIs
  <2>2. /\ p \o q \in Seq(InstanceStep) /\ Len(p \o q) = Len(p) + Len(q)
        /\ \A i \in 1..Len(p) : (p \o q)[i] = p[i]
        /\ \A i \in 1..Len(q) : (p \o q)[Len(p) + i] = q[i]
    BY <2>1, ConcatIs
  <2>3. dest = p \o q /\ Len(p) = d /\ Len(q) = h /\ \A i \in 1..d : p[i] = m[i]
    BY <1>2, <1>3, <1>5, <1>9
  <2> QED
    BY <2>2, <2>3 DEF Path, InstanceStep
<1>11. Covers(s.to, dest)
  <2>1. EndpointOK(s.to) /\ dest \in Path
    BY <1>1, <1>10
  <2>2. Covers(s.to, dest) <=>
          /\ Len(s.to.decl) + Len(s.to.path) <= Len(dest)
          /\ \A i \in 1..Len(s.to.decl) : dest[i].name = s.to.decl[i]
          /\ \A i \in 1..Len(s.to.path) :
                /\ dest[Len(s.to.decl) + i].name = s.to.path[i].name
                /\ \/ dest[Len(s.to.decl) + i].key = s.to.path[i].key
                   \/ s.to.kind = "call" /\ i = Len(s.to.path)
    BY <2>1, CoversIs
  <2>3. d + h <= Len(dest)
    BY <1>10
  <2>4. d = Len(s.to.decl) /\ h = Len(s.to.path) /\ q = s.to.path /\ s.to.decl = s.from.decl
    BY <1>1, <1>2, <1>9
  <2> QED
    BY <1>7, <1>10, <2>2, <2>3, <2>4
<1>12. Len(Synth(s.from)) = d + k /\ Len(Synth(s.to)) = d + h
  BY <1>1, <1>2, <1>6, SynthIs
<1> QED
  BY <1>2, <1>4, <1>8, <1>10, <1>11, <1>12

\* Where statement s takes module m, or what it selects in m.
Destinations(s, m) == IF IsModuleKind(s.from) THEN ModuleDestination(s, m) ELSE ContainerDestination(s, m)

\* The moveable that s selects in module m, and the instances that belong to it.
Moveable(s, m) ==
    CASE IsModuleKind(s.from) -> Address(m, NoName, NoKey)
      [] s.from.kind = "res"  -> Address(m, s.from.res, AnyKey)
      [] s.from.kind = "inst" -> Address(m, s.from.res, s.from.key)

Concerns(s, m, a) ==
    /\ a.mod = m
    /\ s.from.kind \in {"res", "inst"} => a.res = s.from.res
    /\ s.from.kind = "inst" => a.key = s.from.key

\* What a match is, whatever addresses there are.
LEMMA MatchesAre ==
  ASSUME NEW s, StatementOK(s), NEW m, NEW addresses, NEW x \in Matches(s, m, addresses)
  PROVE  /\ x.obj = Moveable(s, m) /\ x.insts # {}
         /\ \A a : a \in x.insts <=> a \in addresses /\ Concerns(s, m, a)
         /\ x.dest.mod \in Destinations(s, m)
         /\ IsModuleKind(s.from) => x.dest.res = NoName
         /\ s.from.kind \in {"res", "inst"} => x.dest.res = s.to.res
         /\ s.from.kind = "inst" => x.dest.key = s.to.key
<1> DEFINE Inside == {a \in addresses : a.mod = m}
<1>1. CASE s.from.kind \in {"call", "minst"}
  <2>1. IsModuleKind(s.from) /\ s.from.kind # "res" /\ s.from.kind # "inst"
    BY <1>1 DEF IsModuleKind
  <2>2. PICK dest \in ModuleDestination(s, m) :
          x = [obj |-> Address(m, NoName, NoKey), dest |-> Address(dest, NoName, NoKey),
               insts |-> Inside, taken |-> dest \in Modules(addresses)]
    BY <2>1 DEF Matches
  <2>3. /\ x.obj = Address(m, NoName, NoKey) /\ x.insts = Inside
        /\ x.dest.mod = dest /\ x.dest.res = NoName
    BY <2>2 DEF Address
  <2>4. x.insts # {}
    BY DEF Matches
  <2> QED
    BY <2>1, <2>2, <2>3, <2>4 DEF Moveable, Concerns, Destinations
<1>2. CASE s.from.kind = "res"
  <2>1. ~IsModuleKind(s.from)
    BY <1>2 DEF IsModuleKind
  <2>2. PICK dest \in ContainerDestination(s, m) :
          x = [obj |-> Address(m, s.from.res, AnyKey), dest |-> Address(dest, s.to.res, AnyKey),
               insts |-> {a \in Inside : a.res = s.from.res},
               taken |-> \E a \in addresses : a.mod = dest /\ a.res = s.to.res]
    BY <1>2, <2>1 DEF Matches
  <2>3. /\ x.obj = Address(m, s.from.res, AnyKey) /\ x.insts = {a \in Inside : a.res = s.from.res}
        /\ x.dest.mod = dest /\ x.dest.res = s.to.res
    BY <2>2 DEF Address
  <2>4. x.insts # {}
    BY DEF Matches
  <2> QED
    BY <1>2, <2>1, <2>2, <2>3, <2>4 DEF Moveable, Concerns, Destinations
<1>3. CASE s.from.kind = "inst"
  <2>1. ~IsModuleKind(s.from)
    BY <1>3 DEF IsModuleKind
  <2>2. PICK dest \in ContainerDestination(s, m) :
          x = [obj |-> Address(m, s.from.res, s.from.key), dest |-> Address(dest, s.to.res, s.to.key),
               insts |-> {a \in Inside : a.res = s.from.res /\ a.key = s.from.key},
               taken |-> Address(dest, s.to.res, s.to.key) \in addresses]
    BY <1>3, <2>1 DEF Matches
  <2>3. /\ x.obj = Address(m, s.from.res, s.from.key)
        /\ x.insts = {a \in Inside : a.res = s.from.res /\ a.key = s.from.key}
        /\ x.dest.mod = dest /\ x.dest.res = s.to.res /\ x.dest.key = s.to.key
    BY <2>2 DEF Address
  <2>4. x.insts # {}
    BY DEF Matches
  <2> QED
    BY <1>3, <2>1, <2>2, <2>3, <2>4 DEF Moveable, Concerns, Destinations
<1> QED
  BY <1>1, <1>2, <1>3 DEF StatementOK, EndpointOK

\* There is a match as soon as there is a destination and an instance to go there.
LEMMA MatchExists ==
  ASSUME NEW s, StatementOK(s), NEW m, Destinations(s, m) # {},
         NEW addresses, NEW a \in addresses, Concerns(s, m, a)
  PROVE  Matches(s, m, addresses) # {}
<1> DEFINE Inside == {b \in addresses : b.mod = m}
<1>1. PICK dest : dest \in Destinations(s, m)
  OBVIOUS
<1>2. CASE s.from.kind \in {"call", "minst"}
  <2>1. IsModuleKind(s.from)
    BY <1>2 DEF IsModuleKind
  <2> DEFINE Whole(d) == [obj |-> Address(m, NoName, NoKey), dest |-> Address(d, NoName, NoKey),
                          insts |-> Inside, taken |-> d \in Modules(addresses)]
  <2>2. Whole(dest).insts # {}
    BY DEF Concerns
  <2>3. dest \in ModuleDestination(s, m)
    BY <1>1, <2>1 DEF Destinations
  <2>4. Matches(s, m, addresses) = {y \in {Whole(d) : d \in ModuleDestination(s, m)} : y.insts # {}}
    BY <1>2, <2>1 DEF Matches
  <2> HIDE DEF Whole
  <2> QED
    BY <2>2, <2>3, <2>4
<1>3. CASE s.from.kind = "res"
  <2>1. ~IsModuleKind(s.from)
    BY <1>3 DEF IsModuleKind
  <2> DEFINE Whole(d) == [obj |-> Address(m, s.from.res, AnyKey), dest |-> Address(d, s.to.res, AnyKey),
                          insts |-> {b \in Inside : b.res = s.from.res},
                          taken |-> \E b \in addresses : b.mod = d /\ b.res = s.to.res]
  <2>2. Whole(dest).insts # {}
    BY <1>3 DEF Concerns
  <2>3. dest \in ContainerDestination(s, m)
    BY <1>1, <2>1 DEF Destinations
  <2>4. Matches(s, m, addresses) = {y \in {Whole(d) : d \in ContainerDestination(s, m)} : y.insts # {}}
    BY <1>3, <2>1 DEF Matches
  <2> HIDE DEF Whole
  <2> QED
    BY <2>2, <2>3, <2>4
<1>4. CASE s.from.kind = "inst"
  <2>1. ~IsModuleKind(s.from)
    BY <1>4 DEF IsModuleKind
  <2> DEFINE One(d) == [obj |-> Address(m, s.from.res, s.from.key), dest |-> Address(d, s.to.res, s.to.key),
                        insts |-> {b \in Inside : b.res = s.from.res /\ b.key = s.from.key},
                        taken |-> Address(d, s.to.res, s.to.key) \in addresses]
  <2>2. One(dest).insts # {}
    BY <1>4 DEF Concerns
  <2>3. dest \in ContainerDestination(s, m)
    BY <1>1, <2>1 DEF Destinations
  <2>4. Matches(s, m, addresses) = {y \in {One(d) : d \in ContainerDestination(s, m)} : y.insts # {}}
    BY <1>4, <2>1 DEF Matches
  <2> HIDE DEF One
  <2> QED
    BY <2>2, <2>3, <2>4
<1> QED
  BY <1>2, <1>3, <1>4 DEF StatementOK, EndpointOK

\* Endpoints that both select an object in module m, or m, meet.
LEMMA MeetIs ==
  ASSUME NEW e, NEW o, EndpointOK(e), EndpointOK(o), NEW m \in Path, Covers(e, m), Covers(o, m),
         ~IsModuleKind(e) => Len(m) = Len(Synth(e)),
         ~IsModuleKind(o) => Len(m) = Len(Synth(o)),
         ~IsModuleKind(e) /\ ~IsModuleKind(o) => e.res = o.res,
         e.kind = "inst" /\ o.kind = "inst" => e.key = o.key
  PROVE  Meets(e, o)
<1>1. /\ Len(Synth(e)) \in Nat /\ Len(Synth(o)) \in Nat
      /\ Len(Synth(e)) <= Len(m) /\ Len(Synth(o)) <= Len(m) /\ Len(m) \in Nat
  BY SynthIs, PathIs, LenProperties DEF Covers
<1>2. Len(Synth(e)) <= Len(Synth(o)) => CanMatch(Synth(e), Synth(o))
  BY CoveredMatch
<1>3. Len(Synth(o)) <= Len(Synth(e)) => CanMatch(Synth(o), Synth(e))
  BY CoveredMatch
<1>4. e.kind \in {"call", "minst", "res", "inst"} /\ o.kind \in {"call", "minst", "res", "inst"}
  BY DEF EndpointOK
<1> DEFINE p == Synth(e)
           q == Synth(o)
<1>5. ASSUME IsModuleKind(o), ~IsModuleKind(e) \/ Len(q) < Len(p) PROVE NestedWithin(e, o)
  <2>1. Len(q) <= Len(p)
    BY <1>1, <1>5
  <2>2. CanMatch(q, p)
    BY <1>3, <2>1
  <2>3. IsModuleKind(e) => Len(p) > Len(q)
    BY <1>1, <1>5
  <2>4. o.kind \in {"call", "minst"} /\ (e.kind = "call" => IsModuleKind(e))
    BY <1>5 DEF IsModuleKind
  <2> QED
    BY <2>1, <2>2, <2>3, <2>4 DEF NestedWithin
<1>6. ASSUME IsModuleKind(e), ~IsModuleKind(o) \/ Len(p) < Len(q) PROVE NestedWithin(o, e)
  <2>1. Len(p) <= Len(q)
    BY <1>1, <1>6
  <2>2. CanMatch(p, q)
    BY <1>2, <2>1
  <2>3. IsModuleKind(o) => Len(q) > Len(p)
    BY <1>1, <1>6
  <2>4. e.kind \in {"call", "minst"} /\ (o.kind = "call" => IsModuleKind(o))
    BY <1>6 DEF IsModuleKind
  <2> QED
    BY <2>1, <2>2, <2>3, <2>4 DEF NestedWithin
<1>7. ASSUME Len(p) = Len(q) PROVE CanMatch(p, q) /\ CanMatch(q, p) /\ Len(p) <= Len(q) /\ Len(q) <= Len(p)
  <2>1. Len(p) <= Len(q) /\ Len(q) <= Len(p)
    BY <1>1, <1>7
  <2> QED
    BY <1>2, <1>3, <2>1
<1>8. ASSUME IsModuleKind(e), IsModuleKind(o), Len(p) = Len(q) PROVE CanChainFrom(e, o)
  BY <1>7, <1>8 DEF CanChainFrom
<1>9. ASSUME ~IsModuleKind(e), ~IsModuleKind(o) PROVE Meets(e, o)
  <2>1. Len(p) = Len(q) /\ e.res = o.res
    BY <1>9
  <2>2. CanMatch(p, q) /\ CanMatch(q, p) /\ Len(p) <= Len(q) /\ Len(q) <= Len(p)
    BY <1>7, <2>1
  <2>3. e.kind \in {"res", "inst"} /\ o.kind \in {"res", "inst"}
    BY <1>4, <1>9 DEF IsModuleKind
  <2>4. CASE e.kind = o.kind
    BY <2>1, <2>2, <2>3, <2>4 DEF CanChainFrom, Meets
  <2>5. CASE e.kind = "inst" /\ o.kind = "res"
    BY <2>1, <2>2, <2>5 DEF NestedWithin, Meets
  <2>6. CASE e.kind = "res" /\ o.kind = "inst"
    BY <2>1, <2>2, <2>6 DEF NestedWithin, Meets
  <2> QED
    BY <2>3, <2>4, <2>5, <2>6
<1>10. Len(p) < Len(q) \/ Len(p) = Len(q) \/ Len(q) < Len(p)
  BY <1>1
<1> HIDE DEF p, q
<1> QED
  BY <1>5, <1>6, <1>8, <1>9, <1>10 DEF Meets

\* What statement t moves there can only be in the way of a statement that waits for t; and
\* what is left is in a module that the other one selected before.
LEMMA MovedOn ==
  ASSUME NEW s, NEW t, StatementOK(s), StatementOK(t), NEW m \in Path, NEW D, NEW x \in Matches(t, m, D),
         NEW a \in x.insts, NEW n, n = NewAddress(x, a), NEW E, NEW y \in Matches(s, n.mod, E), n \in y.insts
  PROVE  /\ n.mod \in Path
         /\ Meets(s.from, t.to)
         /\ ~DependsOn(s, t) /\ ~DeclaredBetween(s, t) =>
              /\ IsModuleKind(s.from) /\ TogetherIn(s, n.mod, m)
              /\ Matches(s, m, D) # {}
<1>1. /\ x.dest.mod \in Destinations(t, m) /\ a \in D /\ Concerns(t, m, a)
      /\ IsModuleKind(t.from) => x.dest.res = NoName
      /\ t.from.kind \in {"res", "inst"} => x.dest.res = t.to.res
      /\ t.from.kind = "inst" => x.dest.key = t.to.key
  BY MatchesAre
<1>2. Concerns(s, n.mod, n) /\ Destinations(s, n.mod) # {}
  BY MatchesAre
<1>3. /\ EndpointOK(s.from) /\ EndpointOK(t.from) /\ EndpointOK(t.to) /\ EndpointOK(s.to)
      /\ t.to.kind = t.from.kind /\ t.to.decl = t.from.decl /\ s.to.decl = s.from.decl
      /\ t.from.kind \in {"call", "minst", "res", "inst"} /\ s.from.kind \in {"call", "minst", "res", "inst"}
      /\ t.to.kind \in {"res", "inst"} => t.to.res # NoName
      /\ t.to.kind = "inst" => t.to.key # AnyKey
  BY DEF StatementOK, EndpointOK
<1>4. n.mod = x.dest.mod
  BY DEF NewAddress
<1>5. /\ n.mod \in Path /\ Covers(t.to, n.mod)
      /\ \A i \in 1..Len(t.from.decl) : n.mod[i] = m[i]
      /\ ~IsModuleKind(t.to) => Len(n.mod) = Len(Synth(t.to))
  <2>1. IsModuleKind(t.to) <=> IsModuleKind(t.from)
    BY <1>3 DEF IsModuleKind
  <2>2. CASE IsModuleKind(t.from)
    <3>1. x.dest.mod \in ModuleDestination(t, m)
      BY <1>1, <2>2 DEF Destinations
    <3> QED
      BY <1>4, <2>1, <2>2, <3>1, ModuleDestinationIs
  <2>3. CASE ~IsModuleKind(t.from)
    <3>1. x.dest.mod \in ContainerDestination(t, m)
      BY <1>1, <2>3 DEF Destinations
    <3> QED
      BY <1>4, <2>3, <3>1, ContainerDestinationIs
  <2> QED
    BY <2>2, <2>3
<1>6. Covers(s.from, n.mod) /\ (~IsModuleKind(s.from) => Len(n.mod) = Len(Synth(s.from)))
  <2>1. CASE IsModuleKind(s.from)
    <3>1. ModuleDestination(s, n.mod) # {}
      BY <1>2, <2>1 DEF Destinations
    <3> QED
      BY <1>5, <2>1, <3>1, ModuleDestinationIs
  <2>2. CASE ~IsModuleKind(s.from)
    <3>1. PICK dest \in ContainerDestination(s, n.mod) : TRUE
      BY <1>2, <2>2 DEF Destinations
    <3> QED
      BY <1>5, <2>2, <3>1, ContainerDestinationIs
  <2> QED
    BY <2>1, <2>2
<1>7. ~IsModuleKind(t.to) => n.res = t.to.res /\ (t.to.kind = "inst" => n.key = t.to.key)
  BY <1>1, <1>3 DEF NewAddress, IsModuleKind
<1>8. ~IsModuleKind(s.from) => n.res = s.from.res /\ (s.from.kind = "inst" => n.key = s.from.key)
  BY <1>2, <1>3 DEF Concerns, IsModuleKind
<1>9. s.from.kind = "inst" /\ t.to.kind = "inst" => s.from.key = t.to.key
  BY <1>7, <1>8 DEF IsModuleKind
<1>10. Meets(s.from, t.to)
  <2>1. PICK p \in Path : p = n.mod
    BY <1>5
  <2>2. /\ EndpointOK(s.from) /\ EndpointOK(t.to) /\ Covers(s.from, p) /\ Covers(t.to, p)
        /\ ~IsModuleKind(s.from) => Len(p) = Len(Synth(s.from))
        /\ ~IsModuleKind(t.to) => Len(p) = Len(Synth(t.to))
        /\ ~IsModuleKind(s.from) /\ ~IsModuleKind(t.to) => s.from.res = t.to.res
    BY <1>3, <1>5, <1>6, <1>7, <1>8, <2>1
  <2> QED
    BY <1>9, <2>2, MeetIs
<1>11. ASSUME ~DependsOn(s, t), ~DeclaredBetween(s, t)
       PROVE  IsModuleKind(s.from) /\ TogetherIn(s, n.mod, m) /\ Matches(s, m, D) # {}
  <2>1. ~CanChainFrom(s.from, t.to) /\ IsModuleReIndex(s) /\ ~(Len(s.to.decl) >= Len(t.to.decl))
    BY <1>10, <1>11 DEF DependsOn, Meets
  <2>2. PICK k \in Nat, d \in Nat, h \in Nat :
            k = Len(Synth(s.from)) /\ d = Len(t.to.decl) /\ h = Len(s.to.decl)
    BY <1>3, SynthIs, LenProperties
  <2>3. h < d
    BY <2>1, <2>2
  <2>4. ~(d < k)
    BY <1>3, <1>10, <1>11, <2>1, <2>2, <2>3 DEF DeclaredBetween
  <2>5. IsModuleKind(s.from)
    BY <2>1 DEF IsModuleReIndex, IsModuleKind
  <2>6. k <= Len(n.mod) /\ \A i \in 1..k : /\ Synth(s.from)[i].name = n.mod[i].name
                                           /\ Synth(s.from)[i].key = n.mod[i].key \/ Synth(s.from)[i].key = AnyKey
    BY <1>6, <2>2 DEF Covers
  <2>7. \A i \in 1..k : n.mod[i] = m[i]
    <3>1. \A i \in 1..k : i \in 1..d
      BY <2>4
    <3>2. \A i \in 1..d : n.mod[i] = m[i]
      BY <1>3, <1>5, <2>2
    <3> QED
      BY <3>1, <3>2
  <2>8. k <= Len(m)
    <3>1. d <= Len(m)
      <4>1. Covers(t.from, m)
        <5>1. CASE IsModuleKind(t.from)
          <6>1. ModuleDestination(t, m) # {}
            BY <1>1, <5>1 DEF Destinations
          <6> QED
            BY <5>1, <6>1, ModuleDestinationIs
        <5>2. CASE ~IsModuleKind(t.from)
          <6>1. x.dest.mod \in ContainerDestination(t, m)
            BY <1>1, <5>2 DEF Destinations
          <6> QED
            BY <5>2, <6>1, ContainerDestinationIs
        <5> QED
          BY <5>1, <5>2
      <4>2. EndpointOK(t.from) /\ Len(t.from.decl) = d
        BY <1>3, <2>2
      <4>3. Len(t.from.decl) + Len(t.from.path) <= Len(m) /\ Len(t.from.path) \in Nat /\ Len(m) \in Nat
        BY <4>1, <4>2, SynthIs, PathIs DEF Covers
      <4> QED
        BY <4>2, <4>3
    <3>2. Len(m) \in Nat
      BY PathIs
    <3> QED
      BY <2>4, <3>1, <3>2
  <2>9. Covers(s.from, m)
    BY <2>2, <2>6, <2>7, <2>8 DEF Covers
  <2>10. TogetherIn(s, n.mod, m)
    BY <2>2, <2>6, <2>7, <2>8 DEF TogetherIn
  <2>11. Destinations(s, m) # {}
    BY <2>5, <2>9, ModuleDestinationIs DEF Destinations
  <2>12. Concerns(s, m, a)
    BY <1>1, <2>5 DEF Concerns, IsModuleKind
  <2> QED
    BY <1>1, <2>5, <2>10, <2>11, <2>12, MatchExists
<1> QED
  BY <1>5, <1>10, <1>11
-----------------------------------------------------------------------------
(***************************************************************************)
(* The theorem.                                                            *)
(***************************************************************************)

\* A move keeps the old address of every object, through chains of moves too.
LEMMA MovePreserves ==
  ASSUME MovesInv, NEW m \in visit, VisitAndMove(m)
  PROVE  OldAddrIsTrue' /\ \A a \in DOMAIN at' : IsAddress(a)
<1>1. PICK x \in Matches(stmt, m, DOMAIN at) : ~x.taken /\ RecordMove(x) /\ at' = Carry(at, x)
  BY DEF VisitAndMove
<1> DEFINE New(a) == NewAddress(x, a)
           old == [a \in DOMAIN changes \union x.insts |-> IF a \in DOMAIN changes THEN changes[a] ELSE a]
<1>2. /\ x.insts \subseteq DOMAIN at
      /\ \A a, b \in x.insts : New(a) = New(b) => a = b
      /\ \A a \in x.insts : New(a) \notin DOMAIN at
  BY <1>1, MatchIs DEF MovesInv
<1>3. /\ \A n : n \in DOMAIN at' <=> n \in DOMAIN at \ x.insts \/ \E a \in x.insts : n = New(a)
      /\ \A a \in x.insts : at'[New(a)] = at[a]
      /\ \A n \in DOMAIN at \ x.insts : at'[n] = at[n]
  BY <1>1, <1>2, CarryIs
<1>4. /\ {at[a] : a \in DOMAIN at} = prior
      /\ DOMAIN changes \subseteq DOMAIN at
      /\ \A a \in DOMAIN at : at[a] = IF a \in DOMAIN changes THEN changes[a] ELSE a
  BY DEF MovesInv, OldAddrIsTrue
<1>5. changes' = Carry(old, x) /\ DOMAIN old = DOMAIN changes \union x.insts
  BY <1>1 DEF RecordMove
<1>6. \A a \in DOMAIN old : old[a] = at[a]
  BY <1>2, <1>4
<1> HIDE DEF old
<1>7. /\ \A n : n \in DOMAIN changes' <=> n \in DOMAIN old \ x.insts \/ \E a \in x.insts : n = New(a)
      /\ \A a \in x.insts : changes'[New(a)] = old[a]
      /\ \A n \in DOMAIN old \ x.insts : changes'[n] = old[n]
  <2>1. x.insts \subseteq DOMAIN old /\ \A a \in x.insts : New(a) \notin DOMAIN old
    BY <1>2, <1>4, <1>5
  <2> QED
    BY <1>2, <1>5, <2>1, CarryIs
<1>8. prior' = prior
  BY DEF VisitAndMove
<1>9. {at'[a] : a \in DOMAIN at'} = {at[a] : a \in DOMAIN at}
  <2>1. \A v : (\E a \in DOMAIN at' : v = at'[a]) <=> (\E a \in DOMAIN at : v = at[a])
    BY <1>2, <1>3
  <2> QED
    BY <2>1
<1>10. DOMAIN changes' \subseteq DOMAIN at'
  BY <1>3, <1>4, <1>5, <1>7
<1>11. \A a \in DOMAIN at' : at'[a] = IF a \in DOMAIN changes' THEN changes'[a] ELSE a
  <2> SUFFICES ASSUME NEW n \in DOMAIN at'
               PROVE  at'[n] = IF n \in DOMAIN changes' THEN changes'[n] ELSE n
    OBVIOUS
  <2>1. CASE \E a \in x.insts : n = New(a)
    BY <1>2, <1>3, <1>5, <1>6, <1>7, <2>1
  <2>2. CASE n \in DOMAIN at \ x.insts
    BY <1>3, <1>4, <1>5, <1>6, <1>7, <1>2, <2>2
  <2> QED
    BY <1>3, <2>1, <2>2
<1>12. \A a \in DOMAIN at' : IsAddress(a)
  <2>1. \A a \in x.insts : IsAddress(New(a))
    BY DEF NewAddress, IsAddress
  <2> QED
    BY <1>3, <2>1 DEF MovesInv
<1> QED
  BY <1>4, <1>8, <1>9, <1>10, <1>11, <1>12 DEF OldAddrIsTrue

\* Before any move every object is where it was.
LEMMA IdentityIs ==
  ASSUME NEW P \in Priors, NEW f, f = Identity(P)
  PROVE  DOMAIN f = P /\ {f[a] : a \in P} = P /\ \A a \in P : f[a] = a /\ IsAddress(a)
<1>1. DOMAIN f = P /\ \A a \in P : f[a] = a
  BY DEF Identity
<1>2. {f[a] : a \in P} = P
  BY <1>1
<1> QED
  BY <1>1, <1>2, MovesAssumption DEF IsAddress

\* The invariant holds at first.
LEMMA MovesInit == Init => MovesInv
<1> SUFFICES ASSUME Init PROVE MovesInv
  OBVIOUS
<1>1. DOMAIN changes = {}
  BY DEF Init, Identity
<1> QED
  BY <1>1, IdentityIs DEF Init, MovesInv, OldAddrIsTrue

\* Every step keeps it.
LEMMA MovesNext == MovesInv /\ [Next]_vars => MovesInv'
<1> SUFFICES ASSUME MovesInv, [Next]_vars PROVE MovesInv'
  OBVIOUS
<1> USE DEF MovesInv
<1>1. CASE FindMoveStatements
  <2>1. \A s \in todo' : StatementOK(s)
    BY <1>1, StatementsAreOK DEF FindMoveStatements
  <2> QED
    BY <1>1, <2>1 DEF FindMoveStatements, OldAddrIsTrue
<1>2. ASSUME NEW s \in todo, BeginStatement(s) PROVE MovesInv'
  BY <1>2 DEF BeginStatement, OldAddrIsTrue
<1>3. ASSUME NEW m \in visit, VisitInVain(m) PROVE MovesInv'
  BY <1>3 DEF VisitInVain, OldAddrIsTrue
<1>4. ASSUME NEW m \in visit, VisitAndMove(m) PROVE MovesInv'
  <2>1. UNCHANGED <<config, prior, todo, stmt>>
    BY <1>4 DEF VisitAndMove
  <2> QED
    BY <1>4, <2>1, MovePreserves
<1>5. CASE PostPlanValidateMoves
  BY <1>5 DEF PostPlanValidateMoves, OldAddrIsTrue
<1>6. CASE PlanAgain
  <2>1. OldAddrIsTrue' /\ \A a \in DOMAIN at' : IsAddress(a)
    <3>1. DOMAIN changes' = {} /\ at' = Identity(prior) /\ prior' = prior
      BY <1>6 DEF PlanAgain, Identity
    <3> QED
      BY <3>1, IdentityIs DEF OldAddrIsTrue
  <2> QED
    BY <1>6, <2>1 DEF PlanAgain
<1>7. CASE UNCHANGED vars
  BY <1>7 DEF vars, OldAddrIsTrue
<1> QED
  BY <1>1, <1>2, <1>3, <1>4, <1>5, <1>6, <1>7 DEF Next

\* OldAddrIsTrue: whatever statements there are, in whatever order they and the modules are
\* taken, no object is lost and MoveResults tells where each one came from.
THEOREM OldAddrsAreTrue == Spec => []OldAddrIsTrue
<1>1. MovesInv => OldAddrIsTrue
  BY DEF MovesInv
<1> QED
  BY <1>1, MovesInit, MovesNext, PTL DEF Spec

-----------------------------------------------------------------------------
(***************************************************************************)
(* One pass is enough.                                                     *)
(***************************************************************************)

\* No statement that has been begun waits for one that has not, nor any other for the
\* current one.
OrderInv ==
    /\ todo \subseteq stmts
    /\ \A s \in stmts \ todo, t \in todo : ~DependsOn(s, t)
    /\ visit # {} =>
        stmt \in stmts \ todo /\ \A s \in stmts \ todo : s # stmt => ~DependsOn(s, stmt)

\* What the phases have done.
PhaseInv ==
    /\ pc = "find" => stmts = {} /\ todo = {} /\ visit = {}
    /\ pc = "planned" => Acyclic(stmts) /\ todo = {} /\ visit = {}

\* Statement s has held back all it applies to in the modules visited for it.
Through(s) ==
    \A p \in Modules(DOMAIN at) : s # stmt \/ p \notin visit =>
        \A x \in Matches(s, p, DOMAIN at) : HeldBack(s, x)

PathsInv ==
    /\ \A s \in stmts : StatementOK(s)
    /\ \A a \in DOMAIN at : a.mod \in Path
    /\ visit \subseteq Path

LeftInv == Acyclic(stmts) => \A s \in stmts \ todo : InItsPlace(s) => Through(s)

PassInv == MovesInv /\ OrderInv /\ PhaseInv /\ PathsInv /\ LeftInv

\* The new address is one in a module path.
LEMMA DestinationIsPath ==
  ASSUME NEW s, StatementOK(s), NEW m \in Path, NEW D, NEW x \in Matches(s, m, D)
  PROVE  x.dest.mod \in Path
<1>1. x.dest.mod \in Destinations(s, m)
  BY MatchesAre
<1>2. CASE IsModuleKind(s.from)
  BY <1>1, <1>2, ModuleDestinationIs DEF Destinations
<1>3. CASE ~IsModuleKind(s.from)
  BY <1>1, <1>3, ContainerDestinationIs DEF Destinations
<1> QED
  BY <1>2, <1>3

\* A visit in vain records what it cannot move, and no other visit takes that back.
LEMMA VainKeepsLeft ==
  ASSUME PassInv, NEW m \in visit, VisitInVain(m) PROVE LeftInv'
<1>1. /\ UNCHANGED <<stmts, todo, stmt, at>> /\ visit' = visit \ {m}
      /\ blocked' = {b \in blocked : \A x \in Matches(stmt, m, DOMAIN at) : b.actual # x.obj}
                     \union {[actual |-> x.obj, wanted |-> x.dest] : x \in Matches(stmt, m, DOMAIN at)}
  BY DEF VisitInVain
<1>2. ASSUME NEW x \in Matches(stmt, m, DOMAIN at) PROVE \E c \in blocked' : c.actual = x.obj
  <2>1. [actual |-> x.obj, wanted |-> x.dest] \in blocked'
    BY <1>1
  <2>2. [actual |-> x.obj, wanted |-> x.dest].actual = x.obj
    OBVIOUS
  <2> QED
    BY <2>1, <2>2
<1>3. \A b \in blocked : \E c \in blocked' : c.actual = b.actual
  BY <1>1, <1>2
<1>4. ASSUME NEW s, NEW x, HeldBack(s, x) PROVE HeldBack(s, x)'
  BY <1>3, <1>4 DEF HeldBack
<1>5. ASSUME NEW s, NEW x, \E c \in blocked' : c.actual = x.obj PROVE HeldBack(s, x)'
  BY <1>5 DEF HeldBack
<1>6. ASSUME NEW s, Through(s) PROVE Through(s)'
  BY <1>1, <1>2, <1>4, <1>5, <1>6 DEF Through
<1>7. ASSUME NEW s PROVE InItsPlace(s)' = InItsPlace(s)
  BY <1>1 DEF InItsPlace
<1> QED
  BY <1>1, <1>6, <1>7 DEF PassInv, LeftInv

\* A move leaves nothing behind: whatever an earlier statement would apply to now, it applied
\* to before, or that statement would have had to wait.
LEMMA MoveKeepsLeft ==
  ASSUME PassInv, NEW m \in visit, VisitAndMove(m) PROVE LeftInv'
<1>1. PICK x \in Matches(stmt, m, DOMAIN at) :
        /\ ~x.taken /\ at' = Carry(at, x)
        /\ \E more : visit' = ((visit \ {m}) \intersect Modules(DOMAIN at')) \union more
  BY DEF VisitAndMove
<1>2. UNCHANGED <<stmts, todo, stmt, blocked>>
  BY DEF VisitAndMove
<1>3. /\ stmt \in stmts \ todo /\ StatementOK(stmt) /\ m \in Path
      /\ \A s \in stmts \ todo : s # stmt => ~DependsOn(s, stmt)
      /\ \A s \in stmts : StatementOK(s)
  BY DEF PassInv, OrderInv, PathsInv
<1>4. \A n : n \in DOMAIN at' <=> n \in DOMAIN at \ x.insts \/ \E a \in x.insts : n = NewAddress(x, a)
  <2>1. \A a \in DOMAIN at : IsAddress(a)
    BY DEF PassInv, MovesInv
  <2>2. /\ x.insts \subseteq DOMAIN at
        /\ \A a, b \in x.insts : NewAddress(x, a) = NewAddress(x, b) => a = b
        /\ \A a \in x.insts : NewAddress(x, a) \notin DOMAIN at
    BY <1>1, <1>3, <2>1, MatchIs
  <2> QED
    BY <1>1, <2>2, CarryIs
<1>5. \A a : a \in x.insts <=> a \in DOMAIN at /\ Concerns(stmt, m, a)
  BY <1>1, <1>3, MatchesAre
<1>6. ASSUME Acyclic(stmts), NEW s \in stmts \ todo, InItsPlace(s), NEW p \in Modules(DOMAIN at'),
             s # stmt \/ p \notin visit', NEW y \in Matches(s, p, DOMAIN at')
      PROVE  HeldBack(s, y)
  <2>1. StatementOK(s) /\ Through(s)
    BY <1>3, <1>6 DEF PassInv, LeftInv
  <2>2. PICK n \in y.insts : n \in DOMAIN at' /\ Concerns(s, p, n)
    BY <2>1, MatchesAre
  <2>3. y.obj = Moveable(s, p) /\ Destinations(s, p) # {} /\ n.mod = p
    BY <2>1, <2>2, MatchesAre DEF Concerns
  <2>4. CASE n \in DOMAIN at \ x.insts
    <3>1. PICK z : z \in Matches(s, p, DOMAIN at)
      BY <2>1, <2>2, <2>3, <2>4, MatchExists
    <3>2. z.obj = y.obj
      BY <2>1, <2>3, <3>1, MatchesAre
    <3>3. p \in Modules(DOMAIN at)
      BY <2>3, <2>4 DEF Modules
    <3>4. s # stmt \/ p \notin visit
      <4>1. s = stmt => p # m
        BY <1>5, <2>2, <2>4
      <4> QED
        BY <1>1, <1>6, <4>1
    <3>5. HeldBack(s, z)
      BY <2>1, <3>1, <3>3, <3>4 DEF Through
    <3> QED
      BY <3>2, <3>5 DEF HeldBack
  <2>5. CASE \E a \in x.insts : n = NewAddress(x, a)
    <3>1. PICK a \in x.insts : n = NewAddress(x, a)
      BY <2>5
    <3>2. y \in Matches(s, n.mod, DOMAIN at')
      BY <2>3
    <3>3. /\ Meets(s.from, stmt.to)
          /\ ~DependsOn(s, stmt) /\ ~DeclaredBetween(s, stmt) =>
               /\ IsModuleKind(s.from) /\ TogetherIn(s, n.mod, m)
               /\ Matches(s, m, DOMAIN at) # {}
      BY <1>3, <2>1, <3>1, <3>2, MovedOn
    <3>4. s # stmt /\ ~DeclaredBetween(s, stmt)
      BY <1>3, <1>6, <3>3 DEF InItsPlace
    <3>5. ~DependsOn(s, stmt)
      BY <1>3, <3>4
    <3>6. PICK z : z \in Matches(s, m, DOMAIN at)
      BY <3>3, <3>4, <3>5
    <3>7. m \in Modules(DOMAIN at)
      BY <1>5, <3>1 DEF Modules, Concerns
    <3>8. HeldBack(s, z)
      BY <2>1, <3>4, <3>6, <3>7 DEF Through
    <3>9. z.obj.mod = m /\ z.obj.res = NoName /\ y.obj.mod = n.mod
      <4>1. z.obj = Moveable(s, m) /\ y.obj = Moveable(s, n.mod) /\ IsModuleKind(s.from)
        BY <2>1, <2>3, <3>3, <3>4, <3>5, <3>6, MatchesAre
      <4>2. s.from.kind # "res" /\ s.from.kind # "inst"
        BY <4>1 DEF IsModuleKind
      <4> QED
        BY <4>1, <4>2 DEF Moveable, Address
    <3>10. ASSUME NEW q, TogetherIn(s, m, q) PROVE TogetherIn(s, n.mod, q)
      BY <3>3, <3>4, <3>5, <3>10 DEF TogetherIn
    <3>11. PICK b \in blocked : b.actual = z.obj \/ (b.actual.res = NoName /\ TogetherIn(s, m, b.actual.mod))
      BY <3>8, <3>9 DEF HeldBack
    <3>12. b.actual.res = NoName /\ TogetherIn(s, n.mod, b.actual.mod)
      BY <3>3, <3>4, <3>5, <3>9, <3>10, <3>11
    <3> QED
      BY <3>3, <3>4, <3>5, <3>9, <3>12 DEF HeldBack
  <2> QED
    BY <1>4, <2>2, <2>4, <2>5
<1>7. ASSUME NEW s PROVE InItsPlace(s)' = InItsPlace(s)
  BY <1>2 DEF InItsPlace
<1>8. ASSUME NEW s, NEW y PROVE HeldBack(s, y)' = HeldBack(s, y)
  BY <1>2 DEF HeldBack
<1>9. ASSUME Acyclic(stmts), NEW s \in stmts \ todo, InItsPlace(s) PROVE Through(s)'
  BY <1>2, <1>6, <1>8, <1>9 DEF Through
<1> QED
  BY <1>2, <1>7, <1>9 DEF LeftInv

\* Before any move every module of the state has a path.
LEMMA PriorPaths ==
  ASSUME NEW P \in Priors, NEW f, f = Identity(P)
  PROVE  \A a \in DOMAIN f : a.mod \in Path
BY MovesAssumption DEF Identity

\* The modules of the state have paths.
LEMMA ModulesArePaths ==
  ASSUME NEW D, \A a \in D : a.mod \in Path
  PROVE  Modules(D) \subseteq Path
<1>1. <<>> \in Path
  BY EmptySeq DEF Path
<1> QED
  BY <1>1 DEF Modules

\* Every step keeps the invariant of the pass.
LEMMA PassNext == PassInv /\ [Next]_vars => PassInv'
<1> SUFFICES ASSUME PassInv, [Next]_vars PROVE PassInv'
  OBVIOUS
<1>0. MovesInv /\ MovesInv' /\ OrderInv /\ PhaseInv /\ PathsInv /\ LeftInv
  BY MovesNext DEF PassInv
<1> SUFFICES OrderInv' /\ PhaseInv' /\ PathsInv' /\ LeftInv'
  BY <1>0 DEF PassInv
<1>1. CASE FindMoveStatements
  <2>1. /\ stmts' = Statements /\ todo' = IF Acyclic(stmts') THEN stmts' ELSE {}
        /\ pc' = "apply" /\ pc = "find" /\ UNCHANGED <<visit, at>>
    BY <1>1 DEF FindMoveStatements
  <2>2. visit = {} /\ \A s \in stmts' : StatementOK(s)
    BY <1>0, <2>1, StatementsAreOK DEF PhaseInv, MovesInv
  <2>3. OrderInv'
    BY <2>1, <2>2 DEF OrderInv
  <2>4. PhaseInv'
    BY <2>1 DEF PhaseInv
  <2>5. PathsInv'
    BY <1>0, <2>1, <2>2 DEF PathsInv
  <2>6. LeftInv'
    BY <2>1 DEF LeftInv
  <2> QED
    BY <2>3, <2>4, <2>5, <2>6
<1>2. ASSUME NEW s \in todo, BeginStatement(s) PROVE OrderInv' /\ PhaseInv' /\ PathsInv' /\ LeftInv'
  <2>1. /\ pc = "apply" /\ visit = {} /\ \A b \in todo \ {s} : ~DependsOn(s, b)
        /\ stmt' = s /\ todo' = todo \ {s} /\ visit' = Modules(DOMAIN at)
        /\ UNCHANGED <<pc, stmts, at, blocked>>
    BY <1>2 DEF BeginStatement
  <2>2. OrderInv'
    BY <1>0, <2>1 DEF OrderInv
  <2>3. PhaseInv'
    BY <2>1 DEF PhaseInv
  <2>4. PathsInv'
    BY <1>0, <2>1, ModulesArePaths DEF PathsInv
  <2>5. LeftInv'
    <3>1. ASSUME NEW t PROVE InItsPlace(t)' = InItsPlace(t)
      BY <2>1 DEF InItsPlace
    <3>2. ASSUME NEW t, NEW x PROVE HeldBack(t, x)' = HeldBack(t, x)
      BY <2>1 DEF HeldBack
    <3>3. ASSUME NEW t, Through(t) PROVE Through(t)'
      BY <2>1, <3>2, <3>3 DEF Through
    <3>4. Through(s)'
      BY <2>1 DEF Through
    <3> QED
      BY <1>0, <2>1, <3>1, <3>3, <3>4 DEF LeftInv
  <2> QED
    BY <2>2, <2>3, <2>4, <2>5
<1>3. ASSUME NEW m \in visit, VisitInVain(m) PROVE OrderInv' /\ PhaseInv' /\ PathsInv' /\ LeftInv'
  <2>1. visit' = visit \ {m} /\ UNCHANGED <<pc, stmts, todo, stmt, at>>
    BY <1>3 DEF VisitInVain
  <2>2. OrderInv' /\ PhaseInv' /\ PathsInv'
    BY <1>0, <2>1 DEF OrderInv, PhaseInv, PathsInv
  <2> QED
    BY <1>3, <2>2, VainKeepsLeft
<1>4. ASSUME NEW m \in visit, VisitAndMove(m) PROVE OrderInv' /\ PhaseInv' /\ PathsInv' /\ LeftInv'
  <2>1. UNCHANGED <<pc, stmts, todo, stmt>>
    BY <1>4 DEF VisitAndMove
  <2>2. PICK x \in Matches(stmt, m, DOMAIN at) : ~x.taken /\ at' = Carry(at, x) /\ visit' \subseteq visit \union Modules(DOMAIN at')
    BY <1>4 DEF VisitAndMove
  <2>3. OrderInv' /\ PhaseInv'
    BY <1>0, <2>1 DEF OrderInv, PhaseInv
  <2>4. StatementOK(stmt) /\ m \in Path /\ \A a \in DOMAIN at : IsAddress(a) /\ a.mod \in Path
    BY <1>0 DEF MovesInv, PathsInv
  <2>5. \A n : n \in DOMAIN at' <=> n \in DOMAIN at \ x.insts \/ \E a \in x.insts : n = NewAddress(x, a)
    <3>1. /\ x.insts \subseteq DOMAIN at
          /\ \A a, b \in x.insts : NewAddress(x, a) = NewAddress(x, b) => a = b
          /\ \A a \in x.insts : NewAddress(x, a) \notin DOMAIN at
      BY <2>2, <2>4, MatchIs
    <3> QED
      BY <2>2, <3>1, CarryIs
  <2>6. \A a \in x.insts : NewAddress(x, a).mod \in Path
    BY <2>2, <2>4, DestinationIsPath DEF NewAddress
  <2>7. \A a \in DOMAIN at' : a.mod \in Path
    BY <2>4, <2>5, <2>6
  <2>8. PathsInv'
    BY <1>0, <2>1, <2>2, <2>7, ModulesArePaths DEF PathsInv
  <2> QED
    BY <1>4, <2>3, <2>8, MoveKeepsLeft
<1>5. CASE PostPlanValidateMoves
  <2>1. /\ todo = {} /\ visit = {} /\ pc' = IF ValidateMoves THEN "planned" ELSE "rejected"
        /\ UNCHANGED <<stmts, todo, visit, at, blocked>>
    BY <1>5 DEF PostPlanValidateMoves
  <2>2. PhaseInv'
    BY <2>1 DEF PhaseInv, ValidateMoves
  <2>3. OrderInv' /\ PathsInv'
    BY <1>0, <2>1 DEF OrderInv, PathsInv
  <2>4. ASSUME NEW t PROVE InItsPlace(t)' = InItsPlace(t)
    BY <2>1 DEF InItsPlace
  <2>5. ASSUME NEW t, NEW x PROVE HeldBack(t, x)' = HeldBack(t, x)
    BY <2>1 DEF HeldBack
  <2>6. ASSUME NEW t, Through(t) PROVE Through(t)'
    BY <2>1, <2>5, <2>6 DEF Through
  <2>7. LeftInv'
    BY <1>0, <2>1, <2>4, <2>6 DEF LeftInv
  <2> QED
    BY <2>2, <2>3, <2>7
<1>6. CASE PlanAgain
  <2>1. /\ pc = "planned" /\ pc' = "find" /\ stmts' = {} /\ at' = Identity(prior)
        /\ UNCHANGED <<todo, visit>>
    BY <1>6 DEF PlanAgain
  <2>2. todo = {} /\ visit = {}
    BY <1>0, <2>1 DEF PhaseInv
  <2>3. \A a \in DOMAIN at' : a.mod \in Path
    BY <1>0, <2>1, PriorPaths DEF MovesInv
  <2> QED
    BY <2>1, <2>2, <2>3 DEF OrderInv, PhaseInv, PathsInv, LeftInv
<1>7. CASE UNCHANGED vars
  <2>1. UNCHANGED <<pc, stmts, todo, stmt, visit, at, blocked>>
    BY <1>7 DEF vars
  <2>2. OrderInv' /\ PhaseInv' /\ PathsInv'
    BY <1>0, <2>1 DEF OrderInv, PhaseInv, PathsInv
  <2>3. LeftInv'
    BY <1>0, <2>1 DEF LeftInv, InItsPlace, Through, HeldBack
  <2> QED
    BY <2>2, <2>3
<1> QED
  BY <1>1, <1>2, <1>3, <1>4, <1>5, <1>6, <1>7 DEF Next

\* NoneLeftBehind: for any configuration and previous state, and in whatever topological
\* order ApplyMoves takes the statements and in whatever order it visits the modules, an
\* accepted plan has no object that a statement in its place still applies to, unless
\* MoveResults.Blocked accounts for it.
THEOREM NothingLeftBehind == Spec => []NoneLeftBehind
<1>1. Init => PassInv
  <2> SUFFICES ASSUME Init PROVE PassInv
    OBVIOUS
  <2>1. MovesInv
    BY MovesInit
  <2>2. \A a \in DOMAIN at : a.mod \in Path
    BY PriorPaths DEF Init
  <2> QED
    BY <2>1, <2>2 DEF Init, PassInv, OrderInv, PhaseInv, PathsInv, LeftInv
<1>2. PassInv => NoneLeftBehind
  <2> SUFFICES ASSUME PassInv, pc = "planned", NEW s \in stmts, InItsPlace(s) PROVE Exhausted(s)
    BY DEF NoneLeftBehind
  <2>1. visit = {} /\ Through(s)
    BY DEF PassInv, PhaseInv, LeftInv
  <2> QED
    BY <2>1 DEF Through, Exhausted
<1> QED
  BY <1>1, <1>2, PassNext, PTL DEF Spec
=============================================================================
