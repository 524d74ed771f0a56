----------------------------- MODULE ServerProofs ----------------------------
(***************************************************************************)
(* Proofs about VariableServer, for any certificates, requests, contents   *)
(* of XAPI and files: the invariants of the trust anchors and the mode,    *)
(* what a refused or an accepted request may change, and what is in XAPI.  *)
(* One invariant, Inv, is proved to be inductive over requests, starts and *)
(* ends; the properties follow from it or from the step it is proved for.  *)
(***************************************************************************)
EXTENDS VariableServer, AuthProofs

-----------------------------------------------------------------------------
(***************************************************************************)
(* SetVariable                                                             *)
(***************************************************************************)
\* A platform between two requests.
Whole(p) == p \in Platform /\ Sound(p.s) /\ Shown(p)

\* handle_set_variable does what Done says, and nothing to the variables that
\* are read-only.
LEMMA HandleDone ==
    ASSUME NEW p, Whole(p), NEW r \in PlainRequest
    PROVE  LET o == handle_set_variable(p, r)
           IN  Done(p, o, r) /\ (r.key \in ModeKeys => o.p = p)
<1> DEFINE o == handle_set_variable(p, r)
           refused == \/ "RT" \in r.attrs /\ "BS" \notin r.attrs
                      \/ is_ro(Name(r))
                      \/ evaluate_attrs(r.attrs) # "SUCCESS"
           auth == "AT" \in r.attrs \/ is_secure_boot_variable(Name(r))
<1>0. p \in Platform /\ Sound(p.s) /\ Shown(p)
  BY Zenon DEF Whole
<1>4. Name(r) = Plain(r.key) /\ Name(r).key = r.key /\ ~Name(r).nul
  <2>1. Name(r) = Plain(r.key)
    BY PlainlyNamed, Zenon
  <2> QED
    BY <2>1 DEF Plain
<1>1. CASE refused
  <2>1. PICK st : o = Outcome(st, p)
    BY <1>1, Zenon DEF handle_set_variable
  <2>2. o.p = p
    BY <2>1 DEF Outcome
  <2> HIDE DEF o
  <2> QED
    BY <1>0, <2>1, <2>2, NothingDone, Zenon DEF o
<1>2. CASE ~refused /\ auth
  <2>1. o = auth_lib_process_variable(p, r)
    BY <1>2, Zenon DEF handle_set_variable
  <2>2. r.key \notin ModeKeys /\ r.key \notin ModeVars
    BY <1>2, <1>4, ModeNames, Zenon DEF is_ro
  <2>3. "AT" \in r.attrs \/ r.key \in Anchors
    BY <1>2, <1>4, Zenon DEF is_secure_boot_variable, SecureBootKeys, Anchors
  <2> HIDE DEF o
  <2> QED
    BY <1>0, <2>1, <2>2, <2>3, AuthDone, Zenon DEF o
<1>3. CASE ~refused /\ ~auth
  <2>1. o = OnTable(p, storage_set(p.s, Plain(r.key), r.data, r.attrs))
    BY <1>3, <1>4, Zenon DEF handle_set_variable
  <2>2. r.key \notin ModeKeys /\ r.key \notin ModeVars
    BY <1>3, <1>4, ModeNames, Zenon DEF is_ro
  <2>3. "AT" \notin r.attrs /\ r.key \notin Anchors
    BY <1>3, <1>4, Zenon DEF is_secure_boot_variable, SecureBootKeys, Anchors
  <2> DEFINE data == r.data
             attrs == r.attrs
  <2>4. data \in Seq(Atoms) /\ attrs \in SUBSET Attrs /\ "AT" \notin attrs
    BY <2>3, RequestFields, Zenon
  <2>5. PrivateWrite(p, o, r)
    <3>1. "NV" \in attrs => "NV" \in r.attrs
      BY Zenon
    <3>2. o = OnTable(p, storage_set(p.s, Plain(r.key), data, attrs))
      BY <2>1, Zenon
    <3> HIDE DEF o, data, attrs
    <3> QED
      BY <1>0, <2>4, <3>1, <3>2, PlainPath, Zenon
  <2> HIDE DEF o
  <2>6. Done(p, o, r)
    BY <1>0, <2>2, <2>3, <2>5, PrivateDone, Zenon
  <2> QED
    BY <2>2, <2>6, Zenon DEF o
<1> QED
  BY <1>1, <1>2, <1>3, Zenon

\* What the properties call a change is one by name.
LEMMA ContentSame ==
    ASSUME NEW p, NEW q, NEW k, Content(q, k) # Content(p, k)
    PROVE  ~Same(p.s, q.s, k)
  BY Zenon DEF Content, Has, Var, Same, Known, At

\* A request signed by the holder of the PK.
LEMMA PkSigned ==
    ASSUME NEW p, NEW r, verify_pk(p.s, r)
    PROVE  r.verifies /\ Has(p, PK) /\ r.signer = Content(p, PK)[1]
  BY Zenon DEF verify_pk, Content, Has, Var

\* A request signed by the holder of a KEK.
LEMMA KekSigned ==
    ASSUME NEW p, NEW r, verify_kek(p.s, r)
    PROVE  r.verifies /\ r.signer \in Range(Content(p, KEK))
  BY Zenon DEF verify_kek, Content, Has, Var

\* What TrustChain says of a request.
LEMMA DoneByOwner ==
    ASSUME Whole(plat), plat.mode = "USER", NEW r \in PlainRequest, NEW o, Done(plat, o, r)
    PROVE  ByOwner(r, o.p)
<1>0. \A j \in Keys : j # r.key /\ j \notin ModeVars => Same(plat.s, o.p.s, j)
  BY Zenon DEF Done, Writes, Frame
<1>1. ASSUME NEW k \in {PK, KEK}, Content(o.p, k) # Content(plat, k)
      PROVE  r.verifies /\ r.signer = Anchor
  <2>1. ~Same(plat.s, o.p.s, k)
    BY <1>1, ContentSame, Zenon
  <2>2. k = r.key
    BY <1>0, <2>1, ModeNames, Zenon
  <2>3. verify_pk(plat.s, r)
    BY <1>1, <2>1, <2>2, Zenon DEF Done
  <2> QED
    BY <2>3, PkSigned, Zenon DEF Anchor
<1>2. ASSUME NEW k \in SigDbs, Content(o.p, k) # Content(plat, k)
      PROVE  r.verifies /\ r.signer \in {Anchor} \cup Range(Content(plat, KEK))
  <2>1. ~Same(plat.s, o.p.s, k)
    BY <1>2, ContentSame, Zenon
  <2>2. k = r.key
    BY <1>0, <2>1, ModeNames, Zenon
  <2>3. verify_pk(plat.s, r) \/ verify_kek(plat.s, r)
    BY <1>2, <2>1, <2>2, Zenon DEF Done
  <2> QED
    BY <2>3, PkSigned, KekSigned, Zenon DEF Anchor
<1> QED
  BY <1>1, <1>2, Zenon DEF ByOwner

\* What PrivateOwner says of a request.
LEMMA DoneByCreator ==
    ASSUME Whole(plat), NEW r \in PlainRequest, NEW o, Done(plat, o, r)
    PROVE  ByCreator(r, o.p)
<1> SUFFICES ASSUME NEW k \in Keys \ Anchors, Known(plat.s, k), "AT" \in At(plat.s, k).attrs,
                    Known(o.p.s, k), At(o.p.s, k) # At(plat.s, k)
             PROVE  r.verifies /\ r.signer = At(plat.s, k).cert
  BY Zenon DEF ByCreator, Has, Var, Known, At, Anchors
<1>1. k \notin ModeVars
  <2>1. \A j \in ModeVars : At(plat.s, j).attrs = VolatileAttrs
    BY Zenon DEF Whole, Shown, Told, Held, ModeVars
  <2> QED
    BY <2>1, VolatileSet, Zenon
<1>2. ~Same(plat.s, o.p.s, k)
  BY Zenon DEF Same
<1>3. k = r.key
  BY <1>1, <1>2, Zenon DEF Done, Writes, Frame
<1> QED
  BY <1>2, <1>3, Zenon DEF Done

\* What StampBackOnlyByAppend says of a request.
LEMMA DoneAdvances ==
    ASSUME Whole(plat), NEW r \in PlainRequest, NEW o, Done(plat, o, r)
    PROVE  StampsAdvance(r, o.p)
<1> SUFFICES ASSUME NEW k \in Keys, plat.mode = "USER" \/ k = PK, Known(plat.s, k), Known(o.p.s, k),
                    At(o.p.s, k).timestamp < At(plat.s, k).timestamp, "AP" \notin r.attrs
             PROVE  FALSE
  BY Zenon DEF StampsAdvance, Has, Var, Known, At
<1>1. Sound(plat.s) /\ Sound(o.p.s)
  BY Zenon DEF Whole, Done, Writes, Frame
<1>2. At(plat.s, k).timestamp \in Nat /\ At(o.p.s, k).timestamp \in Nat
  <2>1. At(plat.s, k) \in Variable /\ At(o.p.s, k) \in Variable
    BY <1>1, KnownSlot, Zenon
  <2> QED
    BY <2>1, Zenon DEF Variable
<1>3. CASE k = r.key
  <2>1. Advance(plat.s, o.p.s, r)
    BY <1>3, Zenon DEF Done
  <2>2. At(plat.s, k).timestamp <= At(o.p.s, k).timestamp
    BY <1>3, <2>1, Zenon DEF Advance
  <2> QED
    BY <1>2, <2>2
<1>4. CASE k # r.key
  <2>1. Same(plat.s, o.p.s, k) \/ Stays(plat.s, o.p.s, k)
    BY <1>4, Zenon DEF Done, Writes, Frame
  <2>2. At(plat.s, k).timestamp = At(o.p.s, k).timestamp
    BY <2>1, Zenon DEF Same, Stays
  <2> QED
    BY <1>2, <2>2
<1> QED
  BY <1>3, <1>4, Zenon

-----------------------------------------------------------------------------
(***************************************************************************)
(* Collecting what is kept                                                 *)
(***************************************************************************)
\* The loop over the table, unfolded.
LEMMA CollectedUnfolds ==
    ASSUME NEW s
    PROVE  Collected(s) = [n \in 0 .. MaxVarCount |->
                              IF n = 0 THEN <<>> ELSE Collect(Collected(s)[n - 1], s, n - 1)]
<1> DEFINE P(g, m) == g = [n \in 0 .. m |-> IF n = 0 THEN <<>> ELSE Collect(g[n - 1], s, n - 1)]
           Bad == {m \in Nat : ~\E g : P(g, m)}
<1>1. Bad = {}
  <2> SUFFICES ASSUME Bad # {} PROVE FALSE
    BY Zenon
  <2> DEFINE m == Min(Bad)
  <2>1. m \in Bad /\ \A j \in Bad : m <= j
    <3>1. Bad \in SUBSET Nat
      BY Zenon
    <3> HIDE DEF Bad
    <3> QED
      BY <3>1, MinIsSmallest, Zenon
  <2> HIDE DEF m
  <2>2. m \in Nat /\ ~\E g : P(g, m)
    BY <2>1, Zenon
  <2>3. CASE m = 0
    <3>1. P([n \in 0 .. 0 |-> <<>>], 0)
      OBVIOUS
    <3> QED
      BY <2>2, <2>3, <3>1, Zenon
  <2>4. CASE m # 0
    <3>1. m - 1 \in Nat /\ m - 1 \notin Bad
      <4> HIDE DEF Bad
      <4> QED
        BY <2>1, <2>2, <2>4
    <3>2. PICK g : P(g, m - 1)
      BY <3>1, Zenon
    <3> DEFINE h == [n \in 0 .. m |-> IF n = m THEN Collect(g[m - 1], s, m - 1) ELSE g[n]]
    <3>3. \A n \in 0 .. m - 1 : h[n] = g[n]
      BY <2>2
    <3>4. \A n \in 0 .. m - 1 : g[n] = IF n = 0 THEN <<>> ELSE Collect(g[n - 1], s, n - 1)
      BY <3>2, Zenon
    <3>5. \A n \in 0 .. m : h[n] = IF n = 0 THEN <<>> ELSE Collect(h[n - 1], s, n - 1)
      BY <2>2, <2>4, <3>3, <3>4
    <3>6. P(h, m)
      BY <3>5, Zenon
    <3> QED
      BY <2>2, <3>6, Zenon
  <2> QED
    BY <2>3, <2>4, Zenon
<1>2. \E g : P(g, MaxVarCount)
  BY <1>1, LimitsAssumption, Zenon
<1>3. P(CHOOSE g : P(g, MaxVarCount), MaxVarCount)
  BY <1>2, Zenon
<1>4. Collected(s) = CHOOSE g : P(g, MaxVarCount)
  BY Zenon DEF Collected
<1> QED
  BY <1>3, <1>4, Zenon

\* The slots before n that are kept.
KeptSlots(s, n) == {i \in Occupied(s) : i < n /\ "NV" \in s.slots[i].attrs}

\* A list of exactly the variables in those slots, no two with the same name
\* when that is so of the table.
Gathers(list, s, n) ==
    /\ list \in Seq(Variable) /\ Len(list) <= n
    /\ \A e \in 1 .. Len(list) :
           \E i \in KeptSlots(s, n) : list[e] = variable_copy(s.slots[i])
    /\ \A i \in KeptSlots(s, n) :
           \E e \in 1 .. Len(list) : list[e] = variable_copy(s.slots[i])
    /\ KeysDiffer(s) => \A e, g \in 1 .. Len(list) : list[e].key = list[g].key => e = g

\* A copy is a variable with the same name, data and attributes.
LEMMA CopyFields ==
    ASSUME NEW v \in Variable
    PROVE  LET c == variable_copy(v)
           IN  c \in Variable /\ c.key = v.key /\ c.data = v.data /\ c.attrs = v.attrs
  BY Zenon DEF variable_copy, Variable

\* One more slot.
LEMMA CollectStep ==
    ASSUME NEW s, TableOK(s), NEW n \in Slots, NEW list, Gathers(list, s, n)
    PROVE  Gathers(Collect(list, s, n), s, n + 1)
<1>0. n \in Nat /\ Slots \subseteq Nat /\ Occupied(s) \subseteq Slots
  BY LimitsAssumption DEF Slots, Occupied
<1>1. \A i \in Slots : s.slots[i] \in Variable
  BY Zenon DEF TableOK, Table
<1>5. \A i \in Occupied(s) : (i < n + 1 <=> i < n \/ i = n) /\ ~(n < n)
  <2>1. \A i \in Nat : (i < n + 1 <=> i < n \/ i = n) /\ ~(n < n)
    BY <1>0
  <2> QED
    BY <1>0, <2>1, Zenon
<1>2. CASE ~(n \in Occupied(s) /\ "NV" \in s.slots[n].attrs)
  <2>1. Collect(list, s, n) = list
    BY <1>2, Zenon DEF Collect
  <2>2. KeptSlots(s, n + 1) = KeptSlots(s, n)
    BY <1>2, <1>5, Zenon DEF KeptSlots
  <2>3. Len(list) <= n + 1
    BY <1>0 DEF Gathers
  <2> QED
    BY <2>1, <2>2, <2>3 DEF Gathers
<1>3. CASE n \in Occupied(s) /\ "NV" \in s.slots[n].attrs
  <2> DEFINE c == variable_copy(s.slots[n])
             new == Append(list, c)
             L == Len(list)
  <2>1. Collect(list, s, n) = new
    BY <1>3, Zenon DEF Collect
  <2>2. c \in Variable /\ c.key = s.slots[n].key
    BY <1>1, CopyFields, Zenon
  <2>3. KeptSlots(s, n + 1) = KeptSlots(s, n) \cup {n}
    BY <1>3, <1>5, Zenon DEF KeptSlots
  <2> HIDE DEF c
  <2>4. list \in Seq(Variable) /\ L \in Nat /\ L <= n
    BY DEF Gathers
  <2>5. /\ new \in Seq(Variable) /\ Len(new) = L + 1
        /\ \A e \in 1 .. L : new[e] = list[e]
        /\ new[L + 1] = c
    BY <2>2, <2>4
  <2> HIDE DEF new, L
  <2>6. \A e \in 1 .. L : \E i \in KeptSlots(s, n) : list[e] = variable_copy(s.slots[i])
    BY Zenon DEF Gathers, L
  <2>7. \A e \in 1 .. L + 1 : e \in 1 .. L \/ e = L + 1
    BY <2>4
  <2>8. \A e \in 1 .. L + 1 : \E i \in KeptSlots(s, n + 1) : new[e] = variable_copy(s.slots[i])
    BY <2>3, <2>5, <2>6, <2>7, Zenon DEF c
  <2>9. \A i \in KeptSlots(s, n + 1) : \E e \in 1 .. L + 1 : new[e] = variable_copy(s.slots[i])
    <3> SUFFICES ASSUME NEW i \in KeptSlots(s, n + 1)
                 PROVE  \E e \in 1 .. L + 1 : new[e] = variable_copy(s.slots[i])
      BY Zenon
    <3>1. CASE i = n
      BY <2>4, <2>5, <3>1 DEF c
    <3>2. CASE i # n
      <4>1. PICK e \in 1 .. L : list[e] = variable_copy(s.slots[i])
        BY <2>3, <3>2, Zenon DEF Gathers, L
      <4> QED
        BY <2>4, <2>5, <4>1
    <3> QED
      BY <3>1, <3>2, Zenon
  <2>10. ASSUME KeysDiffer(s) PROVE \A e \in 1 .. L : list[e].key # c.key
    <3> SUFFICES ASSUME NEW e \in 1 .. L, list[e].key = c.key PROVE FALSE
      BY Zenon
    <3>1. PICK i \in KeptSlots(s, n) : list[e] = variable_copy(s.slots[i])
      BY <2>6, Zenon
    <3>2. i \in Occupied(s) /\ i \in Slots /\ i < n /\ i \in Nat
      BY <1>0, <3>1, Zenon DEF KeptSlots
    <3>3. s.slots[i].key = s.slots[n].key
      BY <1>1, <2>2, <3>1, <3>2, CopyFields
    <3>4. i = n
      BY <1>3, <2>10, <3>2, <3>3, Zenon DEF KeysDiffer
    <3> QED
      BY <1>0, <3>2, <3>4
  <2>11. ASSUME KeysDiffer(s) PROVE \A e, g \in 1 .. L + 1 : new[e].key = new[g].key => e = g
    <3>1. \A e, g \in 1 .. L : list[e].key = list[g].key => e = g
      BY <2>11, Zenon DEF Gathers, L
    <3> QED
      BY <2>11, <2>5, <2>7, <2>10, <3>1, Zenon
  <2>12. Len(new) <= n + 1
    BY <1>0, <2>4, <2>5
  <2>13. Gathers(new, s, n + 1)
    BY <2>5, <2>8, <2>9, <2>11, <2>12, Zenon DEF Gathers
  <2> QED
    BY <2>1, <2>13, Zenon
<1> QED
  BY <1>2, <1>3, Zenon

\* What retrieve_nonvolatile_vars returns: the last slot is not looked at.
LEMMA CollectedList ==
    ASSUME NEW s, TableOK(s)
    PROVE  Gathers(retrieve_nonvolatile_vars(s), s, MaxVarCount - 1)
<1> DEFINE f == Collected(s)
           M == MaxVarCount
<1>1. M \in Nat /\ M >= 1 /\ Slots = 0 .. M - 1
  BY LimitsAssumption DEF Slots
<1>2. f[0] = <<>> /\ \A n \in 1 .. M : f[n] = Collect(f[n - 1], s, n - 1)
  <2>1. f = [n \in 0 .. M |-> IF n = 0 THEN <<>> ELSE Collect(f[n - 1], s, n - 1)]
    BY CollectedUnfolds, Zenon
  <2> HIDE DEF f, M
  <2> QED
    BY <1>1, <2>1
<1> HIDE DEF f, M
<1> DEFINE Bad == {n \in 0 .. M : ~Gathers(f[n], s, n)}
<1>3. Gathers(f[0], s, 0)
  <2>1. <<>> \in Seq(Variable) /\ Len(<<>>) = 0
    OBVIOUS
  <2>2. KeptSlots(s, 0) = {}
    BY <1>1 DEF KeptSlots, Occupied
  <2> QED
    BY <1>2, <2>1, <2>2 DEF Gathers
<1>4. Bad = {}
  <2> SUFFICES ASSUME Bad # {} PROVE FALSE
    BY Zenon
  <2>1. Bad \in SUBSET Nat
    BY <1>1
  <2> DEFINE m == Min(Bad)
  <2>2. m \in Bad /\ \A j \in Bad : m <= j
    <3> HIDE DEF Bad
    <3> QED
      BY <2>1, MinIsSmallest, Zenon
  <2> HIDE DEF m
  <2>3. m \in 0 .. M /\ ~Gathers(f[m], s, m)
    BY <2>2, Zenon
  <2>4. m \in 1 .. M /\ m - 1 \in 0 .. M /\ m - 1 \in Slots /\ (m - 1) + 1 = m
    <3>1. m # 0
      BY <1>3, <2>3, Zenon
    <3> QED
      BY <1>1, <2>3, <3>1
  <2>5. m - 1 \notin Bad
    <3> HIDE DEF Bad
    <3> QED
      BY <2>2, <2>4
  <2>6. Gathers(f[m - 1], s, m - 1)
    BY <2>4, <2>5, Zenon
  <2>7. Gathers(Collect(f[m - 1], s, m - 1), s, (m - 1) + 1)
    BY <2>4, <2>6, CollectStep, Zenon
  <2> QED
    BY <1>2, <2>3, <2>4, <2>7, Zenon
<1>5. M - 1 \in 0 .. M
  BY <1>1
<1>6. Gathers(f[M - 1], s, M - 1)
  BY <1>4, <1>5, Zenon
<1> QED
  BY <1>6, Zenon DEF retrieve_nonvolatile_vars, f, M

\* The entries of a list, and those of the slots that are kept.
Entries(list) == {<<list[i].key, list[i].data, list[i].attrs>> : i \in DOMAIN list}
KeptEntries(s) == {<<s.slots[i].key, s.slots[i].data, s.slots[i].attrs>> :
                      i \in KeptSlots(s, MaxVarCount - 1)}

\* A list of variables.
Variables(list) == list \in Seq(Variable) /\ \A e \in 1 .. Len(list) : list[e].key \in Keys

\* So the list has the entries of those slots, whatever their names.
LEMMA CollectedEntries ==
    ASSUME NEW s, TableOK(s)
    PROVE  LET list == retrieve_nonvolatile_vars(s)
           IN  Variables(list) /\ Entries(list) = KeptEntries(s)
<1> DEFINE list == retrieve_nonvolatile_vars(s)
           M == MaxVarCount - 1
<1>1. Gathers(list, s, M)
  BY CollectedList, Zenon
<1> HIDE DEF list
<1>2. ASSUME NEW i \in KeptSlots(s, M)
      PROVE  LET c == variable_copy(s.slots[i])
             IN  /\ c.key \in Keys /\ c.key = s.slots[i].key
                 /\ c.data = s.slots[i].data /\ c.attrs = s.slots[i].attrs
  <2>1. i \in Slots /\ s.slots[i].key # NoKey
    BY <1>2, Zenon DEF KeptSlots, Occupied, variable_is_valid
  <2>2. s.slots[i] \in Variable
    BY <2>1, Zenon DEF TableOK, Table
  <2>3. s.slots[i].key \in Keys
    BY <2>1, <2>2, Zenon DEF Variable
  <2> QED
    BY <2>2, <2>3, CopyFields, Zenon
<1>3. list \in Seq(Variable) /\ Len(list) \in Nat /\ DOMAIN list = 1 .. Len(list)
  BY <1>1 DEF Gathers
<1>4. ASSUME NEW e \in 1 .. Len(list)
      PROVE  \E i \in KeptSlots(s, M) : list[e] = variable_copy(s.slots[i])
  BY <1>1, <1>4, Zenon DEF Gathers
<1>5. Variables(list)
  BY <1>2, <1>3, <1>4, Zenon DEF Variables
<1>6. Entries(list) \subseteq KeptEntries(s)
  <2> SUFFICES ASSUME NEW e \in 1 .. Len(list)
               PROVE  <<list[e].key, list[e].data, list[e].attrs>> \in KeptEntries(s)
    BY <1>3, Zenon DEF Entries
  <2>1. PICK i \in KeptSlots(s, M) : list[e] = variable_copy(s.slots[i])
    BY <1>4, Zenon
  <2>2. /\ list[e].key = s.slots[i].key /\ list[e].data = s.slots[i].data
        /\ list[e].attrs = s.slots[i].attrs
    BY <1>2, <2>1, Zenon
  <2> QED
    BY <2>2, Zenon DEF KeptEntries
<1>7. KeptEntries(s) \subseteq Entries(list)
  <2> SUFFICES ASSUME NEW i \in KeptSlots(s, M)
               PROVE  <<s.slots[i].key, s.slots[i].data, s.slots[i].attrs>> \in Entries(list)
    BY Zenon DEF KeptEntries
  <2>1. PICK e \in 1 .. Len(list) : list[e] = variable_copy(s.slots[i])
    BY <1>1, Zenon DEF Gathers
  <2>2. /\ list[e].key = s.slots[i].key /\ list[e].data = s.slots[i].data
        /\ list[e].attrs = s.slots[i].attrs
    BY <1>2, <2>1, Zenon
  <2> QED
    BY <1>3, <2>1, <2>2, Zenon DEF Entries
<1> QED
  BY <1>5, <1>6, <1>7, Zenon DEF list

-----------------------------------------------------------------------------
(***************************************************************************)
(* Restoring what was kept                                                 *)
(***************************************************************************)
\* The loop of xapi_init, unfolded.
LEMMA RestoredUnfolds ==
    ASSUME NEW list, Len(list) \in Nat
    PROVE  Restored(list) = [n \in 0 .. Len(list) |->
               IF n = 0 THEN Result("SUCCESS", EmptyTable) ELSE Restore(Restored(list)[n - 1], list[n])]
<1> DEFINE P(g, m) == g = [n \in 0 .. m |->
                              IF n = 0 THEN Result("SUCCESS", EmptyTable) ELSE Restore(g[n - 1], list[n])]
           Bad == {m \in Nat : ~\E g : P(g, m)}
<1>1. Bad = {}
  <2> SUFFICES ASSUME Bad # {} PROVE FALSE
    BY Zenon
  <2> DEFINE m == Min(Bad)
  <2>1. m \in Bad /\ \A j \in Bad : m <= j
    <3>1. Bad \in SUBSET Nat
      BY Zenon
    <3> HIDE DEF Bad
    <3> QED
      BY <3>1, MinIsSmallest, Zenon
  <2> HIDE DEF m
  <2>2. m \in Nat /\ ~\E g : P(g, m)
    BY <2>1, Zenon
  <2>3. CASE m = 0
    <3>1. P([n \in 0 .. 0 |-> Result("SUCCESS", EmptyTable)], 0)
      OBVIOUS
    <3> QED
      BY <2>2, <2>3, <3>1, Zenon
  <2>4. CASE m # 0
    <3>1. m - 1 \in Nat /\ m - 1 \notin Bad
      <4> HIDE DEF Bad
      <4> QED
        BY <2>1, <2>2, <2>4
    <3>2. PICK g : P(g, m - 1)
      BY <3>1, Zenon
    <3> DEFINE h == [n \in 0 .. m |-> IF n = m THEN Restore(g[m - 1], list[m]) ELSE g[n]]
    <3>3. \A n \in 0 .. m - 1 : h[n] = g[n]
      BY <2>2
    <3>4. \A n \in 0 .. m - 1 : g[n] = IF n = 0 THEN Result("SUCCESS", EmptyTable) ELSE Restore(g[n - 1], list[n])
      BY <3>2, Zenon
    <3>5. \A n \in 0 .. m : h[n] = IF n = 0 THEN Result("SUCCESS", EmptyTable) ELSE Restore(h[n - 1], list[n])
      BY <2>2, <2>4, <3>3, <3>4
    <3>6. P(h, m)
      BY <3>5, Zenon
    <3> QED
      BY <2>2, <3>6, Zenon
  <2> QED
    BY <2>3, <2>4, Zenon
<1>2. \E g : P(g, Len(list))
  BY <1>1, Zenon
<1>3. P(CHOOSE g : P(g, Len(list)), Len(list))
  BY <1>2, Zenon
<1>4. Restored(list) = CHOOSE g : P(g, Len(list))
  BY Zenon DEF Restored
<1> QED
  BY <1>3, <1>4, Zenon

\* A list that a start can restore.
Restorable(list) ==
    /\ list \in Seq(Variable) /\ Len(list) <= MaxVarCount - 1
    /\ \A e \in 1 .. Len(list) : Loadable(list[e])
    /\ \A e, g \in 1 .. Len(list) : list[e].key = list[g].key => e = g

\* The table with the first n variables of the list, in its first n slots.
Filled(s, list, n) ==
    /\ Sound(s) /\ Occupied(s) = 0 .. n - 1
    /\ \A e \in 1 .. n : /\ s.slots[e - 1].key = list[e].key
                         /\ s.slots[e - 1].data = list[e].data
                         /\ s.slots[e - 1].attrs = list[e].attrs

\* RestoreVariable keeps a table sound.
LEMMA RestoreSound ==
    ASSUME NEW s, Sound(s), NEW v, Loadable(v)
    PROVE  Sound(RestoreVariable(s, v).s)
<1> DEFINE k == v.key
           data == v.data
           attrs == v.attrs
           ts == v.timestamp
<1>1. k \in Keys /\ data \in Seq(Atoms) /\ attrs \in SUBSET Attrs /\ ts \in Nat
  BY Zenon DEF Loadable, Listed, Variable
<1>2. RestoreVariable(s, v) = IF "AT" \in attrs
                              THEN storage_set_with_timestamp(s, Plain(k), data, attrs, ts)
                              ELSE storage_set(s, Plain(k), data, attrs)
  BY Zenon DEF RestoreVariable
<1> HIDE DEF k, data, attrs, ts
<1>3. CASE "AT" \in attrs
  BY <1>1, <1>2, <1>3, SetStamped
<1>4. CASE "AT" \notin attrs
  BY <1>1, <1>2, <1>4, SetVar
<1> QED
  BY <1>3, <1>4, Zenon

\* One more variable.
LEMMA RestoreStep ==
    ASSUME NEW list, Restorable(list), NEW m \in Nat, m < Len(list), NEW s, Filled(s, list, m)
    PROVE  LET r == RestoreVariable(s, list[m + 1])
           IN  r.st = "SUCCESS" /\ Filled(r.s, list, m + 1)
<1> DEFINE v == list[m + 1]
           r == RestoreVariable(s, v)
<1>1. Len(list) \in Nat /\ m + 1 \in 1 .. Len(list) /\ m < MaxVarCount - 1 /\ MaxVarCount \in Nat
  BY LimitsAssumption DEF Restorable
<1>2. Loadable(v)
  BY <1>1, Zenon DEF Restorable
<1>3. Occupied(s) = 0 .. m - 1
  BY Zenon DEF Filled
<1>4. ASSUME NEW i \in Occupied(s) PROVE s.slots[i].key # v.key
  <2>1. i + 1 \in 1 .. m /\ i + 1 \in 1 .. Len(list) /\ i + 1 # m + 1 /\ (i + 1) - 1 = i
    BY <1>1, <1>3, <1>4
  <2>2. s.slots[i].key = list[i + 1].key
    BY <2>1 DEF Filled
  <2> QED
    BY <1>1, <2>1, <2>2, Zenon DEF Restorable
<1>5. Ready(s, m, v)
  BY <1>1, <1>3, <1>4, Zenon DEF Ready
<1>6. TableOK(s) /\ Sound(s)
  BY Zenon DEF Filled, Sound
<1> HIDE DEF v
<1>7. r.st = "SUCCESS" /\ Placed(s, r.s, m, v)
  BY <1>2, <1>5, <1>6, RestorePlaces, Zenon
<1>8. Sound(r.s)
  BY <1>2, <1>6, RestoreSound, Zenon
<1> HIDE DEF r
<1>9. \A i \in Slots : i \in Occupied(r.s) <=> i \in Occupied(s) \/ i = m
  <2>1. r.s.slots[m].key # NoKey
    BY <1>2, <1>7, KeysAssumption, Zenon DEF Placed, Loadable, Listed
  <2> QED
    BY <1>7, <2>1, Zenon DEF Placed, Occupied, variable_is_valid
<1>10. Occupied(r.s) = 0 .. m
  <2>1. Slots = 0 .. MaxVarCount - 1 /\ Occupied(r.s) \subseteq Slots
    BY Zenon DEF Slots, Occupied
  <2>2. \A i \in Slots : i \in Occupied(s) \/ i = m <=> i \in 0 .. m
    BY <1>1, <1>3, <2>1
  <2>3. 0 .. m \subseteq Slots
    BY <1>1, <2>1
  <2> QED
    BY <1>9, <2>1, <2>2, <2>3, Zenon
<1>11. ASSUME NEW e \in 1 .. m + 1
       PROVE  /\ r.s.slots[e - 1].key = list[e].key /\ r.s.slots[e - 1].data = list[e].data
              /\ r.s.slots[e - 1].attrs = list[e].attrs
  <2>1. CASE e = m + 1
    BY <1>7, <2>1 DEF Placed, v
  <2>2. CASE e # m + 1
    <3>1. e \in 1 .. m /\ e - 1 \in Slots /\ e - 1 # m
      BY <1>1, <1>11, <2>2 DEF Slots
    <3> QED
      BY <1>7, <3>1, Zenon DEF Placed, Filled
  <2> QED
    BY <2>1, <2>2, Zenon
<1>12. (m + 1) - 1 = m
  OBVIOUS
<1> QED
  BY <1>7, <1>8, <1>10, <1>11, <1>12, Zenon DEF Filled, r, v

\* So a start restores the whole list.
LEMMA RestoredAll ==
    ASSUME NEW list, Restorable(list)
    PROVE  LET r == Restored(list)[Len(list)]
           IN  r.st = "SUCCESS" /\ Filled(r.s, list, Len(list))
<1> DEFINE f == Restored(list)
           L == Len(list)
           Good(n) == f[n].st = "SUCCESS" /\ Filled(f[n].s, list, n)
           Bad == {n \in 0 .. L : ~Good(n)}
<1>1. L \in Nat
  BY DEF Restorable
<1>2. f[0] = Result("SUCCESS", EmptyTable) /\ \A n \in 1 .. L : f[n] = Restore(f[n - 1], list[n])
  <2>1. f = [n \in 0 .. L |->
               IF n = 0 THEN Result("SUCCESS", EmptyTable) ELSE Restore(f[n - 1], list[n])]
    BY <1>1, RestoredUnfolds, Zenon
  <2> HIDE DEF f, L
  <2> QED
    BY <1>1, <2>1
<1> HIDE DEF f, L
<1>3. Good(0)
  <2>1. f[0].st = "SUCCESS" /\ f[0].s = EmptyTable
    BY <1>2 DEF Result
  <2>2. Occupied(EmptyTable) = {}
    BY FreeSlotType, Zenon DEF Occupied, EmptyTable, variable_is_valid
  <2>3. 0 .. 0 - 1 = {} /\ 1 .. 0 = {}
    OBVIOUS
  <2> QED
    BY <2>1, <2>2, <2>3, EmptyTableOK, Zenon DEF Filled, Sound
<1> HIDE DEF Good
<1>4. Bad = {}
  <2> SUFFICES ASSUME Bad # {} PROVE FALSE
    BY Zenon
  <2>1. Bad \in SUBSET Nat
    BY <1>1
  <2> DEFINE m == Min(Bad)
  <2>2. m \in Bad /\ \A j \in Bad : m <= j
    <3> HIDE DEF Bad
    <3> QED
      BY <2>1, MinIsSmallest, Zenon
  <2> HIDE DEF m
  <2>3. m \in 0 .. L /\ ~Good(m)
    BY <2>2, Zenon
  <2>4. m \in 1 .. L /\ m - 1 \in 0 .. L /\ m - 1 \in Nat /\ m - 1 < L /\ (m - 1) + 1 = m
    <3>1. m # 0
      BY <1>3, <2>3, Zenon
    <3> QED
      BY <1>1, <2>3, <3>1
  <2>5. m - 1 \notin Bad
    <3> HIDE DEF Bad
    <3> QED
      BY <2>2, <2>4
  <2>6. Good(m - 1)
    BY <2>4, <2>5, Zenon
  <2>7. f[m] = RestoreVariable(f[m - 1].s, list[m])
    BY <1>2, <2>4, <2>6, Zenon DEF Good, Restore
  <2>8. LET r == RestoreVariable(f[m - 1].s, list[(m - 1) + 1])
        IN  r.st = "SUCCESS" /\ Filled(r.s, list, (m - 1) + 1)
    BY <2>4, <2>6, RestoreStep, Zenon DEF Good, L
  <2>9. Good(m)
    BY <2>4, <2>7, <2>8, Zenon DEF Good
  <2> QED
    BY <2>3, <2>9, Zenon
<1>5. Good(L)
  BY <1>1, <1>4
<1> QED
  BY <1>5, Zenon DEF Good, f, L

-----------------------------------------------------------------------------
(***************************************************************************)
(* Loading the host's certificates                                         *)
(***************************************************************************)
\* The loop over the files, unfolded.
LEMMA LoadedUnfolds ==
    ASSUME NEW p, NEW files, Len(files) \in Nat, NEW read
    PROVE  LET f == Loaded(p, files, read)
           IN  /\ f[0] = Outcome("SUCCESS", p)
               /\ \A n \in 1 .. Len(files) : f[n] = LoadFile(f[n - 1], files[n], n \in read)
<1> DEFINE P(g, m) == g = [n \in 0 .. m |->
                              IF n = 0 THEN Outcome("SUCCESS", p) ELSE LoadFile(g[n - 1], files[n], n \in read)]
           Bad == {m \in Nat : ~\E g : P(g, m)}
<1>1. Bad = {}
  <2> SUFFICES ASSUME Bad # {} PROVE FALSE
    BY Zenon
  <2> DEFINE m == Min(Bad)
  <2>1. m \in Bad /\ \A j \in Bad : m <= j
    <3>1. Bad \in SUBSET Nat
      BY Zenon
    <3> HIDE DEF Bad
    <3> QED
      BY <3>1, MinIsSmallest, Zenon
  <2> HIDE DEF m
  <2>2. m \in Nat /\ ~\E g : P(g, m)
    BY <2>1, Zenon
  <2>3. CASE m = 0
    <3>1. P([n \in 0 .. 0 |-> Outcome("SUCCESS", p)], 0)
      OBVIOUS
    <3> QED
      BY <2>2, <2>3, <3>1, Zenon
  <2>4. CASE m # 0
    <3>1. m - 1 \in Nat /\ m - 1 \notin Bad
      <4> HIDE DEF Bad
      <4> QED
        BY <2>1, <2>2, <2>4
    <3>2. PICK g : P(g, m - 1)
      BY <3>1, Zenon
    <3> DEFINE h == [n \in 0 .. m |-> IF n = m THEN LoadFile(g[m - 1], files[m], m \in read) ELSE g[n]]
    <3>3. \A n \in 0 .. m - 1 : h[n] = g[n]
      BY <2>2
    <3>4. \A n \in 0 .. m - 1 : g[n] = IF n = 0 THEN Outcome("SUCCESS", p) ELSE LoadFile(g[n - 1], files[n], n \in read)
      BY <3>2, Zenon
    <3>5. \A n \in 0 .. m : h[n] = IF n = 0 THEN Outcome("SUCCESS", p) ELSE LoadFile(h[n - 1], files[n], n \in read)
      BY <2>2, <2>4, <3>3, <3>4
    <3>6. P(h, m)
      BY <3>5, Zenon
    <3> QED
      BY <2>2, <3>6, Zenon
  <2> QED
    BY <2>3, <2>4, Zenon
<1>2. \E g : P(g, Len(files))
  BY <1>1, Zenon
<1>3. P(CHOOSE g : P(g, Len(files)), Len(files))
  BY <1>2, Zenon
<1>4. Loaded(p, files, read) = CHOOSE g : P(g, Len(files))
  BY Zenon DEF Loaded
<1> DEFINE f == Loaded(p, files, read)
<1>5. f = [n \in 0 .. Len(files) |->
             IF n = 0 THEN Outcome("SUCCESS", p) ELSE LoadFile(f[n - 1], files[n], n \in read)]
  BY <1>3, <1>4, Zenon
<1> HIDE DEF f
<1>6. /\ f[0] = Outcome("SUCCESS", p)
      /\ \A n \in 1 .. Len(files) : f[n] = LoadFile(f[n - 1], files[n], n \in read)
  BY <1>5
<1> QED
  BY <1>6, Zenon DEF f


\* A file with a write of k in it.
Brings(f, k) == ~f.empty /\ f.write.key = k

\* What loading the first n files has made of p.
LoadInv(p, q, files, read, n) ==
    /\ Whole(q) /\ q.sb = p.sb
    /\ NamesFit(p.s) => NamesFit(q.s)
    /\ UserHasPK(p) => UserHasPK(q)
    /\ \A j \in Keys \ ModeVars : Known(p.s, j) => Same(p.s, q.s, j)
    /\ \A j \in ModeKeys \ ModeVars : Same(p.s, q.s, j)
    /\ \A i \in 1 .. n : i \in read /\ Brings(files[i], KEK) => Known(q.s, KEK)
    /\ Known(q.s, PK) /\ ~Known(p.s, PK) =>
           \E i \in 1 .. n : i \in read /\ Brings(files[i], PK)

\* Files as the daemon finds them.
Files(files) ==
    /\ files \in Seq(AuthFile)
    /\ \A i \in DOMAIN files : files[i].write \in PlainRequest /\ files[i].write.key \in Anchors

\* One more file.
LEMMA LoadStep ==
    ASSUME NEW p, NEW files, Files(files), NEW read, NEW m \in 1 .. Len(files), NEW o,
           LoadInv(p, o.p, files, read, m - 1), LoadFile(o, files[m], m \in read).st = "SUCCESS"
    PROVE  LoadInv(p, LoadFile(o, files[m], m \in read).p, files, read, m)
<1> DEFINE f == files[m]
           r == f.write
           q == o.p
           skip == o.st # "SUCCESS" \/ Known(q.s, r.key) \/ m \notin read \/ f.empty
           x == auth_lib_process_variable(q, r)
           l == LoadFile(o, f, m \in read)
<1>1. m \in Nat /\ \A i \in 1 .. m : i \in 1 .. m - 1 \/ i = m
  OBVIOUS
<1>2. r \in PlainRequest /\ r.key \in Anchors /\ r.key \in Keys
  <2>1. r \in PlainRequest /\ r.key \in Anchors
    BY DEF Files
  <2> QED
    BY <2>1, RequestFields, Zenon
<1>3. l = IF skip THEN o ELSE x
  BY <1>2, PlainlyNamed, Zenon DEF LoadFile, Known
<1>4. Whole(q)
  BY Zenon DEF LoadInv
<1> HIDE DEF x, l, q, r, f
<1>5. CASE skip
  <2>1. l = o
    BY <1>3, <1>5, Zenon
  <2>2. o.st = "SUCCESS"
    BY <2>1, Zenon DEF l, f
  <2>3. m \in read /\ Brings(f, KEK) => Known(q.s, KEK)
    BY <1>5, <2>2, Zenon DEF Brings, r
  <2>4. \A i \in 1 .. m : i \in read /\ Brings(files[i], KEK) => Known(q.s, KEK)
    BY <1>1, <2>3, Zenon DEF LoadInv, q, f
  <2>5. \A i \in 1 .. m - 1 : i \in 1 .. m
    BY <1>1
  <2>6. LoadInv(p, q, files, read, m)
    BY <2>4, <2>5, Zenon DEF LoadInv, q
  <2> QED
    BY <2>1, <2>6, Zenon DEF l, q, f
<1>6. CASE ~skip
  <2>1. l = x /\ ~Known(q.s, r.key) /\ m \in read /\ ~f.empty
    BY <1>3, <1>6, Zenon
  <2>2. r.key \notin ModeKeys /\ r.key \notin ModeVars
    BY <1>2, ModeNames, Zenon DEF Anchors
  <2>3. /\ Done(q, x, r)
        /\ r.key \in {PK, KEK} /\ x.st = "SUCCESS" /\ ~Known(q.s, r.key) => Known(x.p.s, r.key)
    BY <1>2, <1>4, <2>2, AuthDone, Zenon DEF Whole, x
  <2>4. Frame(q, x, r) /\ (UserHasPK(q) => UserHasPK(x.p)) /\ x.st = "SUCCESS"
    BY <2>1, <2>3, Zenon DEF Done, Writes, l, f
  <2>5. Whole(x.p) /\ x.p.sb = p.sb
    BY <2>4, Zenon DEF Frame, Whole, LoadInv, q
  <2>6. NamesFit(p.s) => NamesFit(x.p.s)
    BY <2>4, Zenon DEF Frame, LoadInv, q
  <2>7. \A j \in Keys : j # r.key /\ j \notin ModeVars => Same(q.s, x.p.s, j)
    BY <2>4, Zenon DEF Frame
  <2>8. \A j \in Keys \ ModeVars : Known(p.s, j) => Same(p.s, x.p.s, j)
    <3> SUFFICES ASSUME NEW j \in Keys \ ModeVars, Known(p.s, j) PROVE Same(p.s, x.p.s, j)
      BY Zenon
    <3>1. Same(p.s, q.s, j)
      BY Zenon DEF LoadInv, q
    <3>2. j # r.key
      BY <2>1, <3>1, Zenon DEF Same
    <3> QED
      BY <2>7, <3>1, <3>2, SameTwice, Zenon
  <2>9. \A j \in ModeKeys \ ModeVars : Same(p.s, x.p.s, j)
    <3>1. ModeKeys \subseteq Keys
      BY AuthAssumption, Zenon
    <3>2. \A j \in ModeKeys \ ModeVars : Same(p.s, q.s, j)
      BY Zenon DEF LoadInv, q
    <3> QED
      BY <2>2, <2>7, <3>1, <3>2, SameTwice, Zenon
  <2>10. \A i \in 1 .. m : i \in read /\ Brings(files[i], KEK) => Known(x.p.s, KEK)
    <3>1. CASE r.key = KEK
      BY <2>1, <2>3, <2>4, <3>1, Zenon
    <3>2. CASE r.key # KEK
      <4>1. Same(q.s, x.p.s, KEK)
        BY <2>7, <3>2, ModeNames, Zenon
      <4>2. \A i \in 1 .. m - 1 : i \in read /\ Brings(files[i], KEK) => Known(q.s, KEK)
        BY Zenon DEF LoadInv, q
      <4> QED
        BY <1>1, <3>2, <4>1, <4>2, Zenon DEF Same, Brings, r, f
    <3> QED
      BY <3>1, <3>2, Zenon
  <2>11. Known(x.p.s, PK) /\ ~Known(p.s, PK) => \E i \in 1 .. m : i \in read /\ Brings(files[i], PK)
    <3>1. CASE r.key = PK
      BY <1>1, <2>1, <3>1 DEF Brings, r, f
    <3>2. CASE r.key # PK
      <4>1. Same(q.s, x.p.s, PK)
        BY <2>7, <3>2, ModeNames, Zenon
      <4>2. \A i \in 1 .. m - 1 : i \in 1 .. m
        BY <1>1
      <4> QED
        BY <4>1, <4>2, Zenon DEF Same, LoadInv, q
    <3> QED
      BY <3>1, <3>2, Zenon
  <2>12. UserHasPK(p) => UserHasPK(x.p)
    BY <2>4, Zenon DEF LoadInv, q
  <2>13. LoadInv(p, x.p, files, read, m)
    BY <2>5, <2>6, <2>8, <2>9, <2>10, <2>11, <2>12, Zenon DEF LoadInv
  <2> QED
    BY <2>1, <2>13, Zenon DEF l, f
<1> QED
  BY <1>5, <1>6, Zenon

\* All files.
LEMMA LoadedAll ==
    ASSUME NEW p, Whole(p), NEW files, Files(files), NEW read,
           load_auth_files(p, files, read).st = "SUCCESS"
    PROVE  LoadInv(p, load_auth_files(p, files, read).p, files, read, Len(files))
<1> DEFINE f == Loaded(p, files, read)
           L == Len(files)
           Good(n) == f[n].st = "SUCCESS" => LoadInv(p, f[n].p, files, read, n)
           Bad == {n \in 0 .. L : ~Good(n)}
<1>1. L \in Nat
  BY DEF Files
<1>2. /\ f[0] = Outcome("SUCCESS", p)
      /\ \A n \in 1 .. L : f[n] = LoadFile(f[n - 1], files[n], n \in read)
  BY <1>1, LoadedUnfolds, Zenon
<1> HIDE DEF f, L
<1>3. Good(0)
  <2>1. f[0].p = p
    BY <1>2 DEF Outcome
  <2>2. LoadInv(p, p, files, read, 0)
    <3>1. 1 .. 0 = {} /\ \A j : Same(p.s, p.s, j)
      BY DEF Same
    <3> QED
      BY <3>1, Zenon DEF LoadInv
  <2> QED
    BY <2>1, <2>2, Zenon
<1> HIDE DEF Good
<1>4. Bad = {}
  <2> SUFFICES ASSUME Bad # {} PROVE FALSE
    BY Zenon
  <2>1. Bad \in SUBSET Nat
    BY <1>1
  <2> DEFINE m == Min(Bad)
  <2>2. m \in Bad /\ \A j \in Bad : m <= j
    <3> HIDE DEF Bad
    <3> QED
      BY <2>1, MinIsSmallest, Zenon
  <2> HIDE DEF m
  <2>3. m \in 0 .. L /\ ~Good(m)
    BY <2>2, Zenon
  <2>4. m \in 1 .. L /\ m - 1 \in 0 .. L
    <3>1. m # 0
      BY <1>3, <2>3, Zenon
    <3> QED
      BY <1>1, <2>3, <3>1
  <2>5. m - 1 \notin Bad
    <3> HIDE DEF Bad
    <3> QED
      BY <2>2, <2>4
  <2>6. Good(m - 1)
    BY <2>4, <2>5, Zenon
  <2> DEFINE o == f[m - 1]
             l == LoadFile(o, files[m], m \in read)
  <2>7. f[m] = l /\ l.st = "SUCCESS"
    BY <1>2, <2>3, <2>4, Zenon DEF Good
  <2>8. o.st = "SUCCESS"
    BY <2>7, Zenon DEF LoadFile
  <2>9. LoadInv(p, o.p, files, read, m - 1)
    BY <2>6, <2>8, Zenon DEF Good
  <2>10. LoadInv(p, l.p, files, read, m)
    <3> HIDE DEF o
    <3> QED
      BY <2>4, <2>7, <2>9, LoadStep, Zenon DEF L
  <2> QED
    BY <2>3, <2>7, <2>10, Zenon DEF Good
<1>5. Good(L)
  BY <1>1, <1>4
<1> QED
  BY <1>5, Zenon DEF Good, f, L, load_auth_files

-----------------------------------------------------------------------------
(***************************************************************************)
(* auth_lib_initialize                                                     *)
(***************************************************************************)
\* What it makes of the restored platform p when it succeeds.
Initialized(p, q, files, read) ==
    /\ Whole(q) /\ q.sb = p.sb
    /\ NamesFit(p.s) => NamesFit(q.s)
    /\ UserHasPK(q) /\ SetupHasNone(q)
    /\ \A k \in ModeKeys : Held(q.s, k)
    /\ \A j \in Keys \ ModeKeys : Known(p.s, j) => Same(p.s, q.s, j)
    /\ \A i \in 1 .. Len(files) : i \in read /\ Brings(files[i], KEK) => Known(q.s, KEK)
    /\ Known(q.s, PK) /\ ~Known(p.s, PK) =>
           \E i \in 1 .. Len(files) : i \in read /\ Brings(files[i], PK)

\* After the files the mode follows the PK.
LEMMA ModeFollows ==
    ASSUME NEW q, Whole(q), UserHasPK(q), NEW d,
           d = IF storage_exists(q.s, Plain(PK)) THEN update_platform_mode(q, "USER")
               ELSE Outcome("SUCCESS", q),
           d.st = "SUCCESS"
    PROVE  /\ Whole(d.p) /\ d.p.sb = q.sb /\ UserHasPK(d.p) /\ SetupHasNone(d.p)
           /\ NamesFit(q.s) => NamesFit(d.p.s)
           /\ \A j \in Keys \ ModeVars : Same(q.s, d.p.s, j)
<1>1. PK \in Keys \ ModeVars
  BY ModeNames, Zenon
<1>2. CASE Known(q.s, PK)
  <2>1. SetsMode(q, d, "USER")
    BY <1>2, ModeUpdate, Zenon DEF Known, Whole
  <2>2. /\ Whole(d.p) /\ d.p.sb = q.sb /\ d.p.mode = "USER"
        /\ NamesFit(q.s) => NamesFit(d.p.s)
        /\ \A j \in Keys \ ModeVars : Same(q.s, d.p.s, j)
    BY <2>1, Zenon DEF SetsMode, Whole
  <2>3. Known(d.p.s, PK)
    BY <1>1, <1>2, <2>2, Zenon DEF Same
  <2> QED
    BY <2>2, <2>3, Zenon DEF UserHasPK, SetupHasNone
<1>3. CASE ~Known(q.s, PK)
  <2>1. d.p = q
    BY <1>3, Zenon DEF Known, Outcome
  <2>2. \A j : Same(q.s, q.s, j)
    BY Zenon DEF Same
  <2> QED
    BY <1>3, <2>1, <2>2, Zenon DEF SetupHasNone
<1> QED
  BY <1>2, <1>3, Zenon

\* auth_lib_initialize, when it succeeds, has done all its parts.
LEMMA InitializeAll ==
    ASSUME NEW p \in Platform, Sound(p.s), NEW files, Files(files), NEW read,
           auth_lib_initialize(p, files, read).st = "SUCCESS"
    PROVE  Initialized(p, auth_lib_initialize(p, files, read).p, files, read)
<1> DEFINE a == OnTable(p, storage_set(p.s, Plain(SignatureSupport), <<1>>, VolatileAttrs))
           b == update_platform_mode(a.p, "SETUP")
           c == load_auth_files(b.p, files, read)
           d == IF storage_exists(c.p.s, Plain(PK)) THEN update_platform_mode(c.p, "USER")
                ELSE Outcome("SUCCESS", c.p)
           e == OnTable(d.p, storage_set(d.p.s, Plain(AuditMode), <<0>>, VolatileAttrs))
           o == auth_lib_initialize(p, files, read)
<1>1. /\ a.st = "SUCCESS" /\ b.st = "SUCCESS" /\ c.st = "SUCCESS" /\ d.st = "SUCCESS"
      /\ e.st = "SUCCESS" /\ o = e
  BY Zenon DEF auth_lib_initialize, Then
<1>2. /\ SignatureSupport \in Keys /\ AuditMode \in Keys /\ SignatureSupport # AuditMode
      /\ SignatureSupport \notin ModeVars /\ AuditMode \notin ModeVars
      /\ ModeKeys = ModeVars \cup {SignatureSupport, AuditMode}
      /\ ModeKeys \subseteq Keys
  BY AuthAssumption, Zenon DEF ModeVars, ModeKeys
<1>3. /\ <<0>> \in Seq(Atoms) /\ <<0>> # <<>> /\ Len(<<0>>) <= MaxDataSize
      /\ <<1>> \in Seq(Atoms) /\ <<1>> # <<>> /\ Len(<<1>>) <= MaxDataSize
  <2>1. Flag(FALSE) = <<0>> /\ Flag(TRUE) = <<1>>
    BY Zenon DEF Flag
  <2> QED
    BY <2>1, FlagType, Zenon
<1>4. Tells(p, a, SignatureSupport, <<1>>)
  BY <1>2, <1>3, TellVar, Zenon
<1>5. /\ a.p \in Platform /\ Sound(a.p.s) /\ a.p.sb = p.sb /\ Held(a.p.s, SignatureSupport)
      /\ \A j \in Keys : j # SignatureSupport => Same(p.s, a.p.s, j)
      /\ NamesFit(p.s) => NamesFit(a.p.s)
  <2> HIDE DEF a
  <2> QED
    BY <1>1, <1>4, Zenon DEF Tells, Told
<1> HIDE DEF a
<1>6. SetsMode(a.p, b, "SETUP")
  BY <1>5, ModeUpdate, Zenon
<1> HIDE DEF b
<1>7. /\ Whole(b.p) /\ b.p.sb = p.sb /\ UserHasPK(b.p)
      /\ \A j \in Keys \ ModeVars : Same(a.p.s, b.p.s, j)
      /\ NamesFit(p.s) => NamesFit(b.p.s)
  BY <1>1, <1>5, <1>6, Zenon DEF SetsMode, Whole, UserHasPK
<1>8. LoadInv(b.p, c.p, files, read, Len(files))
  BY <1>1, <1>7, LoadedAll, Zenon
<1> HIDE DEF c
<1>9. /\ Whole(c.p) /\ c.p.sb = p.sb /\ UserHasPK(c.p)
      /\ \A j \in Keys \ ModeVars : Known(b.p.s, j) => Same(b.p.s, c.p.s, j)
      /\ NamesFit(p.s) => NamesFit(c.p.s)
  BY <1>7, <1>8, Zenon DEF LoadInv
<1>10. /\ Whole(d.p) /\ d.p.sb = p.sb /\ UserHasPK(d.p) /\ SetupHasNone(d.p)
       /\ NamesFit(p.s) => NamesFit(d.p.s)
       /\ \A j \in Keys \ ModeVars : Same(c.p.s, d.p.s, j)
  BY <1>1, <1>9, ModeFollows, Zenon
<1> HIDE DEF d
<1>11. Tells(d.p, e, AuditMode, <<0>>)
  BY <1>2, <1>3, <1>10, TellVar, Zenon DEF Whole
<1> HIDE DEF e
<1>12. /\ e.p \in Platform /\ Sound(e.p.s) /\ e.p.sb = p.sb /\ e.p.mode = d.p.mode
       /\ \A j \in Keys : j # AuditMode => Same(d.p.s, e.p.s, j)
       /\ NamesFit(p.s) => NamesFit(e.p.s)
       /\ Held(e.p.s, AuditMode)
  BY <1>1, <1>10, <1>11, Zenon DEF Tells, Told
<1>13. \A s, t, j : Same(s, t, j) => /\ Held(s, j) => Held(t, j)
                                     /\ \A x : Told(s, j, x) => Told(t, j, x)
  BY Zenon DEF Same, Held, Told
<1>14. Whole(e.p)
  <2> DEFINE sb == Flag(d.p.mode = "USER" /\ d.p.sb)
             setup == Flag(d.p.mode = "SETUP")
  <2>1. sb = Flag(e.p.mode = "USER" /\ e.p.sb) /\ setup = Flag(e.p.mode = "SETUP")
    BY <1>10, <1>12, Zenon
  <2>2. Told(d.p.s, SecureBoot, sb) /\ Told(d.p.s, SetupMode, setup)
        /\ Told(d.p.s, DeployedMode, setup)
    BY <1>10, Zenon DEF Whole, Shown
  <2> HIDE DEF sb, setup
  <2>3. \A j \in ModeVars : Same(d.p.s, e.p.s, j)
    BY <1>2, <1>12, Zenon
  <2>4. Told(e.p.s, SecureBoot, sb) /\ Told(e.p.s, SetupMode, setup)
        /\ Told(e.p.s, DeployedMode, setup)
    BY <1>13, <2>2, <2>3, Zenon DEF ModeVars
  <2> QED
    BY <1>12, <2>1, <2>4, Zenon DEF Whole, Shown
<1>15. ASSUME NEW k \in ModeKeys PROVE Held(e.p.s, k)
  <2>1. CASE k \in ModeVars
    BY <1>14, <2>1, Zenon DEF Whole, Shown, Told, ModeVars
  <2>2. CASE k = AuditMode
    BY <1>12, <2>2, Zenon
  <2>3. CASE k = SignatureSupport
    <3>1. Same(a.p.s, b.p.s, k) /\ Same(c.p.s, d.p.s, k) /\ Same(d.p.s, e.p.s, k)
      BY <1>2, <1>7, <1>10, <1>12, <2>3, Zenon
    <3>2. Same(b.p.s, c.p.s, k)
      BY <1>2, <1>8, <2>3, Zenon DEF LoadInv
    <3> QED
      BY <1>5, <1>13, <2>3, <3>1, <3>2
  <2> QED
    BY <1>2, <2>1, <2>2, <2>3, Zenon
<1>16. ASSUME NEW j \in Keys \ ModeKeys
       PROVE  /\ Same(p.s, b.p.s, j) /\ Same(c.p.s, e.p.s, j)
              /\ Known(p.s, j) => Same(p.s, e.p.s, j)
  <2>1. /\ Same(p.s, a.p.s, j) /\ Same(a.p.s, b.p.s, j) /\ Same(c.p.s, d.p.s, j)
        /\ Same(d.p.s, e.p.s, j)
    BY <1>2, <1>5, <1>7, <1>10, <1>12, Zenon
  <2>2. Same(p.s, b.p.s, j) /\ Same(c.p.s, e.p.s, j)
    BY <2>1, SameTwice, Zenon
  <2>3. Known(p.s, j) => Same(b.p.s, c.p.s, j)
    BY <1>2, <1>9, <2>2, Zenon DEF Same
  <2> QED
    BY <2>2, <2>3, SameTwice
<1>17. /\ Known(p.s, PK) <=> Known(b.p.s, PK)
       /\ Known(e.p.s, PK) <=> Known(c.p.s, PK)
       /\ Known(e.p.s, KEK) <=> Known(c.p.s, KEK)
  BY <1>16, ModeNames, Zenon DEF Same
<1>18. Same(d.p.s, e.p.s, PK)
  BY <1>2, <1>12, ModeNames, Zenon
<1>19. UserHasPK(e.p) /\ SetupHasNone(e.p)
  BY <1>10, <1>12, <1>18, Zenon DEF UserHasPK, SetupHasNone, Same
<1>20. /\ \A i \in 1 .. Len(files) : i \in read /\ Brings(files[i], KEK) => Known(e.p.s, KEK)
       /\ Known(e.p.s, PK) /\ ~Known(p.s, PK) =>
              \E i \in 1 .. Len(files) : i \in read /\ Brings(files[i], PK)
  BY <1>8, <1>17, Zenon DEF LoadInv
<1>21. Initialized(p, e.p, files, read)
  BY <1>12, <1>14, <1>15, <1>16, <1>19, <1>20, Zenon DEF Initialized
<1> QED
  BY <1>1, <1>21, Zenon

-----------------------------------------------------------------------------
(***************************************************************************)
(* The invariant                                                           *)
(***************************************************************************)
\* The table of a daemon that runs: the variables that are its own have their
\* volatile attributes, so none of them is ever kept.
Running(p) ==
    /\ Whole(p) /\ NamesFit(p.s) /\ UserHasPK(p)
    /\ \A k \in ModeKeys : Held(p.s, k)

\* What XAPI holds can be restored, and the daemon's own variables are not in
\* it.
XapiOK(list) ==
    Restorable(list) /\ \A e \in 1 .. Len(list) : list[e].key \notin ModeKeys

Inv == /\ running \in BOOLEAN
       /\ running => Running(plat)
       /\ ~running => plat = NoPlatform
       /\ XapiOK(xapi)

\* An occupied slot by name.
LEMMA OccupiedSlot ==
    ASSUME NEW s, Sound(s), NEW i \in Occupied(s)
    PROVE  /\ i \in Slots /\ s.slots[i] \in Variable /\ s.slots[i].key \in Keys
           /\ Known(s, s.slots[i].key) /\ At(s, s.slots[i].key) = s.slots[i]
<1>1. i \in Slots /\ s.slots[i].key # NoKey
  BY Zenon DEF Occupied, variable_is_valid
<1>2. s.slots[i] \in Variable
  BY <1>1, Zenon DEF Sound, TableOK, Table
<1>3. s.slots[i].key \in Keys
  BY <1>1, <1>2, Zenon DEF Variable
<1> QED
  BY <1>1, <1>2, <1>3, SlotKnown, Zenon

\* What a running daemon pushes.
LEMMA PushedList ==
    ASSUME NEW p, Running(p)
    PROVE  LET list == retrieve_nonvolatile_vars(p.s)
           IN  XapiOK(list) /\ Entries(list) = KeptEntries(p.s)
<1> DEFINE s == p.s
           list == retrieve_nonvolatile_vars(s)
           M == MaxVarCount - 1
<1>1. Sound(s) /\ NamesFit(s)
  BY Zenon DEF Running, Whole
<1>2. Gathers(list, s, M)
  BY <1>1, CollectedList, Zenon DEF Sound
<1> HIDE DEF list
<1>3. ASSUME NEW i \in KeptSlots(s, M)
      PROVE  LET c == variable_copy(s.slots[i])
             IN  /\ Loadable(c) /\ c.key \notin ModeKeys
                 /\ c.key = s.slots[i].key /\ c.data = s.slots[i].data
                 /\ c.attrs = s.slots[i].attrs
  <2> DEFINE v == s.slots[i]
             c == variable_copy(v)
  <2>1. i \in Occupied(s) /\ "NV" \in v.attrs
    BY <1>3, Zenon DEF KeptSlots
  <2>2. v \in Variable /\ v.key \in Keys /\ Known(s, v.key) /\ At(s, v.key) = v
    BY <1>1, <2>1, OccupiedSlot, Zenon
  <2>3. v.data # <<>> /\ "AP" \notin v.attrs /\ Len(v.data) <= MaxDataSize
    <3>1. SlotOK(v) /\ variable_is_valid(v)
      BY <1>1, <2>1, Zenon DEF Sound, TableOK, Occupied
    <3>2. v.data # <<>> /\ "AP" \notin v.attrs
      BY <1>1, <2>2, KnownSlot
    <3> QED
      BY <3>1, <3>2 DEF SlotOK
  <2>4. NameSize[v.key] <= MaxNameSize
    BY <1>1, <2>2, Zenon DEF NamesFit, Fits
  <2>5. v.key \notin ModeKeys
    <3>1. v.key \in ModeKeys => v.attrs = VolatileAttrs
      BY <2>2, Zenon DEF Running, Held
    <3> QED
      BY <2>1, <3>1, VolatileSet, Zenon
  <2>6. c \in Variable /\ c.key = v.key /\ c.data = v.data /\ c.attrs = v.attrs
    BY <2>2, CopyFields, Zenon
  <2> HIDE DEF c, v
  <2>7. Loadable(c)
    BY <2>1, <2>2, <2>3, <2>4, <2>6, Zenon DEF Loadable, Listed
  <2> QED
    BY <2>5, <2>6, <2>7, Zenon DEF c, v
<1>4. list \in Seq(Variable) /\ Len(list) \in Nat /\ DOMAIN list = 1 .. Len(list)
  BY <1>2 DEF Gathers
<1>5. ASSUME NEW e \in 1 .. Len(list)
      PROVE  \E i \in KeptSlots(s, M) : list[e] = variable_copy(s.slots[i])
  BY <1>2, <1>5, Zenon DEF Gathers
<1>6. \A e \in 1 .. Len(list) : Loadable(list[e]) /\ list[e].key \notin ModeKeys
  BY <1>3, <1>5, Zenon
<1>7. XapiOK(list)
  BY <1>1, <1>2, <1>4, <1>6, Zenon DEF XapiOK, Restorable, Gathers, Sound
<1>8. Entries(list) = KeptEntries(s)
  BY <1>1, CollectedEntries, Zenon DEF Sound, list
<1> QED
  BY <1>7, <1>8, Zenon DEF list

\* A push stores that list or, when XAPI does not answer or nothing is kept,
\* nothing.
LEMMA PushStep ==
    ASSUME NEW p, Running(p), Push(p.s)
    PROVE  /\ xapi' = xapi \/ (XapiOK(xapi') /\ Entries(xapi') = KeptEntries(p.s))
           /\ FALSE \notin XapiAnswers /\ XapiAnswers \subseteq BOOLEAN =>
                  KeptEntries(p.s) \subseteq Entries(xapi')
<1> DEFINE list == retrieve_nonvolatile_vars(p.s)
<1>1. XapiOK(list) /\ Entries(list) = KeptEntries(p.s)
  BY PushedList, Zenon
<1>2. PICK ok \in XapiAnswers : xapi' = IF ok /\ list # <<>> THEN list ELSE xapi
  BY Zenon DEF Push, xapi_set
<1> HIDE DEF list
<1>3. Entries(<<>>) = {}
  <2>1. DOMAIN <<>> = {}
    OBVIOUS
  <2> QED
    BY <2>1, Zenon DEF Entries
<1>4. xapi' = xapi \/ xapi' = list
  BY <1>2, Zenon
<1>5. FALSE \notin XapiAnswers /\ XapiAnswers \subseteq BOOLEAN => xapi' = list \/ list = <<>>
  BY <1>2, Zenon
<1>6. FALSE \notin XapiAnswers /\ XapiAnswers \subseteq BOOLEAN =>
          KeptEntries(p.s) \subseteq Entries(xapi')
  BY <1>1, <1>3, <1>5, Zenon
<1> QED
  BY <1>1, <1>4, <1>6, Zenon

\* The request handler keeps the running platform what it is.
LEMMA SetRunning ==
    ASSUME NEW p, Running(p), NEW r \in PlainRequest
    PROVE  LET o == handle_set_variable(p, r)
           IN  /\ Done(p, o, r) /\ Running(o.p)
               /\ r.signer \in NamedCerts => /\ o.st # "SUCCESS" => o.p = p
                                             /\ SetupHasNone(p) => SetupHasNone(o.p)
<1> DEFINE o == handle_set_variable(p, r)
<1>1. Done(p, o, r) /\ (r.key \in ModeKeys => o.p = p)
  BY HandleDone, Zenon DEF Running
<1> HIDE DEF o
<1>2. /\ Writes(p, o, r) /\ Frame(p, o, r)
  BY <1>1, Zenon DEF Done, Writes
<1>3. Whole(o.p) /\ NamesFit(o.p.s) /\ UserHasPK(o.p)
  BY <1>2, Zenon DEF Running, Frame, Writes, Whole
<1>4. ASSUME NEW k \in ModeKeys PROVE Held(o.p.s, k)
  <2>1. k \in Keys /\ Held(p.s, k)
    BY AuthAssumption, Zenon DEF Running
  <2>2. CASE k \in ModeVars
    BY <1>2, <2>2, Zenon DEF Frame, Shown, Told, ModeVars
  <2>3. CASE k \notin ModeVars /\ k # r.key
    <3>1. Same(p.s, o.p.s, k)
      BY <1>2, <2>1, <2>3, Zenon DEF Frame
    <3> QED
      BY <2>1, <3>1, Zenon DEF Held, Same
  <2>4. CASE k = r.key
    <3>1. o.p = p
      BY <1>1, <2>4, Zenon
    <3> QED
      BY <2>1, <3>1, Zenon
  <2> QED
    BY <2>2, <2>3, <2>4, Zenon
<1>5. Running(o.p)
  BY <1>3, <1>4, Zenon DEF Running
<1>6. r.signer \in NamedCerts => /\ o.st # "SUCCESS" => o.p = p
                                 /\ SetupHasNone(p) => SetupHasNone(o.p)
  BY <1>2, Zenon DEF Writes
<1> QED
  BY <1>1, <1>5, <1>6, Zenon DEF o

\* An empty list can be restored.
LEMMA NoneRestorable == XapiOK(<<>>)
<1>1. <<>> \in Seq(Variable) /\ Len(<<>>) = 0 /\ 1 .. 0 = {}
  OBVIOUS
<1>2. 0 <= MaxVarCount - 1
  BY LimitsAssumption
<1> QED
  BY <1>1, <1>2, Zenon DEF XapiOK, Restorable

\* The files of a start are those the certificates are read from.
LEMMA StartFiles ==
    ASSUME NEW files \in AuthFiles
    PROVE  Files(files)
<1>1. /\ files \in Seq(AuthFile)
      /\ \A i \in DOMAIN files : files[i].write.key \in Anchors /\ ~files[i].write.nul
  BY ServerAssumption, Zenon DEF SecureBootKeys, Anchors
<1>2. \A i \in DOMAIN files : files[i] \in AuthFile
  BY <1>1
<1>3. \A i \in DOMAIN files : files[i].write \in PlainRequest
  BY <1>1, <1>2, Zenon DEF AuthFile, PlainRequest
<1> QED
  BY <1>1, <1>3, Zenon DEF Files

\* A known variable has an occupied slot.
LEMMA KnownOccupied ==
    ASSUME NEW s, Sound(s), NEW k \in Keys, Known(s, k)
    PROVE  \E i \in Occupied(s) : s.slots[i].key = k
<1> DEFINE m == Min(Matches(s, Plain(k)))
<1>1. m \in Slots /\ s.slots[m].key = k
  BY KnownSlot, Zenon
<1> HIDE DEF m
<1>2. m \in Occupied(s)
  BY <1>1, KeysAssumption, Zenon DEF Occupied, variable_is_valid
<1> QED
  BY <1>1, <1>2, Zenon

\* The names of a restored table are names that fit.
LEMMA FilledFits ==
    ASSUME NEW list, Restorable(list), NEW s, Filled(s, list, Len(list))
    PROVE  NamesFit(s)
<1> SUFFICES ASSUME NEW k \in Keys, Known(s, k) PROVE Fits(k)
  BY Zenon DEF NamesFit
<1>0. Sound(s) /\ Len(list) \in Nat
  BY DEF Filled, Restorable
<1>1. PICK i \in Occupied(s) : s.slots[i].key = k
  BY <1>0, KnownOccupied, Zenon
<1>2. i + 1 \in 1 .. Len(list) /\ i = (i + 1) - 1
  BY <1>0, <1>1 DEF Filled
<1>3. s.slots[i].key = list[i + 1].key
  BY <1>2, Zenon DEF Filled
<1>4. Loadable(list[i + 1])
  BY <1>2, Zenon DEF Restorable
<1> QED
  BY <1>1, <1>3, <1>4, Zenon DEF Loadable, Fits

\* What main does up to the handler loop: nothing that lasts, or a platform
\* that auth_lib_initialize made out of the restored table.
Entered(p, list, files) ==
    /\ p \in Platform /\ Filled(p.s, list, Len(list)) /\ NamesFit(p.s)
    /\ ~running /\ running' = TRUE
    /\ Initialized(p, plat', files, auth_lib_load(files))
    /\ Running(plat') /\ SetupHasNone(plat')
    /\ Push(plat'.s)

\* Start does that: the assertion of xapi_init never fails.
LEMMA StartCases ==
    ASSUME Inv, NEW files \in AuthFiles, NEW pulled \in XapiAnswers, NEW sb \in SbSettings,
           Start(files, pulled, sb)
    PROVE  \/ UNCHANGED vars
           \/ \E p : Entered(p, IF pulled THEN xapi ELSE <<>>, files)
<1> DEFINE list == IF pulled THEN xapi ELSE <<>>
           init == Restored(list)[Len(list)]
           p == [NoPlatform EXCEPT !.s = init.s, !.sb = sb]
           o == auth_lib_initialize(p, files, auth_lib_load(files))
<1>1. Restorable(list)
  BY NoneRestorable, Zenon DEF Inv, XapiOK
<1>2. init.st = "SUCCESS" /\ Filled(init.s, list, Len(list))
  <2> HIDE DEF list
  <2> QED
    BY <1>1, RestoredAll, Zenon
<1>3. ~running /\ AfterInit(init, files, sb)
  BY Zenon DEF Start, xapi_init
<1>4. ~running /\ AfterAuth(o)
  BY <1>2, <1>3, Zenon DEF AfterInit
<1> HIDE DEF init, list
<1>5. p \in Platform /\ p.s = init.s /\ p.sb = sb
  <2>1. init.s \in Table
    BY <1>2, Zenon DEF Filled, Sound, TableOK
  <2>2. sb \in BOOLEAN
    BY ServerAssumption, Zenon
  <2> QED
    BY <2>1, <2>2, Zenon DEF NoPlatform, Platform
<1>6. Filled(p.s, list, Len(list)) /\ NamesFit(p.s) /\ Sound(p.s)
  BY <1>1, <1>2, <1>5, FilledFits, Zenon DEF Filled
<1> HIDE DEF p
<1>7. CASE ~(o.st = "SUCCESS" /\ ~SecureBootMissing(o.p))
  <2>1. GiveUp /\ UNCHANGED xapi
    BY <1>4, <1>7, Zenon DEF AfterAuth
  <2> QED
    BY <2>1, Zenon DEF GiveUp, vars
<1>8. CASE o.st = "SUCCESS" /\ ~SecureBootMissing(o.p)
  <2>1. EnterLoop(o)
    BY <1>4, <1>8, Zenon DEF AfterAuth
  <2>2. Initialized(p, o.p, files, auth_lib_load(files))
    BY <1>5, <1>6, <1>8, StartFiles, InitializeAll, Zenon
  <2> HIDE DEF o
  <2>3. plat' = o.p /\ running' = TRUE /\ Push(plat'.s)
    BY <2>1, Zenon DEF EnterLoop
  <2>4. Initialized(p, plat', files, auth_lib_load(files))
    BY <2>2, <2>3, Zenon
  <2>5. Running(plat') /\ SetupHasNone(plat')
    BY <1>6, <2>4, Zenon DEF Running, Initialized
  <2>6. Entered(p, list, files)
    BY <1>4, <1>5, <1>6, <2>3, <2>4, <2>5, Zenon DEF Entered
  <2> QED
    BY <2>6, Zenon DEF list
<1> QED
  BY <1>7, <1>8, Zenon

\* Initially the daemon does not run and XAPI holds nothing.
LEMMA InvInit == Init => Inv
  BY NoneRestorable, Zenon DEF Init, Inv

\* The steps of Next, as far as the platform and the list go.
LEMMA InvNext ==
    ASSUME PlainNames, Inv, [Next]_vars
    PROVE  Inv'
<1>1. ASSUME UNCHANGED vars PROVE Inv'
  BY <1>1, Zenon DEF Inv, vars
<1>2. ASSUME NEW r \in Requests, SetVariable(r) PROVE Inv'
  <2> DEFINE o == handle_set_variable(plat, r)
  <2>1. running /\ running' = running /\ Finish(o, r)
    BY <1>2, Zenon DEF SetVariable
  <2>2. Running(plat) /\ r \in PlainRequest
    BY <2>1, ServerAssumption, Zenon DEF Inv, PlainNames, PlainRequest
  <2>3. Running(o.p)
    BY <2>2, SetRunning, Zenon
  <2> HIDE DEF o
  <2>4. plat' = o.p /\ (xapi' = xapi \/ Push(o.p.s))
    BY <2>1, Zenon DEF Finish
  <2>5. XapiOK(xapi')
    BY <2>3, <2>4, PushStep, Zenon DEF Inv
  <2> QED
    BY <2>1, <2>3, <2>4, <2>5, Zenon DEF Inv
<1>3. ASSUME NEW files \in AuthFiles, NEW pulled \in XapiAnswers, NEW sb \in SbSettings,
             Start(files, pulled, sb)
      PROVE  Inv'
  <2>1. CASE UNCHANGED vars
    BY <1>1, <2>1, Zenon
  <2>2. ASSUME NEW p, Entered(p, IF pulled THEN xapi ELSE <<>>, files) PROVE Inv'
    <3>1. running' = TRUE /\ Running(plat') /\ Push(plat'.s)
      BY <2>2, Zenon DEF Entered
    <3>2. XapiOK(xapi')
      BY <3>1, PushStep, Zenon DEF Inv
    <3> QED
      BY <3>1, <3>2, Zenon DEF Inv
  <2> QED
    BY <1>3, <2>1, <2>2, StartCases, Zenon
<1>4. ASSUME Kill PROVE Inv'
  BY <1>4, Zenon DEF Kill, Inv
<1> QED
  BY <1>1, <1>2, <1>3, <1>4, Zenon DEF Next

\* Between two requests the table is in order, SetupMode, SecureBoot and
\* DeployedMode are there and tell the mode, user mode has a PK, and the list
\* in XAPI can be stored again, whatever a guest that counts no NUL requests
\* and however the daemon ends and starts.
THEOREM ServerInvariant ==
    ASSUME PlainNames
    PROVE  Spec => []Inv
<1>1. Inv /\ [Next]_vars => Inv'
  BY InvNext, Zenon
<1> QED
  BY <1>1, InvInit, PTL DEF Spec

\* SecureBoot, SetupMode and DeployedMode tell the guest the mode the daemon
\* is in: update_platform_mode writes them all, and nothing else writes them.
THEOREM ModeIsTold ==
    ASSUME PlainNames
    PROVE  Spec => []ModeVariablesAgree
<1>1. Inv => ModeVariablesAgree
  <2> SUFFICES ASSUME Inv, running
               PROVE  /\ Content(plat, SecureBoot) = Flag(plat.mode = "USER" /\ plat.sb)
                      /\ Content(plat, SetupMode) = Flag(plat.mode = "SETUP")
                      /\ Content(plat, DeployedMode) = Flag(plat.mode = "SETUP")
    BY Zenon DEF ModeVariablesAgree
  <2>1. Shown(plat)
    BY Zenon DEF Inv, Running, Whole
  <2>2. \A k, data : Told(plat.s, k, data) => Content(plat, k) = data
    BY Zenon DEF Told, Held, Known, At, Content, Has, Var
  <2> QED
    BY <2>1, <2>2, Zenon DEF Shown
<1> QED
  BY <1>1, ServerInvariant, PTL

\* A running daemon's request: what the lemmas about one request say of it.
LEMMA RequestDone ==
    ASSUME PlainNames, Inv, running, NEW r \in Requests
    PROVE  /\ r \in PlainRequest /\ r \in Request /\ Whole(plat) /\ Running(plat)
           /\ Done(plat, handle_set_variable(plat, r), r)
<1>1. r \in PlainRequest /\ r \in Request /\ Running(plat)
  BY ServerAssumption, Zenon DEF Inv, PlainNames, PlainRequest
<1> QED
  BY <1>1, SetRunning, Zenon DEF Running

\* In user mode PK and KEK only change by the hand of the PK's holder, the
\* databases by the PK or a KEK.
THEOREM AnchorsAreOwned ==
    ASSUME PlainNames
    PROVE  Spec => []TrustChain
<1>1. Inv => TrustChain
  <2> SUFFICES ASSUME Inv, running, plat.mode = "USER", NEW r \in Requests
               PROVE  ByOwner(r, handle_set_variable(plat, r).p)
    BY Zenon DEF TrustChain
  <2> QED
    BY RequestDone, DoneByOwner, Zenon
<1> QED
  BY <1>1, ServerInvariant, PTL

\* A private authenticated variable is rewritten only by a request that the
\* certificate stored with it has signed.
THEOREM PrivateIsOwned ==
    ASSUME PlainNames
    PROVE  Spec => []PrivateOwner
<1>1. Inv => PrivateOwner
  <2> SUFFICES ASSUME Inv, running, NEW r \in Requests
               PROVE  ByCreator(r, handle_set_variable(plat, r).p)
    BY Zenon DEF PrivateOwner
  <2> QED
    BY RequestDone, DoneByCreator, Zenon
<1> QED
  BY <1>1, ServerInvariant, PTL

\* In user mode, and for the PK in any mode, the timestamp stored with a
\* variable moves back only by an append: every other authenticated write is
\* compared with it first.
THEOREM StampsMoveOn ==
    ASSUME PlainNames
    PROVE  Spec => []StampBackOnlyByAppend
<1>1. Inv => StampBackOnlyByAppend
  <2> SUFFICES ASSUME Inv, running, NEW r \in Requests
               PROVE  StampsAdvance(r, handle_set_variable(plat, r).p)
    BY DEF StampBackOnlyByAppend
  <2> QED
    BY RequestDone, DoneAdvances, Zenon
<1> QED
  BY <1>1, ServerInvariant, PTL

\* When every certificate has a common name, a SetVariable that is answered
\* with an error leaves the platform as it was.
THEOREM RefusalsAreHarmless ==
    ASSUME PlainNames, NamedCerts = Certs
    PROVE  Spec => []RefusalChangesNothing
<1>1. Inv => RefusalChangesNothing
  <2> SUFFICES ASSUME Inv, running, NEW r \in Requests
               PROVE  Harmless(handle_set_variable(plat, r))
    BY Zenon DEF RefusalChangesNothing
  <2>1. r \in PlainRequest /\ Running(plat) /\ r.signer \in NamedCerts
    BY RequestDone, Zenon DEF Request
  <2> QED
    BY <2>1, SetRunning, Zenon DEF Harmless
<1> QED
  BY <1>1, ServerInvariant, PTL

\* When every certificate has a common name, a platform in setup mode has no
\* PK.
InvNamed == Inv /\ (running => SetupHasNone(plat))

\* The steps keep that.
LEMMA NamedNext ==
    ASSUME PlainNames, NamedCerts = Certs, InvNamed, [Next]_vars
    PROVE  InvNamed'
<1>0. Inv /\ Inv' /\ (running => SetupHasNone(plat))
  BY InvNext, Zenon DEF InvNamed
<1> SUFFICES ASSUME running' PROVE SetupHasNone(plat')
  BY <1>0, Zenon DEF InvNamed
<1>1. CASE UNCHANGED vars
  BY <1>0, <1>1, Zenon DEF vars
<1>2. ASSUME NEW r \in Requests, SetVariable(r) PROVE SetupHasNone(plat')
  <2> DEFINE o == handle_set_variable(plat, r)
  <2>1. running /\ plat' = o.p
    BY <1>2, Zenon DEF SetVariable, Finish
  <2>2. r \in PlainRequest /\ Running(plat) /\ r.signer \in NamedCerts
    BY <1>0, <2>1, RequestDone, Zenon DEF Request
  <2>3. SetupHasNone(o.p)
    BY <1>0, <2>1, <2>2, SetRunning, Zenon
  <2> QED
    BY <2>1, <2>3, Zenon
<1>3. ASSUME NEW files \in AuthFiles, NEW pulled \in XapiAnswers, NEW sb \in SbSettings,
             Start(files, pulled, sb)
      PROVE  SetupHasNone(plat')
  <2>1. ASSUME NEW p, Entered(p, IF pulled THEN xapi ELSE <<>>, files) PROVE SetupHasNone(plat')
    BY <2>1, Zenon DEF Entered
  <2> QED
    BY <1>0, <1>1, <1>3, <2>1, StartCases, Zenon
<1>4. CASE Kill
  BY <1>4, Zenon DEF Kill
<1> QED
  BY <1>1, <1>2, <1>3, <1>4, Zenon DEF Next

\* When every certificate has a common name, the platform is in user mode
\* exactly when a PK is enrolled.
THEOREM ModeFollowsPK ==
    ASSUME PlainNames, NamedCerts = Certs
    PROVE  Spec => []ModeMatchesPK
<1>1. Init => InvNamed
  BY InvInit, Zenon DEF InvNamed, Init
<1>2. InvNamed /\ [Next]_vars => InvNamed'
  BY NamedNext, Zenon
<1>3. InvNamed => ModeMatchesPK
  <2> SUFFICES ASSUME InvNamed, running PROVE plat.mode = "USER" <=> Known(plat.s, PK)
    BY Zenon DEF ModeMatchesPK, Has, Known
  <2>1. plat.mode \in {"SETUP", "USER"} /\ UserHasPK(plat) /\ SetupHasNone(plat)
    BY Zenon DEF InvNamed, Inv, Running, Whole, Platform
  <2> QED
    BY <2>1, Zenon DEF UserHasPK, SetupHasNone
<1> QED
  BY <1>1, <1>2, <1>3, PTL DEF Spec

\* The names of this module for what is persisted and what is kept.
LEMMA EntriesOf ==
    /\ Persisted = Entries(xapi) /\ Persisted' = Entries(xapi')
    /\ \A p : Kept(p) = KeptEntries(p.s)
  BY Zenon DEF Persisted, Entries, Kept, KeptEntries, KeptSlots

\* What a start does, for the two properties of a start.
LEMMA StartEnters ==
    ASSUME Inv, [Next]_vars, ~running, running'
    PROVE  \E files \in AuthFiles, pulled \in XapiAnswers :
               \E p : Entered(p, IF pulled THEN xapi ELSE <<>>, files)
<1>1. ~UNCHANGED vars
  BY Zenon DEF vars
<1>2. PICK files \in AuthFiles, pulled \in XapiAnswers, sb \in SbSettings :
          Start(files, pulled, sb)
  BY <1>1, Zenon DEF Next, SetVariable, Kill
<1> QED
  BY <1>1, <1>2, StartCases, Zenon

\* When the calls to XAPI succeed, xapi_init brings back every variable XAPI
\* held.
THEOREM StartsRestore ==
    ASSUME PlainNames, FALSE \notin XapiAnswers
    PROVE  Spec => StartRestoresAll
<1>1. ASSUME Inv, [Next]_vars, ~running, running', NEW i \in DOMAIN xapi
      PROVE  /\ Has(plat', xapi[i].key)
             /\ Var(plat', xapi[i].key).data = xapi[i].data
             /\ Var(plat', xapi[i].key).attrs = xapi[i].attrs
  <2>0. PICK files \in AuthFiles, pulled \in XapiAnswers :
            \E p : Entered(p, IF pulled THEN xapi ELSE <<>>, files)
    BY <1>1, StartEnters, Zenon
  <2>1. PICK p : Entered(p, IF pulled THEN xapi ELSE <<>>, files)
    BY <2>0, Zenon
  <2>2. pulled = TRUE
    BY ServerAssumption, Zenon
  <2>3. Entered(p, xapi, files)
    BY <2>1, <2>2, Zenon
  <2>4. xapi \in Seq(Variable) /\ i \in 1 .. Len(xapi) /\ Len(xapi) \in Nat
    BY <1>1 DEF Inv, XapiOK, Restorable
  <2> DEFINE v == p.s.slots[i - 1]
  <2>5. /\ Sound(p.s) /\ i - 1 \in Occupied(p.s)
        /\ v.key = xapi[i].key /\ v.data = xapi[i].data /\ v.attrs = xapi[i].attrs
    BY <2>3, <2>4 DEF Entered, Filled
  <2>6. v.key \in Keys /\ Known(p.s, v.key) /\ At(p.s, v.key) = v
    BY <2>5, OccupiedSlot, Zenon
  <2>7. v.key \notin ModeKeys
    BY <1>1, <2>4, <2>5, Zenon DEF Inv, XapiOK
  <2> HIDE DEF v
  <2>8. Same(p.s, plat'.s, v.key)
    BY <2>3, <2>6, <2>7, Zenon DEF Entered, Initialized
  <2>9. Known(plat'.s, v.key) /\ At(plat'.s, v.key) = v
    BY <2>6, <2>8, Zenon DEF Same
  <2>10. Has(plat', v.key) /\ Var(plat', v.key) = v
    BY <2>9, Zenon DEF Has, Var, Known, At
  <2> QED
    BY <2>5, <2>10, Zenon
<1>2. Inv /\ [Next]_vars =>
          [~running /\ running' =>
              \A i \in DOMAIN xapi :
                  /\ Has(plat', xapi[i].key)
                  /\ Var(plat', xapi[i].key).data = xapi[i].data
                  /\ Var(plat', xapi[i].key).attrs = xapi[i].attrs]_vars
  BY <1>1, Zenon
<1> QED
  BY <1>2, ServerInvariant, PTL DEF Spec, StartRestoresAll

\* auth_lib_load takes the PK from its file only when the platform gets a KEK
\* too.
THEOREM PkNeedsKek ==
    ASSUME PlainNames
    PROVE  Spec => PkComesWithKek
<1>1. ASSUME Inv, NEW files \in AuthFiles, NEW pulled \in XapiAnswers, NEW sb \in SbSettings,
             Start(files, pulled, sb), running', Has(plat', PK), \A e \in Persisted : e[1] # PK,
             \A i \in DOMAIN files : files[i].write.key = KEK => ~files[i].empty
      PROVE  Has(plat', KEK)
  <2>0. ~UNCHANGED vars
    BY <1>1, Zenon DEF Start, vars
  <2>1. PICK p : Entered(p, IF pulled THEN xapi ELSE <<>>, files)
    BY <1>1, <2>0, StartCases, Zenon
  <2> DEFINE list == IF pulled THEN xapi ELSE <<>>
             read == auth_lib_load(files)
  <2>2. Entered(p, list, files)
    BY <2>1, Zenon
  <2>3. list = xapi \/ list = <<>>
    BY Zenon
  <2> HIDE DEF list
  <2>4. PK \in Keys /\ Known(plat'.s, PK)
    BY <1>1, ModeNames, Zenon DEF Has, Known
  <2>5. ~Known(p.s, PK)
    <3> SUFFICES ASSUME Known(p.s, PK) PROVE FALSE
      BY Zenon
    <3>1. PICK i \in Occupied(p.s) : p.s.slots[i].key = PK
      BY <2>2, <2>4, KnownOccupied, Zenon DEF Entered, Filled
    <3>2. list \in Seq(Variable) /\ Len(list) \in Nat
      <4>1. XapiOK(list)
        BY <1>1, <2>3, NoneRestorable, Zenon DEF Inv
      <4> QED
        BY <4>1 DEF XapiOK, Restorable
    <3>3. i + 1 \in 1 .. Len(list) /\ i = (i + 1) - 1
      BY <2>2, <3>1, <3>2 DEF Entered, Filled
    <3>4. list[i + 1].key = PK
      BY <2>2, <3>1, <3>3, Zenon DEF Entered, Filled
    <3>5. list = xapi
      BY <2>3, <3>3
    <3>6. i + 1 \in DOMAIN xapi /\ xapi[i + 1].key = PK
      BY <3>2, <3>3, <3>4, <3>5
    <3> DEFINE e == <<xapi[i + 1].key, xapi[i + 1].data, xapi[i + 1].attrs>>
    <3>7. e \in Persisted
      BY <3>6, Zenon DEF Persisted
    <3>8. e[1] = PK
      BY <3>6, Zenon
    <3> QED
      BY <1>1, <3>7, <3>8, Zenon
  <2>6. PICK i \in 1 .. Len(files) : i \in read /\ Brings(files[i], PK)
    BY <2>2, <2>4, <2>5, Zenon DEF Entered, Initialized
  <2>7. PICK j \in DOMAIN files : files[j].write.key = KEK
    BY <2>6, Zenon DEF auth_lib_load, Brings
  <2>8. j \in read /\ j \in 1 .. Len(files)
    BY <2>7, AuthAssumption, StartFiles DEF auth_lib_load, Files
  <2>9. Brings(files[j], KEK)
    BY <1>1, <2>7, Zenon DEF Brings
  <2>10. Known(plat'.s, KEK)
    BY <2>2, <2>8, <2>9, Zenon DEF Entered, Initialized
  <2> QED
    BY <2>10, Zenon DEF Has, Known
<1>2. Inv /\ [Next]_vars =>
          [~running /\ running' =>
              \A files \in AuthFiles, pulled \in XapiAnswers, sb \in SbSettings :
                  /\ Start(files, pulled, sb)
                  /\ \A i \in DOMAIN files : files[i].write.key = KEK => ~files[i].empty
                  /\ Has(plat', PK)
                  /\ \A e \in Persisted : e[1] # PK
                  => Has(plat', KEK)]_vars
  BY <1>1, Zenon
<1> QED
  BY <1>2, ServerInvariant, PTL DEF Spec, PkComesWithKek

\* When moreover the calls to XAPI succeed, what the table keeps is in XAPI
\* between two requests.
InvSaved == Inv /\ (running => KeptEntries(plat.s) \subseteq Entries(xapi))

\* A request without NV adds nothing that is kept.
LEMMA DriftKept ==
    ASSUME NEW s, NEW t, Sound(s), Sound(t), Drift(s, t)
    PROVE  KeptEntries(t) \subseteq KeptEntries(s)
<1> SUFFICES ASSUME NEW i \in KeptSlots(t, MaxVarCount - 1)
             PROVE  <<t.slots[i].key, t.slots[i].data, t.slots[i].attrs>> \in KeptEntries(s)
  BY Zenon DEF KeptEntries
<1>1. /\ i \in Slots /\ t.slots[i].key # NoKey /\ i < MaxVarCount - 1
      /\ "NV" \in t.slots[i].attrs
  BY Zenon DEF KeptSlots, Occupied, variable_is_valid
<1>2. /\ t.slots[i].key = s.slots[i].key /\ t.slots[i].data = s.slots[i].data
      /\ t.slots[i].attrs = s.slots[i].attrs
  BY <1>1, Zenon DEF Drift, Triple
<1>3. i \in KeptSlots(s, MaxVarCount - 1)
  BY <1>1, <1>2, Zenon DEF KeptSlots, Occupied, variable_is_valid
<1> QED
  BY <1>2, <1>3, Zenon DEF KeptEntries

\* The steps keep that.
LEMMA SavedNext ==
    ASSUME PlainNames, NamedCerts = Certs, FALSE \notin XapiAnswers, InvSaved, [Next]_vars
    PROVE  InvSaved'
<1> DEFINE Now == KeptEntries(plat'.s) \subseteq Entries(xapi')
<1>0. Inv /\ Inv' /\ (running => KeptEntries(plat.s) \subseteq Entries(xapi))
  BY InvNext, Zenon DEF InvSaved
<1> SUFFICES ASSUME running' PROVE Now
  BY <1>0, Zenon DEF InvSaved
<1>1. CASE UNCHANGED vars
  BY <1>0, <1>1, Zenon DEF vars
<1>2. ASSUME NEW p, Running(p), p = plat', Push(p.s) PROVE Now
  BY <1>2, PushStep, ServerAssumption, Zenon
<1>3. ASSUME NEW r \in Requests, SetVariable(r) PROVE Now
  <2> DEFINE o == handle_set_variable(plat, r)
  <2>1. running /\ Finish(o, r)
    BY <1>3, Zenon DEF SetVariable
  <2>2. r \in PlainRequest /\ Running(plat) /\ r.signer \in NamedCerts
    BY <1>0, <2>1, RequestDone, Zenon DEF Request
  <2>3. Done(plat, o, r) /\ Running(o.p) /\ (o.st # "SUCCESS" => o.p = plat)
    BY <2>2, SetRunning, Zenon
  <2> HIDE DEF o
  <2>4. plat' = o.p
    BY <2>1, Zenon DEF Finish
  <2>5. CASE o.st = "SUCCESS" /\ "NV" \in r.attrs
    <3>1. Push(o.p.s)
      BY <2>1, <2>5, Zenon DEF Finish
    <3> QED
      BY <1>2, <2>3, <2>4, <3>1, Zenon
  <2>6. CASE o.st # "SUCCESS"
    <3>1. xapi' = xapi /\ plat' = plat
      BY <2>1, <2>3, <2>4, <2>6, Zenon DEF Finish
    <3> QED
      BY <1>0, <2>1, <3>1, Zenon
  <2>7. CASE "NV" \notin r.attrs
    <3>1. xapi' = xapi
      BY <2>1, <2>7, Zenon DEF Finish
    <3>2. Drift(plat.s, o.p.s)
      BY <2>3, <2>7, Zenon DEF Done
    <3>3. KeptEntries(o.p.s) \subseteq KeptEntries(plat.s)
      BY <2>2, <2>3, <3>2, DriftKept, Zenon DEF Running, Whole
    <3> QED
      BY <1>0, <2>1, <2>4, <3>1, <3>3, Zenon
  <2> QED
    BY <2>5, <2>6, <2>7, Zenon
<1>4. ASSUME NEW files \in AuthFiles, NEW pulled \in XapiAnswers, NEW sb \in SbSettings,
             Start(files, pulled, sb)
      PROVE  Now
  <2>1. ASSUME NEW p, Entered(p, IF pulled THEN xapi ELSE <<>>, files) PROVE Now
    <3>1. Running(plat') /\ Push(plat'.s)
      BY <2>1, Zenon DEF Entered
    <3> HIDE DEF Now
    <3> QED
      BY <1>2, <3>1, Zenon
  <2> QED
    BY <1>0, <1>1, <1>4, <2>1, StartCases, Zenon
<1>5. CASE Kill
  BY <1>5, Zenon DEF Kill
<1> QED
  BY <1>1, <1>3, <1>4, <1>5, Zenon DEF Next

\* When every certificate has a common name and the calls to XAPI succeed, XAPI
\* holds every non-volatile variable of the table between two requests, unless
\* the last slot is in use.
THEOREM AllIsSaved ==
    ASSUME PlainNames, NamedCerts = Certs, FALSE \notin XapiAnswers
    PROVE  Spec => []NothingUnsaved
<1>1. Init => InvSaved
  BY InvInit, Zenon DEF InvSaved, Init
<1>2. InvSaved /\ [Next]_vars => InvSaved'
  BY SavedNext, Zenon
<1>3. InvSaved => NothingUnsaved
  <2> SUFFICES ASSUME InvSaved, running, MaxVarCount - 1 \notin Occupied(plat.s)
               PROVE  NonVolatile(plat) \subseteq Entries(xapi)
    BY EntriesOf, Zenon DEF NothingUnsaved
  <2>1. {j \in Occupied(plat.s) : "NV" \in plat.s.slots[j].attrs}
            \subseteq KeptSlots(plat.s, MaxVarCount - 1)
    <3>1. \A j \in Occupied(plat.s) : j < MaxVarCount - 1
      BY LimitsAssumption DEF Occupied, Slots
    <3> QED
      BY <3>1, Zenon DEF KeptSlots
  <2>2. NonVolatile(plat) \subseteq KeptEntries(plat.s)
    BY <2>1, Zenon DEF NonVolatile, KeptEntries
  <2> QED
    BY <2>2, Zenon DEF InvSaved
<1> QED
  BY <1>1, <1>2, <1>3, PTL DEF Spec

-----------------------------------------------------------------------------
(***************************************************************************)
(* Names of either kind: what holds whether or not the guest counts the    *)
(* NUL of its names                                                        *)
(***************************************************************************)
\* A push of a table that is in order.
LEMMA PushOrderly ==
    ASSUME NEW s, TableOK(s), Push(s)
    PROVE  xapi' = xapi \/ (Variables(xapi') /\ Entries(xapi') = KeptEntries(s))
<1> DEFINE list == retrieve_nonvolatile_vars(s)
<1>1. Variables(list) /\ Entries(list) = KeptEntries(s)
  BY CollectedEntries, Zenon
<1>2. xapi' = list \/ xapi' = xapi
  BY Zenon DEF Push, xapi_set
<1> HIDE DEF list
<1> QED
  BY <1>1, <1>2, Zenon

\* handle_set_variable leaves a platform that is in order.
LEMMA HandleOrderly ==
    ASSUME NEW p, Orderly(p), NEW r \in Request
    PROVE  Orderly(handle_set_variable(p, r).p)
<1> DEFINE s == p.s
           n == Name(r)
           data == r.data
           attrs == r.attrs
           x == storage_set(s, n, data, attrs)
           o == handle_set_variable(p, r)
<1>1. /\ n \in NameArg /\ n.key \in Keys /\ data \in Seq(Atoms) /\ attrs \in SUBSET Attrs
      /\ TableOK(s)
  BY AnyName, Zenon DEF Orderly
<1>2. (\E st : o = Outcome(st, p)) \/ o = auth_lib_process_variable(p, r) \/ o = OnTable(p, x)
  BY Zenon DEF handle_set_variable
<1> HIDE DEF s, n, data, attrs, o
<1>3. TableOK(x.s)
  BY <1>1, SetOK
<1> HIDE DEF x
<1>4. Orderly(OnTable(p, x).p)
  BY <1>3, TableOrderly, Zenon
<1>5. \A st : Outcome(st, p).p = p
  BY DEF Outcome
<1>6. Orderly(o.p)
  BY <1>2, <1>4, <1>5, AuthOrderly, Zenon
<1> QED
  BY <1>6, Zenon DEF o

\* The table that xapi_init makes of any list of variables is in order.
LEMMA RestoredOrderly ==
    ASSUME NEW list, Variables(list)
    PROVE  TableOK(Restored(list)[Len(list)].s)
<1> DEFINE f == Restored(list)
           L == Len(list)
           Bad == {n \in 0 .. L : ~TableOK(f[n].s)}
<1>1. L \in Nat
  BY DEF Variables
<1>2. f[0] = Result("SUCCESS", EmptyTable) /\ \A n \in 1 .. L : f[n] = Restore(f[n - 1], list[n])
  <2>1. f = [n \in 0 .. L |->
               IF n = 0 THEN Result("SUCCESS", EmptyTable) ELSE Restore(f[n - 1], list[n])]
    BY <1>1, RestoredUnfolds, Zenon
  <2> HIDE DEF f, L
  <2> QED
    BY <1>1, <2>1
<1>3. ASSUME NEW s, TableOK(s), NEW v \in Variable, v.key \in Keys
      PROVE  TableOK(RestoreVariable(s, v).s)
  <2> DEFINE n == Plain(v.key)
             data == v.data
             attrs == v.attrs
             ts == v.timestamp
  <2>1. /\ n \in NameArg /\ n.key \in Keys
    BY <1>3 DEF Plain, NameArg
  <2>2. data \in Seq(Atoms) /\ attrs \in SUBSET Attrs /\ ts \in Nat
    BY <1>3, Zenon DEF Variable
  <2>3. RestoreVariable(s, v) \in {storage_set_with_timestamp(s, n, data, attrs, ts),
                                   storage_set(s, n, data, attrs)}
    BY Zenon DEF RestoreVariable
  <2> HIDE DEF n, data, attrs, ts
  <2>4. /\ TableOK(storage_set_with_timestamp(s, n, data, attrs, ts).s)
        /\ TableOK(storage_set(s, n, data, attrs).s)
    <3>1. TableOK(s)
      BY <1>3, Zenon
    <3> QED
      BY <2>1, <2>2, <3>1, SetWithTimestampOK, SetOK
  <2> QED
    BY <2>3, <2>4, Zenon
<1> HIDE DEF f, L
<1>4. TableOK(f[0].s)
  <2>1. f[0].s = EmptyTable
    BY <1>2 DEF Result
  <2> QED
    BY <2>1, EmptyTableOK, Zenon
<1>5. Bad = {}
  <2> SUFFICES ASSUME Bad # {} PROVE FALSE
    BY Zenon
  <2>1. Bad \in SUBSET Nat
    BY <1>1
  <2> DEFINE m == Min(Bad)
  <2>2. m \in Bad /\ \A j \in Bad : m <= j
    <3> HIDE DEF Bad
    <3> QED
      BY <2>1, MinIsSmallest, Zenon
  <2> HIDE DEF m
  <2>3. m \in 0 .. L /\ ~TableOK(f[m].s)
    BY <2>2, Zenon
  <2>4. m \in 1 .. L /\ m - 1 \in 0 .. L
    <3>1. m # 0
      BY <1>4, <2>3, Zenon
    <3> QED
      BY <1>1, <2>3, <3>1
  <2>5. TableOK(f[m - 1].s)
    <3>1. m - 1 \notin Bad
      <4> HIDE DEF Bad
      <4> QED
        BY <2>2, <2>4, <1>1
    <3> QED
      BY <2>4, <3>1, Zenon
  <2>6. list[m] \in Variable /\ list[m].key \in Keys
    BY <2>4 DEF Variables, L
  <2>7. f[m] = f[m - 1] \/ f[m] = RestoreVariable(f[m - 1].s, list[m])
    BY <1>2, <2>4, Zenon DEF Restore
  <2> QED
    BY <1>3, <2>3, <2>5, <2>6, <2>7, Zenon
<1>6. TableOK(f[L].s)
  BY <1>1, <1>5
<1> QED
  BY <1>6, Zenon DEF f, L

\* So is the platform after the files.
LEMMA LoadedOrderly ==
    ASSUME NEW p, Orderly(p), NEW files, Files(files), NEW read
    PROVE  Orderly(load_auth_files(p, files, read).p)
<1> DEFINE f == Loaded(p, files, read)
           L == Len(files)
           Bad == {n \in 0 .. L : ~Orderly(f[n].p)}
<1>1. L \in Nat /\ \A n \in 1 .. L : files[n].write \in Request
  BY DEF Files, PlainRequest
<1>2. f[0] = Outcome("SUCCESS", p) /\ \A n \in 1 .. L : f[n] = LoadFile(f[n - 1], files[n], n \in read)
  BY <1>1, LoadedUnfolds, Zenon
<1> HIDE DEF f, L
<1>4. Orderly(f[0].p)
  <2>1. f[0].p = p
    BY <1>2 DEF Outcome
  <2> QED
    BY <2>1, Zenon
<1>5. Bad = {}
  <2> SUFFICES ASSUME Bad # {} PROVE FALSE
    BY Zenon
  <2>1. Bad \in SUBSET Nat
    BY <1>1
  <2> DEFINE m == Min(Bad)
  <2>2. m \in Bad /\ \A j \in Bad : m <= j
    <3> HIDE DEF Bad
    <3> QED
      BY <2>1, MinIsSmallest, Zenon
  <2> HIDE DEF m
  <2>3. m \in 0 .. L /\ ~Orderly(f[m].p)
    BY <2>2, Zenon
  <2>4. m \in 1 .. L /\ m - 1 \in 0 .. L
    <3>1. m # 0
      BY <1>4, <2>3, Zenon
    <3> QED
      BY <1>1, <2>3, <3>1
  <2>5. Orderly(f[m - 1].p)
    <3>1. m - 1 \notin Bad
      <4> HIDE DEF Bad
      <4> QED
        BY <2>2, <2>4, <1>1
    <3> QED
      BY <2>4, <3>1, Zenon
  <2>6. f[m] = f[m - 1] \/ f[m] = auth_lib_process_variable(f[m - 1].p, files[m].write)
    BY <1>2, <2>4, Zenon DEF LoadFile
  <2>7. Orderly(auth_lib_process_variable(f[m - 1].p, files[m].write).p)
    BY <1>1, <2>4, <2>5, AuthOrderly, Zenon
  <2> QED
    BY <2>3, <2>5, <2>6, <2>7, Zenon
<1>6. Orderly(f[L].p)
  BY <1>1, <1>5
<1> QED
  BY <1>6, Zenon DEF f, L, load_auth_files

\* And the one auth_lib_initialize returns.
LEMMA InitializeOrderly ==
    ASSUME NEW p, Orderly(p), NEW files, Files(files), NEW read
    PROVE  Orderly(auth_lib_initialize(p, files, read).p)
<1> DEFINE a == OnTable(p, storage_set(p.s, Plain(SignatureSupport), <<1>>, VolatileAttrs))
           b == update_platform_mode(a.p, "SETUP")
           c == load_auth_files(b.p, files, read)
           d == IF storage_exists(c.p.s, Plain(PK)) THEN update_platform_mode(c.p, "USER")
                ELSE Outcome("SUCCESS", c.p)
           e == OnTable(d.p, storage_set(d.p.s, Plain(AuditMode), <<0>>, VolatileAttrs))
           o == auth_lib_initialize(p, files, read)
<1>1. o \in {a, b, c, d, e}
  BY Zenon DEF auth_lib_initialize, Then
<1>2. SignatureSupport \in Keys /\ AuditMode \in Keys /\ <<0>> \in Seq(Atoms) /\ <<1>> \in Seq(Atoms)
  <2>1. Flag(FALSE) = <<0>> /\ Flag(TRUE) = <<1>>
    BY Zenon DEF Flag
  <2> QED
    BY <2>1, FlagType, AuthAssumption, Zenon DEF ModeKeys
<1>3. Orderly(a.p)
  BY <1>2, OwnOrderly, Zenon
<1> HIDE DEF o, a
<1>4. Orderly(b.p)
  BY <1>3, ModeOrderly, Zenon
<1> HIDE DEF b
<1>5. Orderly(c.p)
  BY <1>4, LoadedOrderly, Zenon
<1> HIDE DEF c
<1>6. Orderly(d.p)
  <2>1. Outcome("SUCCESS", c.p).p = c.p
    BY DEF Outcome
  <2> QED
    BY <1>5, <2>1, ModeOrderly, Zenon
<1> HIDE DEF d
<1>7. Orderly(e.p)
  BY <1>2, <1>6, OwnOrderly, Zenon
<1> HIDE DEF e
<1>8. Orderly(o.p)
  BY <1>1, <1>3, <1>4, <1>5, <1>6, <1>7, Zenon
<1> QED
  BY <1>8, Zenon DEF o

\* What is left of the invariant.
InvAny == /\ running \in BOOLEAN
          /\ Orderly(plat)
          /\ Variables(xapi)

\* A step keeps it, and what it pushes is the table it leaves.
LEMMA AnyNext ==
    ASSUME InvAny, [Next]_vars
    PROVE  /\ InvAny'
           /\ running' /\ xapi' # xapi => Entries(xapi') = KeptEntries(plat'.s)
<1> DEFINE Goal == /\ InvAny'
                   /\ running' /\ xapi' # xapi => Entries(xapi') = KeptEntries(plat'.s)
<1>0. Orderly(NoPlatform)
  BY EmptyTableOK DEF NoPlatform, Platform, Orderly, TableOK
<1>1. CASE UNCHANGED vars
  BY <1>1, Zenon DEF InvAny, vars
<1>2. ASSUME NEW r \in Requests, SetVariable(r) PROVE Goal
  <2> DEFINE o == handle_set_variable(plat, r)
  <2>1. running' = running /\ Finish(o, r)
    BY <1>2, Zenon DEF SetVariable
  <2>2. r \in Request
    BY ServerAssumption, Zenon
  <2>3. Orderly(o.p)
    BY <2>2, HandleOrderly, Zenon DEF InvAny
  <2> HIDE DEF o
  <2>4. plat' = o.p /\ (xapi' = xapi \/ Push(o.p.s))
    BY <2>1, Zenon DEF Finish
  <2>5. xapi' = xapi \/ (Variables(xapi') /\ Entries(xapi') = KeptEntries(plat'.s))
    BY <2>3, <2>4, PushOrderly, Zenon DEF Orderly
  <2> QED
    BY <2>1, <2>3, <2>4, <2>5, Zenon DEF InvAny
<1>3. ASSUME NEW files \in AuthFiles, NEW pulled \in XapiAnswers, NEW sb \in SbSettings,
             Start(files, pulled, sb)
      PROVE  Goal
  <2> DEFINE list == IF pulled THEN xapi ELSE <<>>
             init == Restored(list)[Len(list)]
             p == [NoPlatform EXCEPT !.s = init.s, !.sb = sb]
             o == auth_lib_initialize(p, files, auth_lib_load(files))
  <2>1. Variables(list)
    <3>1. Variables(<<>>)
      <4>1. <<>> \in Seq(Variable) /\ 1 .. Len(<<>>) = {}
        OBVIOUS
      <4> QED
        BY <4>1, Zenon DEF Variables
    <3> QED
      BY <3>1, Zenon DEF InvAny
  <2>2. ~running /\ AfterInit(init, files, sb)
    BY <1>3, Zenon DEF Start, xapi_init
  <2> HIDE DEF list
  <2>3. TableOK(init.s)
    BY <2>1, RestoredOrderly, Zenon
  <2>4. \/ EnterLoop(o)
        \/ GiveUp /\ UNCHANGED xapi
        \/ GiveUp /\ Push(init.s)
    BY <2>2, Zenon DEF AfterInit, AfterAuth
  <2> HIDE DEF init
  <2>5. Orderly(p)
    <3>1. sb \in BOOLEAN /\ init.s \in Table
      BY <2>3, ServerAssumption, Zenon DEF TableOK
    <3>2. p \in Platform /\ p.s = init.s
      BY <3>1, Zenon DEF NoPlatform, Platform
    <3> QED
      BY <2>3, <3>2, Zenon DEF Orderly
  <2> HIDE DEF p
  <2>6. Orderly(o.p)
    BY <2>5, StartFiles, InitializeOrderly, Zenon
  <2> HIDE DEF o
  <2>7. CASE EnterLoop(o)
    <3>1. running' = TRUE /\ plat' = o.p /\ Push(o.p.s)
      BY <2>7, Zenon DEF EnterLoop
    <3>2. xapi' = xapi \/ (Variables(xapi') /\ Entries(xapi') = KeptEntries(plat'.s))
      BY <2>6, <3>1, PushOrderly, Zenon DEF Orderly
    <3> QED
      BY <2>6, <3>1, <3>2, Zenon DEF InvAny
  <2>8. CASE GiveUp /\ UNCHANGED xapi
    BY <2>8, Zenon DEF GiveUp, InvAny
  <2>9. CASE GiveUp /\ Push(init.s)
    <3>1. xapi' = xapi \/ Variables(xapi')
      BY <2>3, <2>9, PushOrderly, Zenon
    <3>2. running' = running /\ plat' = plat
      BY <2>9, Zenon DEF GiveUp
    <3> QED
      BY <2>2, <3>1, <3>2, Zenon DEF InvAny
  <2> QED
    BY <2>4, <2>7, <2>8, <2>9, Zenon
<1>4. CASE Kill
  BY <1>0, <1>4, Zenon DEF Kill, InvAny
<1> QED
  BY <1>1, <1>2, <1>3, <1>4, Zenon DEF Next

\* So it always holds.
LEMMA AnyInvariant == Spec => []InvAny
<1>1. Init => InvAny
  <2>1. Orderly(NoPlatform)
    BY EmptyTableOK DEF NoPlatform, Platform, Orderly, TableOK
  <2>2. <<>> \in Seq(Variable) /\ 1 .. Len(<<>>) = {}
    OBVIOUS
  <2> QED
    BY <2>1, <2>2, Zenon DEF Init, InvAny, Variables
<1>2. InvAny /\ [Next]_vars => InvAny'
  BY AnyNext, Zenon
<1> QED
  BY <1>1, <1>2, PTL DEF Spec

\* The platform and the list in XAPI keep their types, whatever the guest
\* requests and however the daemon ends and starts.
THEOREM ServerTypes == Spec => []TypeOK
<1>1. InvAny => TypeOK
  BY Zenon DEF InvAny, TypeOK, Orderly, Variables
<1> QED
  BY <1>1, AnyInvariant, PTL

\* A list that reaches XAPI is the table as the request leaves it, not as it
\* was before, whether or not a name is stored twice.
THEOREM PushesAreCurrent == Spec => PushIsCurrent
<1>1. InvAny /\ [Next]_vars => [running' /\ xapi' # xapi => Persisted' = Kept(plat')]_vars
  <2> SUFFICES ASSUME InvAny, [Next]_vars, running', xapi' # xapi
               PROVE  Persisted' = Kept(plat')
    BY Zenon
  <2>1. Entries(xapi') = KeptEntries(plat'.s)
    BY AnyNext, Zenon
  <2> QED
    BY <2>1, EntriesOf, Zenon
<1> QED
  BY <1>1, AnyInvariant, PTL DEF Spec, PushIsCurrent
=============================================================================
