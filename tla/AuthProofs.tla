------------------------------ MODULE AuthProofs -----------------------------
(***************************************************************************)
(* What the operators of AuthOps do to a table, seen by name: which        *)
(* variables a call may change, in what way, and when it changes nothing.  *)
(***************************************************************************)
EXTENDS AuthOps, TableProofs

-----------------------------------------------------------------------------
(***************************************************************************)
(* The signature filter                                                    *)
(***************************************************************************)
\* The loop of FilterSignatureList, unfolded.
LEMMA FilterUnfolds ==
    ASSUME NEW old, NEW new, Len(new) \in Nat
    PROVE  \E f : /\ f = [n \in 0 .. Len(new) |->
                            IF n = 0 THEN <<>> ELSE KeepNew(f[n - 1], new[n], old)]
                  /\ FilterSignatureList(old, new) = f[Len(new)]
<1> DEFINE P(g, m) == g = [n \in 0 .. m |->
                              IF n = 0 THEN <<>> ELSE KeepNew(g[n - 1], new[n], old)]
           Bad == {m \in Nat : ~\E g : P(g, m)}
<1>1. Bad = {}
  <2> SUFFICES ASSUME Bad # {} PROVE FALSE
    OBVIOUS
  <2> DEFINE m == Min(Bad)
  <2>1. m \in Bad /\ \A j \in Bad : m <= j
    <3>1. Bad \in SUBSET Nat
      OBVIOUS
    <3> HIDE DEF Bad
    <3> QED
      BY <3>1, MinIsSmallest, Zenon
  <2> HIDE DEF m
  <2>2. m \in Nat /\ ~\E g : P(g, m)
    BY <2>1, Zenon
  <2>3. CASE m = 0
    <3>1. P([n \in 0 .. 0 |-> <<>>], 0)
      OBVIOUS
    <3> QED
      BY <2>2, <2>3, <3>1, Zenon
  <2>4. CASE m # 0
    <3>1. m - 1 \in Nat /\ m - 1 \notin Bad
      <4> HIDE DEF Bad
      <4> QED
        BY <2>1, <2>2, <2>4
    <3>2. PICK g : P(g, m - 1)
      BY <3>1, Zenon
    <3> DEFINE h == [n \in 0 .. m |-> IF n = m THEN KeepNew(g[m - 1], new[m], old) ELSE g[n]]
    <3>3. \A n \in 0 .. m - 1 : h[n] = g[n]
      BY <2>2
    <3>4. \A n \in 0 .. m - 1 : g[n] = IF n = 0 THEN <<>> ELSE KeepNew(g[n - 1], new[n], old)
      BY <3>2, Zenon
    <3>5. \A n \in 0 .. m : h[n] = IF n = 0 THEN <<>> ELSE KeepNew(h[n - 1], new[n], old)
      BY <2>2, <2>4, <3>3, <3>4
    <3>6. P(h, m)
      BY <3>5, Zenon
    <3> QED
      BY <2>2, <3>6, Zenon
  <2> QED
    BY <2>3, <2>4, Zenon
<1>2. \E g : P(g, Len(new))
  BY <1>1, Zenon
<1>3. P(CHOOSE g : P(g, Len(new)), Len(new))
  BY <1>2, Zenon
<1>4. FilterSignatureList(old, new) = (CHOOSE g : P(g, Len(new)))[Len(new)]
  BY Zenon DEF FilterSignatureList
<1> QED
  BY <1>3, <1>4, Zenon

\* What passes the filter is a list of signatures.
LEMMA FilterType ==
    ASSUME NEW old, NEW new \in Seq(Atoms)
    PROVE  FilterSignatureList(old, new) \in Seq(Atoms)
<1>1. Len(new) \in Nat /\ \A n \in 1 .. Len(new) : new[n] \in Atoms
  OBVIOUS
<1>2. PICK f : /\ f = [n \in 0 .. Len(new) |->
                         IF n = 0 THEN <<>> ELSE KeepNew(f[n - 1], new[n], old)]
               /\ FilterSignatureList(old, new) = f[Len(new)]
  BY <1>1, FilterUnfolds, Zenon
<1>3. f[0] = <<>> /\ \A n \in 1 .. Len(new) : f[n] = KeepNew(f[n - 1], new[n], old)
  BY <1>1, <1>2
<1> DEFINE Bad == {n \in 0 .. Len(new) : f[n] \notin Seq(Atoms)}
<1>4. Bad = {}
  <2> SUFFICES ASSUME Bad # {} PROVE FALSE
    OBVIOUS
  <2>1. Bad \in SUBSET Nat
    OBVIOUS
  <2> DEFINE m == Min(Bad)
  <2>2. m \in Bad /\ \A j \in Bad : m <= j
    <3> HIDE DEF Bad
    <3> QED
      BY <2>1, MinIsSmallest, Zenon
  <2> HIDE DEF m
  <2>3. m \in 0 .. Len(new) /\ f[m] \notin Seq(Atoms)
    BY <2>2, Zenon
  <2>4. m \in 1 .. Len(new) /\ m - 1 \in 0 .. Len(new)
    <3>1. <<>> \in Seq(Atoms)
      OBVIOUS
    <3>2. m # 0
      BY <1>3, <2>3, <3>1, Zenon
    <3> QED
      BY <1>1, <2>3, <3>2
  <2>5. m - 1 \notin Bad
    <3> HIDE DEF Bad
    <3> QED
      BY <2>2, <2>4
  <2>6. f[m - 1] \in Seq(Atoms)
    BY <2>4, <2>5, Zenon
  <2>7. f[m] = KeepNew(f[m - 1], new[m], old) /\ new[m] \in Atoms
    BY <1>1, <1>3, <2>4, Zenon
  <2> QED
    BY <2>3, <2>6, <2>7 DEF KeepNew
<1>5. Len(new) \in 0 .. Len(new) /\ Len(new) \notin Bad
  BY <1>1, <1>4
<1> QED
  BY <1>2, <1>5, Zenon

-----------------------------------------------------------------------------
(***************************************************************************)
(* Authenticated updates                                                   *)
(***************************************************************************)
\* A request whose name does not count a terminating NUL.
PlainRequest == {r \in Request : ~r.nul}

\* The fields of a request.
LEMMA RequestFields ==
    ASSUME NEW r \in PlainRequest
    PROVE  /\ r.key \in Keys /\ r.attrs \in SUBSET Attrs /\ r.data \in Seq(Atoms) /\ r.ts \in Nat
           /\ r.signer \in Certs /\ r.verifies \in BOOLEAN
           /\ r \in Request /\ ~r.nul
  BY DEF PlainRequest, Request

\* Its name is the one the variable is stored under.
LEMMA PlainlyNamed ==
    ASSUME NEW r \in PlainRequest
    PROVE  Name(r) = Plain(r.key)
<1>1. r.nul = FALSE
  BY DEF PlainRequest, Request
<1> QED
  BY <1>1, Zenon DEF Name, Plain

\* A deletion, as verify_time_based_payload_and_update recognises it.
IsDel(s, r) == Known(s, r.key) /\ r.data = <<>> /\ "AP" \notin r.attrs

\* The timestamp of a variable that stays is its own or that of the request.
StampFrom(s, t, r) ==
    Known(s, r.key) /\ Known(t, r.key) =>
        At(t, r.key).timestamp \in {At(s, r.key).timestamp, r.ts}

\* What an update does, by name: a failure changes nothing, a success leaves
\* the variable known unless it is a deletion.
LEMMA UpdateVar ==
    ASSUME NEW s, Sound(s), NEW r \in PlainRequest, "AT" \in r.attrs
    PROVE  LET u == auth_internal_update_variable_with_timestamp(s, r)
           IN  /\ Sound(u.s) /\ Edit(s, u.s, r.key, r.attrs)
               /\ u.st # "SUCCESS" => u.s = s
               /\ u.st = "SUCCESS" /\ IsDel(s, r) => ~Known(u.s, r.key)
               /\ u.st = "SUCCESS" /\ ~IsDel(s, r) => Known(u.s, r.key)
               /\ StampFrom(s, u.s, r)
<1> DEFINE k == r.key
           filtered == Known(s, k) /\ "AP" \in r.attrs /\ k \in {KEK} \cup SigDbs
           data == IF filtered THEN FilterSignatureList(At(s, k).data, r.data) ELSE r.data
           q == storage_set_with_timestamp(s, Plain(k), data, r.attrs, r.ts)
           u == auth_internal_update_variable_with_timestamp(s, r)
<1>1. k \in Keys /\ r.attrs \in SUBSET Attrs /\ r.data \in Seq(Atoms) /\ r.ts \in Nat
  BY RequestFields, Zenon
<1>2. data \in Seq(Atoms)
  BY <1>1, FilterType, Zenon
<1>3. u = IF filtered /\ data = <<>> THEN Result("SUCCESS", s) ELSE q
  BY PlainlyNamed, Zenon DEF auth_internal_update_variable_with_timestamp, Known, At
<1>4. /\ filtered => Known(s, k) /\ "AP" \in r.attrs
      /\ ~filtered => data = r.data
  BY Zenon
<1> HIDE DEF filtered, data
<1>5. /\ Sound(q.s) /\ Edit(s, q.s, k, r.attrs)
      /\ q.st # "SUCCESS" => q.s = s
      /\ q.st = "SUCCESS" /\ data = <<>> =>
             "AP" \notin r.attrs /\ Known(s, k) /\ ~Known(q.s, k)
      /\ q.st = "SUCCESS" /\ data # <<>> =>
             Known(q.s, k) /\ At(q.s, k).timestamp = r.ts
  <2> DEFINE attrs == r.attrs
             ts == r.ts
  <2>1. k \in Keys /\ data \in Seq(Atoms) /\ attrs \in SUBSET Attrs /\ ts \in Nat /\ "AT" \in attrs
    BY <1>1, <1>2, Zenon
  <2>2. q = storage_set_with_timestamp(s, Plain(k), data, attrs, ts)
    BY Zenon
  <2> HIDE DEF k, q, attrs, ts
  <2>3. /\ Sound(q.s) /\ Edit(s, q.s, k, attrs)
        /\ q.st # "SUCCESS" => q.s = s
        /\ q.st = "SUCCESS" /\ data = <<>> =>
               "AP" \notin attrs /\ Known(s, k) /\ ~Known(q.s, k)
        /\ q.st = "SUCCESS" /\ data # <<>> =>
               Known(q.s, k) /\ At(q.s, k).timestamp = ts
    BY <2>1, <2>2, SetStamped
  <2> QED
    BY <2>3, Zenon DEF attrs, ts
<1> HIDE DEF q, u, k
<1>6. CASE filtered /\ data = <<>>
  <2>1. u.st = "SUCCESS" /\ u.s = s
    BY <1>3, <1>6, Zenon DEF Result
  <2>2. ~IsDel(s, r) /\ Known(s, k)
    BY <1>4, <1>6, Zenon DEF IsDel
  <2>3. Edit(s, u.s, k, r.attrs) /\ StampFrom(s, u.s, r)
    BY <2>1, NoEdit, Zenon DEF StampFrom
  <2> QED
    BY <2>1, <2>2, <2>3, Zenon DEF k, u
<1>7. CASE ~(filtered /\ data = <<>>)
  <2>1. u = q
    BY <1>3, <1>7, Zenon
  <2>2. StampFrom(s, q.s, r)
    BY <1>5, Zenon DEF StampFrom, k
  <2>3. ASSUME q.st = "SUCCESS" PROVE IF IsDel(s, r) THEN ~Known(q.s, k) ELSE Known(q.s, k)
    <3>1. CASE data = <<>>
      <4>1. IsDel(s, r)
        BY <1>4, <1>5, <1>7, <2>3, <3>1, Zenon DEF IsDel, k
      <4> QED
        BY <1>5, <2>3, <3>1, <4>1, Zenon
    <3>2. CASE data # <<>>
      <4>1. ~IsDel(s, r)
        BY <1>4, <3>2, Zenon DEF IsDel
      <4> QED
        BY <1>5, <2>3, <3>2, <4>1, Zenon
    <3> QED
      BY <3>1, <3>2, Zenon
  <2> QED
    BY <1>5, <2>1, <2>2, <2>3, Zenon DEF k, u
<1> QED
  BY <1>6, <1>7, Zenon

\* Recording the signer changes neither what is stored nor its timestamp.
LEMMA SignVar ==
    ASSUME NEW s, Sound(s), NEW r \in PlainRequest
    PROVE  LET a == RecordSigner(s, r)
           IN  /\ Sound(a.s) /\ Edit(s, a.s, r.key, r.attrs) /\ a.del = FALSE
               /\ Known(a.s, r.key) <=> Known(s, r.key)
               /\ Known(s, r.key) => At(a.s, r.key).timestamp = At(s, r.key).timestamp
               /\ a.st = "SUCCESS" => Known(s, r.key)
               /\ Known(s, r.key) /\ r.signer \in NamedCerts => a.st = "SUCCESS"
<1> DEFINE k == r.key
           n == Plain(k)
           m == Min(Matches(s, n))
           w == [s.slots[m] EXCEPT !.cert = r.signer]
           a == RecordSigner(s, r)
<1>1. k \in Keys /\ r.signer \in Certs
  BY RequestFields, Zenon
<1>2. CASE ~(Known(s, k) /\ r.signer \in NamedCerts)
  <2>1. a.st \in {"NOT_FOUND", "SECURITY_VIOLATION"} /\ a.s = s /\ a.del = FALSE
    BY <1>2, PlainlyNamed, Zenon DEF RecordSigner, Known, Answer, sha256_from_auth
  <2> HIDE DEF a, k
  <2>2. a.st # "SUCCESS" /\ Edit(s, a.s, k, r.attrs)
    BY <2>1, NoEdit, Zenon
  <2> QED
    BY <1>2, <2>1, <2>2, Zenon DEF a, k
<1>3. CASE Known(s, k) /\ r.signer \in NamedCerts
  <2>1. a = Answer("SUCCESS", PutSlot(s, m, w, 0), FALSE)
    BY <1>3, PlainlyNamed, Zenon DEF RecordSigner, Known, sha256_from_auth
  <2>2. /\ m \in Slots /\ s.slots[m] = At(s, k) /\ At(s, k).key = k /\ At(s, k) \in Variable
    BY <1>1, <1>3, KnownSlot, Zenon
  <2>3. SlotOK(s.slots[m]) /\ s \in Table /\ m \in Occupied(s)
    BY <1>1, <2>2, KeysAssumption, Zenon DEF Sound, TableOK, Occupied, variable_is_valid
  <2> HIDE DEF m, k
  <2>4. /\ w.key = k /\ w.data = At(s, k).data /\ w.attrs = At(s, k).attrs
        /\ w.timestamp = At(s, k).timestamp
    BY <2>2, Zenon DEF Variable
  <2>5. w \in Variable
    BY <1>1, <2>2, Zenon DEF Variable
  <2> HIDE DEF a, w
  <2>6. a.st = "SUCCESS" /\ a.s = PutSlot(s, m, w, 0) /\ a.del = FALSE
    BY <2>1, Zenon DEF Answer
  <2>7. SlotOK(w) /\ variable_is_valid(w)
    BY <1>1, <2>2, <2>3, <2>4, KeysAssumption, Zenon DEF SlotOK, variable_is_valid
  <2>8. TableOK(a.s)
    BY <2>2, <2>3, <2>5, <2>6, <2>7, PutSlotOK DEF Sound
  <2>9. KeysDiffer(a.s)
    BY <2>2, <2>3, <2>4, <2>6, PutSlotUnique, ZenonT(30) DEF Sound
  <2>10. Triple(w) = Triple(At(s, k))
    BY <2>2, <2>4, Zenon DEF Triple
  <2>11. SlotEdit(s.slots[m], w, k, r.attrs)
    BY <2>2, <2>4, <2>10, Zenon DEF SlotEdit
  <2>12. Edit(s, a.s, k, r.attrs) /\ a.s.slots[m] = w
    BY <2>2, <2>6, <2>11, PutEdit DEF Sound
  <2>13. Sound(a.s)
    BY <2>8, <2>9, Zenon DEF Sound
  <2>14. Known(a.s, k) /\ At(a.s, k) = w
    BY <1>1, <2>2, <2>4, <2>12, <2>13, SlotKnown, Zenon
  <2> QED
    BY <1>3, <2>4, <2>6, <2>12, <2>13, <2>14, Zenon DEF a, k
<1> QED
  BY <1>2, <1>3, Zenon

\* What a verified update does, by name.  Only when the signer has no common
\* name can it fail and still leave a trace.
LEMMA VerifiedVar ==
    ASSUME NEW s, Sound(s), NEW r \in PlainRequest, "AT" \in r.attrs, NEW type
    PROVE  LET v == verify_time_based_payload_and_update(s, r, type)
           IN  /\ Sound(v.s) /\ Edit(s, v.s, r.key, r.attrs) /\ StampFrom(s, v.s, r)
               /\ v.del \in BOOLEAN
               /\ v.st # "SUCCESS" => v.s = s \/ (Known(v.s, r.key) /\ r.signer \notin NamedCerts)
               /\ v.del => IsDel(s, r)
               /\ v.s # s => Verified(s, r, type) /\ ~Stale(s, r)
               /\ v.st = "SUCCESS" /\ v.del => ~Known(v.s, r.key)
               /\ v.st = "SUCCESS" /\ ~v.del => Known(v.s, r.key)
<1> DEFINE k == r.key
           verdict == verify_time_based_payload(s, r, type)
           u == auth_internal_update_variable_with_timestamp(s, r)
           a == RecordSigner(u.s, r)
           v == verify_time_based_payload_and_update(s, r, type)
<1>1. k \in Keys
  BY RequestFields, Zenon
<1>2. /\ verdict # "SUCCESS" => v = Answer(verdict, s, FALSE)
      /\ verdict = "SUCCESS" /\ u.st # "SUCCESS" => v = Answer(u.st, u.s, FALSE)
      /\ verdict = "SUCCESS" /\ u.st = "SUCCESS" /\ IsDel(s, r) => v = Answer("SUCCESS", u.s, TRUE)
      /\ verdict = "SUCCESS" /\ u.st = "SUCCESS" /\ ~IsDel(s, r) => v = a
  BY PlainlyNamed, Zenon DEF verify_time_based_payload_and_update, AfterUpdate, IsDel, Known
<1>3. verdict = "SUCCESS" => Verified(s, r, type) /\ ~Stale(s, r)
  BY Zenon DEF verify_time_based_payload
<1>4. /\ Sound(u.s) /\ Edit(s, u.s, k, r.attrs)
      /\ u.st # "SUCCESS" => u.s = s
      /\ u.st = "SUCCESS" /\ IsDel(s, r) => ~Known(u.s, k)
      /\ u.st = "SUCCESS" /\ ~IsDel(s, r) => Known(u.s, k)
      /\ StampFrom(s, u.s, r)
  BY UpdateVar, Zenon
<1> HIDE DEF u
<1>5. /\ Sound(a.s) /\ Edit(u.s, a.s, k, r.attrs) /\ a.del = FALSE
      /\ Known(a.s, k) <=> Known(u.s, k)
      /\ Known(u.s, k) => At(a.s, k).timestamp = At(u.s, k).timestamp
      /\ Known(u.s, k) /\ r.signer \in NamedCerts => a.st = "SUCCESS"
  BY <1>4, SignVar, Zenon
<1>6. Edit(s, a.s, k, r.attrs)
  BY <1>4, <1>5, EditTwice, Zenon
<1> HIDE DEF verdict, a, v
<1>7. Edit(s, s, k, r.attrs) /\ StampFrom(s, s, r)
  BY NoEdit, Zenon DEF StampFrom
<1>8. CASE verdict # "SUCCESS"
  <2>1. v.st = verdict /\ v.s = s /\ v.del = FALSE
    BY <1>2, <1>8 DEF Answer
  <2> QED
    BY <1>7, <1>8, <2>1, Zenon DEF v, k
<1>9. CASE verdict = "SUCCESS" /\ u.st # "SUCCESS"
  <2>1. v.st = u.st /\ v.s = s /\ v.del = FALSE
    BY <1>2, <1>4, <1>9 DEF Answer
  <2> QED
    BY <1>7, <1>9, <2>1, Zenon DEF v, k
<1>10. CASE verdict = "SUCCESS" /\ u.st = "SUCCESS" /\ IsDel(s, r)
  <2>1. v.st = "SUCCESS" /\ v.s = u.s /\ v.del = TRUE
    BY <1>2, <1>10 DEF Answer
  <2> QED
    BY <1>3, <1>4, <1>10, <2>1, Zenon DEF v, k
<1>11. CASE verdict = "SUCCESS" /\ u.st = "SUCCESS" /\ ~IsDel(s, r)
  <2>1. v = a /\ Known(u.s, k)
    BY <1>2, <1>4, <1>11, Zenon
  <2>2. StampFrom(s, a.s, r)
    BY <1>4, <1>5, <2>1, Zenon DEF StampFrom, k
  <2> QED
    BY <1>3, <1>5, <1>6, <1>11, <2>1, <2>2, Zenon DEF v, k
<1> QED
  BY <1>8, <1>9, <1>10, <1>11, Zenon

\* What an update in setup mode does, by name.
LEMMA SetupVar ==
    ASSUME NEW s, Sound(s), NEW r \in PlainRequest, "AT" \in r.attrs
    PROVE  LET u == SetupModeUpdate(s, r)
           IN  /\ Sound(u.s) /\ Edit(s, u.s, r.key, r.attrs)
               /\ u.st # "SUCCESS" => u.s = s
               /\ u.st = "SUCCESS" /\ ~IsDel(s, r) => Known(u.s, r.key)
<1> DEFINE format == check_signature_list_format(r.key, r.data)
           u == SetupModeUpdate(s, r)
<1>1. CASE format # "SUCCESS"
  <2>1. u.st # "SUCCESS" /\ u.s = s
    BY <1>1, Zenon DEF SetupModeUpdate, Result
  <2> HIDE DEF u
  <2> QED
    BY <2>1, NoEdit, Zenon DEF u
<1>2. CASE format = "SUCCESS"
  <2>1. u = auth_internal_update_variable_with_timestamp(s, r)
    BY <1>2, Zenon DEF SetupModeUpdate
  <2> HIDE DEF u
  <2> QED
    BY <2>1, UpdateVar, Zenon DEF u
<1> QED
  BY <1>1, <1>2, Zenon

-----------------------------------------------------------------------------
(***************************************************************************)
(* The mode variables                                                      *)
(***************************************************************************)
\* A table is replaced and the rest of the platform kept.
LEMMA OnTableFields ==
    ASSUME NEW p \in Platform, NEW r, r.s \in Table
    PROVE  /\ OnTable(p, r).st = r.st /\ OnTable(p, r).p \in Platform
           /\ OnTable(p, r).p.s = r.s
           /\ OnTable(p, r).p.mode = p.mode /\ OnTable(p, r).p.sb = p.sb
           /\ r.s = p.s => OnTable(p, r).p = p
<1> DEFINE q == [p EXCEPT !.s = r.s]
<1>1. q \in Platform /\ q.s = r.s /\ q.mode = p.mode /\ q.sb = p.sb
  BY DEF Platform
<1>2. r.s = p.s => q = p
  BY Zenon DEF Platform
<1>3. OnTable(p, r).st = r.st /\ OnTable(p, r).p = q
  BY DEF OnTable, Outcome
<1> HIDE DEF q
<1> QED
  BY <1>1, <1>2, <1>3, Zenon

\* Holding the same variable is transitive.
LEMMA SameTwice ==
    ASSUME NEW s, NEW t, NEW u, NEW k, Same(s, t, k), Same(t, u, k)
    PROVE  Same(s, u, k)
  BY Zenon DEF Same

\* A variable of the daemon's own, with or without its content.
Held(s, k) == Known(s, k) /\ At(s, k).attrs = VolatileAttrs /\ Fits(k)
Told(s, k, data) == Held(s, k) /\ At(s, k).data = data

\* A known variable stays, with its timestamp.
Stays(s, t, k) == Known(s, k) => Known(t, k) /\ At(t, k).timestamp = At(s, k).timestamp

\* What writing a variable of the daemon's own does.
Tells(p, o, k, data) ==
    /\ o.p \in Platform /\ Sound(o.p.s) /\ o.p.mode = p.mode /\ o.p.sb = p.sb
    /\ \A j \in Keys : j # k => Same(p.s, o.p.s, j)
    /\ Stays(p.s, o.p.s, k)
    /\ NamesFit(p.s) => NamesFit(o.p.s)
    /\ o.st = "SUCCESS" => Told(o.p.s, k, data)
    /\ o.st # "SUCCESS" => o.p = p
    /\ Held(p.s, k) => o.st = "SUCCESS"

\* The attributes of those variables.
LEMMA VolatileSet ==
    /\ VolatileAttrs \in SUBSET Attrs /\ VolatileAttrs \ {"AP"} = VolatileAttrs
    /\ VolatileAttrs # {} /\ "AP" \notin VolatileAttrs
    /\ "NV" \notin VolatileAttrs /\ "AT" \notin VolatileAttrs
  BY Zenon DEF VolatileAttrs, Attrs

\* storage_set with such attributes does that.
LEMMA TellVar ==
    ASSUME NEW p \in Platform, Sound(p.s), NEW k \in Keys, NEW data \in Seq(Atoms),
           data # <<>>, Len(data) <= MaxDataSize
    PROVE  Tells(p, OnTable(p, storage_set(p.s, Plain(k), data, VolatileAttrs)), k, data)
<1> DEFINE s == p.s
           a == VolatileAttrs
           r == storage_set(s, Plain(k), data, a)
           o == OnTable(p, r)
<1>1. a \in SUBSET Attrs /\ a \ {"AP"} = a /\ a # {} /\ "AP" \notin a
  BY VolatileSet, Zenon
<1>2. ~Removes(data, a)
  BY <1>1, Zenon DEF Removes
<1> HIDE DEF a
<1>3. /\ Sound(r.s) /\ Edit(s, r.s, k, a)
      /\ r.st # "SUCCESS" => r.s = s
      /\ r.st = "SUCCESS" => Fits(k)
      /\ r.st = "SUCCESS" =>
             /\ Known(r.s, k) /\ At(r.s, k).attrs = a /\ At(r.s, k).data = data
             /\ Known(s, k) => Kin(At(s, k), At(r.s, k), a)
  <2> HIDE DEF s, r
  <2>1. Sound(s) /\ r = storage_set(s, Plain(k), data, a)
    BY Zenon DEF s, r
  <2>2. /\ Sound(r.s) /\ Edit(s, r.s, k, a)
        /\ r.st # "SUCCESS" => r.s = s
        /\ r.st = "SUCCESS" => Fits(k)
        /\ r.st = "SUCCESS" /\ ~Removes(data, a) =>
               /\ Known(r.s, k) /\ At(r.s, k).attrs = a \ {"AP"}
               /\ "AP" \notin a => At(r.s, k).data = data
               /\ Known(s, k) => Kin(At(s, k), At(r.s, k), a)
    BY <1>1, <2>1, SetVar
  <2> QED
    BY <1>1, <1>2, <2>2, Zenon
<1>4. Held(s, k) => r.st = "SUCCESS"
  <2> SUFFICES ASSUME Held(s, k) PROVE r.st = "SUCCESS"
    BY Zenon
  <2> HIDE DEF s, r
  <2>1. Sound(s) /\ r = storage_set(s, Plain(k), data, a)
    BY Zenon DEF s, r
  <2>2. Known(s, k) /\ NameSize[k] <= MaxNameSize
    BY Zenon DEF Held, Fits
  <2>3. At(s, k).attrs = a \ {"AP"}
    BY <1>1, Zenon DEF Held, a
  <2>4. NewData(At(s, k), data, a) = data
    BY <1>1, Zenon DEF NewData
  <2>5. a \in SUBSET Attrs
    BY <1>1, Zenon
  <2> QED
    BY <1>2, <2>1, <2>2, <2>3, <2>4, <2>5, SetKnown
<1> HIDE DEF r
<1>5. /\ o.st = r.st /\ o.p \in Platform /\ o.p.s = r.s
      /\ o.p.mode = p.mode /\ o.p.sb = p.sb
      /\ r.s = s => o.p = p
  BY <1>3, OnTableFields DEF Sound, TableOK
<1> HIDE DEF s, o
<1>6. Sound(s) /\ s = p.s
  BY Zenon DEF s
<1>7. \A j \in Keys : j # k => Same(s, o.p.s, j)
  BY <1>3, <1>5, <1>6, EditOthers, Zenon
<1>8. Stays(s, o.p.s, k)
  BY <1>3, <1>5, <1>6, Zenon DEF Stays, Kin
<1>9. r.st = "SUCCESS" => Told(r.s, k, data)
  BY <1>3, Zenon DEF Told, Held, a
<1>10. NamesFit(s) => NamesFit(o.p.s)
  BY <1>3, <1>5, <1>6, EditFits, Zenon
<1> QED
  BY <1>3, <1>4, <1>5, <1>6, <1>7, <1>8, <1>9, <1>10, Zenon DEF Tells, o, r, s, a

ModeVars == {SecureBoot, SetupMode, DeployedMode}

\* The mode variables are there, and say what the platform is.
Shown(p) == /\ Told(p.s, SecureBoot, Flag(p.mode = "USER" /\ p.sb))
            /\ Told(p.s, SetupMode, Flag(p.mode = "SETUP"))
            /\ Told(p.s, DeployedMode, Flag(p.mode = "SETUP"))
ModesHeld(s) == \A k \in ModeVars : Held(s, k)

\* A flag is one atom, which a variable has room for.
LEMMA FlagType ==
    ASSUME NEW b
    PROVE  Flag(b) \in Seq(Atoms) /\ Flag(b) # <<>> /\ Len(Flag(b)) <= MaxDataSize
<1>1. 0 \in Atoms /\ 1 \in Atoms
  BY AuthAssumption, Zenon
<1>2. <<0>> \in Seq(Atoms) /\ <<1>> \in Seq(Atoms) /\ Len(<<0>>) = 1 /\ Len(<<1>>) = 1
  BY <1>1
<1>3. MaxDataSize \in Nat /\ MaxDataSize >= 1
  BY LimitsAssumption
<1>4. Flag(b) \in {<<0>>, <<1>>}
  BY Zenon DEF Flag
<1>5. Len(Flag(b)) = 1 /\ Flag(b) \in Seq(Atoms)
  BY <1>2, <1>4, Zenon
<1>6. Len(Flag(b)) <= MaxDataSize
  BY <1>3, <1>5, Zenon
<1>7. Flag(b) # <<>>
  BY <1>4
<1> QED
  BY <1>5, <1>6, <1>7, Zenon

\* Report writes such a variable.
LEMMA ReportVar ==
    ASSUME NEW p \in Platform, Sound(p.s), NEW k \in Keys, NEW b
    PROVE  Tells(p, Report(p, k, b), k, Flag(b))
  BY FlagType, TellVar, Zenon DEF Report

\* The names of the mode variables are three different ones.
LEMMA ModeNames ==
    /\ SecureBoot \in Keys /\ SetupMode \in Keys /\ DeployedMode \in Keys
    /\ SecureBoot # SetupMode /\ SecureBoot # DeployedMode /\ SetupMode # DeployedMode
    /\ ModeVars \subseteq ModeKeys
    /\ PK \in Keys /\ KEK \in Keys /\ SigDbs \subseteq Keys
    /\ PK \notin ModeKeys /\ KEK \notin ModeKeys /\ SigDbs \cap ModeKeys = {}
  BY AuthAssumption, Zenon DEF ModeVars, ModeKeys

\* What a change of mode does: the mode is set even if a write fails, the
\* other variables are left alone, and it succeeds when the variables are
\* there already.
SetsMode(p, o, mode) ==
    /\ o.p \in Platform /\ Sound(o.p.s) /\ o.p.mode = mode /\ o.p.sb = p.sb
    /\ \A j \in Keys \ ModeVars : Same(p.s, o.p.s, j)
    /\ \A j \in ModeVars : Stays(p.s, o.p.s, j)
    /\ NamesFit(p.s) => NamesFit(o.p.s)
    /\ o.st = "SUCCESS" => Shown(o.p)
    /\ ModesHeld(p.s) => o.st = "SUCCESS"

\* update_platform_mode is such a change of mode.
LEMMA ModeUpdate ==
    ASSUME NEW p \in Platform, Sound(p.s), NEW mode \in {"SETUP", "USER"}
    PROVE  SetsMode(p, update_platform_mode(p, mode), mode)
<1> DEFINE b == mode = "USER" /\ p.sb
           c == mode = "SETUP"
           q == [p EXCEPT !.mode = mode]
           x == Report(q, SecureBoot, b)
           y == Report(x.p, SetupMode, c)
           z == Report(y.p, DeployedMode, c)
           o == update_platform_mode(p, mode)
<1>1. q \in Platform /\ q.s = p.s /\ q.mode = mode /\ q.sb = p.sb
  BY DEF Platform
<1>2. /\ x.st # "SUCCESS" => o = x
      /\ x.st = "SUCCESS" /\ y.st # "SUCCESS" => o = y
      /\ x.st = "SUCCESS" /\ y.st = "SUCCESS" => o = z
  BY Zenon DEF update_platform_mode, Then
<1> HIDE DEF b, c, q, o
<1>3. Tells(q, x, SecureBoot, Flag(b))
  BY <1>1, ReportVar, ModeNames, Zenon
<1> HIDE DEF x
<1>4. Tells(x.p, y, SetupMode, Flag(c))
  BY <1>3, ReportVar, ModeNames DEF Tells
<1> HIDE DEF y
<1>5. Tells(y.p, z, DeployedMode, Flag(c))
  BY <1>4, ReportVar, ModeNames DEF Tells
<1> HIDE DEF z
<1>6. Same(p.s, p.s, SetupMode) /\ Same(p.s, p.s, DeployedMode)
  BY Zenon DEF Same
<1>7. Flag(b) = Flag(mode = "USER" /\ p.sb) /\ Flag(c) = Flag(mode = "SETUP")
  BY Zenon DEF b, c
<1>8. \A s, t, j : Same(s, t, j) => Stays(s, t, j) /\ (Held(s, j) => Held(t, j))
                                    /\ \A d : Told(s, j, d) => Told(t, j, d)
  BY Zenon DEF Same, Stays, Held, Told
<1>9. CASE x.st # "SUCCESS"
  <2>1. o = x /\ x.p = q
    BY <1>2, <1>3, <1>9, Zenon DEF Tells
  <2>2. ~ModesHeld(p.s)
    BY <1>1, <1>3, <1>9, Zenon DEF Tells, ModesHeld, ModeVars
  <2> QED
    BY <1>1, <1>9, <2>1, <2>2, Zenon DEF SetsMode, Same, Stays, o
<1>10. CASE x.st = "SUCCESS" /\ y.st # "SUCCESS"
  <2>1. o = y /\ y.p = x.p
    BY <1>2, <1>4, <1>10, Zenon DEF Tells
  <2>2. Same(p.s, x.p.s, SetupMode)
    BY <1>1, <1>3, ModeNames, Zenon DEF Tells
  <2>3. ~Held(p.s, SetupMode)
    BY <1>4, <1>8, <1>10, <2>2, Zenon DEF Tells
  <2>4. /\ x.p \in Platform /\ Sound(x.p.s) /\ x.p.mode = mode /\ x.p.sb = p.sb
        /\ \A j \in Keys : j # SecureBoot => Same(p.s, x.p.s, j)
        /\ Stays(p.s, x.p.s, SecureBoot)
        /\ NamesFit(p.s) => NamesFit(x.p.s)
    BY <1>1, <1>3, Zenon DEF Tells
  <2> QED
    BY <1>8, <1>10, <2>1, <2>3, <2>4, ModeNames DEF SetsMode, ModesHeld, ModeVars, o
<1>11. CASE x.st = "SUCCESS" /\ y.st = "SUCCESS"
  <2>1. o = z
    BY <1>2, <1>11, Zenon
  <2>2. /\ \A j \in Keys : j # SecureBoot => Same(p.s, x.p.s, j)
        /\ \A j \in Keys : j # SetupMode => Same(x.p.s, y.p.s, j)
        /\ \A j \in Keys : j # DeployedMode => Same(y.p.s, z.p.s, j)
    BY <1>1, <1>3, <1>4, <1>5, Zenon DEF Tells
  <2>3. /\ z.p \in Platform /\ Sound(z.p.s) /\ z.p.mode = mode /\ z.p.sb = p.sb
        /\ NamesFit(p.s) => NamesFit(z.p.s)
    BY <1>1, <1>3, <1>4, <1>5, Zenon DEF Tells
  <2>4. \A j \in Keys \ ModeVars : Same(p.s, z.p.s, j)
    BY <2>2, SameTwice DEF ModeVars
  <2>5. \A s, t, u, j : Stays(s, t, j) /\ Stays(t, u, j) => Stays(s, u, j)
    BY Zenon DEF Stays
  <2>6. \A j \in ModeVars : Stays(p.s, x.p.s, j) /\ Stays(x.p.s, y.p.s, j) /\ Stays(y.p.s, z.p.s, j)
    BY <1>1, <1>3, <1>4, <1>5, <1>8, <2>2, ModeNames DEF Tells, ModeVars
  <2>7. \A j \in ModeVars : Stays(p.s, z.p.s, j)
    BY <2>5, <2>6
  <2>8. Told(x.p.s, SecureBoot, Flag(b)) /\ Told(y.p.s, SetupMode, Flag(c))
    BY <1>3, <1>4, <1>11, Zenon DEF Tells
  <2>9. Told(z.p.s, SecureBoot, Flag(b)) /\ Told(z.p.s, SetupMode, Flag(c))
    BY <1>8, <2>2, <2>8, ModeNames
  <2>10. z.st = "SUCCESS" => Shown(z.p)
    <3>1. z.st = "SUCCESS" => Told(z.p.s, DeployedMode, Flag(c))
      BY <1>5, Zenon DEF Tells
    <3> QED
      BY <1>7, <2>3, <2>9, <3>1, Zenon DEF Shown
  <2>11. ModesHeld(p.s) => z.st = "SUCCESS"
    <3>1. Held(p.s, DeployedMode) => Held(y.p.s, DeployedMode)
      BY <1>8, <2>2, ModeNames
    <3> QED
      BY <1>5, <3>1, Zenon DEF Tells, ModesHeld, ModeVars
  <2> QED
    BY <2>1, <2>3, <2>4, <2>7, <2>10, <2>11, Zenon DEF SetsMode, o
<1> QED
  BY <1>9, <1>10, <1>11, Zenon

-----------------------------------------------------------------------------
(***************************************************************************)
(* What a request does to a platform                                       *)
(***************************************************************************)
\* It leaves the mode and the other variables alone.
Steady(p, o, r) ==
    /\ o.p \in Platform /\ Sound(o.p.s) /\ o.p.mode = p.mode /\ o.p.sb = p.sb
    /\ \A j \in Keys : j # r.key => Same(p.s, o.p.s, j)
    /\ NamesFit(p.s) => NamesFit(o.p.s)

\* Or it may change the mode, with the variables that tell it.
Frame(p, o, r) ==
    /\ o.p \in Platform /\ Sound(o.p.s) /\ o.p.sb = p.sb /\ Shown(o.p)
    /\ \A j \in Keys : j # r.key /\ j \notin ModeVars => Same(p.s, o.p.s, j)
    /\ \A j \in ModeVars : Stays(p.s, o.p.s, j)
    /\ NamesFit(p.s) => NamesFit(o.p.s)

\* Without an append a timestamp does not move back.
Advance(s, t, r) ==
    "AP" \notin r.attrs /\ Known(s, r.key) /\ Known(t, r.key) =>
        At(s, r.key).timestamp <= At(t, r.key).timestamp

\* An edit of the table is steady.
LEMMA EditSteady ==
    ASSUME NEW p \in Platform, Sound(p.s), NEW r \in PlainRequest, NEW attrs, NEW x, Sound(x.s),
           Edit(p.s, x.s, r.key, attrs)
    PROVE  LET o == OnTable(p, x)
           IN  /\ Steady(p, o, r) /\ o.st = x.st /\ o.p.s = x.s
               /\ x.s = p.s => o.p = p
<1> DEFINE o == OnTable(p, x)
<1>1. /\ o.st = x.st /\ o.p \in Platform /\ o.p.s = x.s
      /\ o.p.mode = p.mode /\ o.p.sb = p.sb
      /\ x.s = p.s => o.p = p
  BY OnTableFields DEF Sound, TableOK
<1> HIDE DEF o
<1>2. r.key \in Keys
  BY RequestFields, Zenon
<1>3. \A j \in Keys : j # r.key => Same(p.s, x.s, j)
  BY <1>2, EditOthers, Zenon
<1>4. NamesFit(p.s) => NamesFit(x.s)
  BY <1>2, EditFits, Zenon
<1> QED
  BY <1>1, <1>3, <1>4, Zenon DEF Steady, o

\* Nothing done is steady.
LEMMA NothingSteady ==
    ASSUME NEW p \in Platform, Sound(p.s), NEW r, NEW st
    PROVE  LET o == Outcome(st, p) IN Steady(p, o, r) /\ o.p = p /\ o.st = st
  BY Zenon DEF Outcome, Steady, Same

\* What is steady shows the mode as before.
LEMMA SteadyFrame ==
    ASSUME NEW p, Shown(p), NEW r, r.key \notin ModeVars, NEW o, Steady(p, o, r)
    PROVE  Frame(p, o, r)
<1>1. \A j \in ModeVars : j \in Keys /\ j # r.key
  BY ModeNames, Zenon DEF ModeVars
<1>2. \A j \in ModeVars : Same(p.s, o.p.s, j)
  BY <1>1, Zenon DEF Steady
<1>3. \A j \in ModeVars : Stays(p.s, o.p.s, j) /\ \A d : Told(p.s, j, d) => Told(o.p.s, j, d)
  BY <1>2, Zenon DEF Same, Stays, Told, Held
<1>4. Shown(o.p)
  <2> DEFINE b == Flag(p.mode = "USER" /\ p.sb)
             c == Flag(p.mode = "SETUP")
  <2>1. b = Flag(o.p.mode = "USER" /\ o.p.sb) /\ c = Flag(o.p.mode = "SETUP")
    BY Zenon DEF Steady
  <2>2. Told(p.s, SecureBoot, b) /\ Told(p.s, SetupMode, c) /\ Told(p.s, DeployedMode, c)
    BY Zenon DEF Shown
  <2> HIDE DEF b, c
  <2>3. Told(o.p.s, SecureBoot, b) /\ Told(o.p.s, SetupMode, c) /\ Told(o.p.s, DeployedMode, c)
    BY <1>3, <2>2, Zenon DEF ModeVars
  <2> QED
    BY <2>1, <2>3, Zenon DEF Shown
<1> QED
  BY <1>3, <1>4, Zenon DEF Frame, Steady

\* A timestamp that is not stale is later.
LEMMA FreshAdvances ==
    ASSUME NEW s, Sound(s), NEW t, Sound(t), NEW r \in PlainRequest, StampFrom(s, t, r),
           t # s => ~Stale(s, r)
    PROVE  Advance(s, t, r)
<1>1. SUFFICES ASSUME "AP" \notin r.attrs, Known(s, r.key), Known(t, r.key)
               PROVE  At(s, r.key).timestamp <= At(t, r.key).timestamp
  BY Zenon DEF Advance
<1>2. At(s, r.key).timestamp \in Nat /\ r.ts \in Nat
  <2>1. At(s, r.key) \in Variable
    BY <1>1, KnownSlot, RequestFields, Zenon
  <2> QED
    BY <2>1, RequestFields, Zenon DEF Variable
<1>3. CASE t = s
  BY <1>2, <1>3
<1>4. CASE t # s
  <2>1. ~(r.ts <= At(s, r.key).timestamp)
    BY <1>1, <1>4, PlainlyNamed, Zenon DEF Stale, Known, At
  <2>2. At(t, r.key).timestamp \in {At(s, r.key).timestamp, r.ts}
    BY <1>1, Zenon DEF StampFrom
  <2> QED
    BY <1>2, <2>1, <2>2
<1> QED
  BY <1>3, <1>4, Zenon

\* A verified update: it changes something only for a verified request with a
\* fresh timestamp.
VerifiedWrite(p, o, r, type) ==
    /\ Steady(p, o, r) /\ Edit(p.s, o.p.s, r.key, r.attrs)
    /\ Advance(p.s, o.p.s, r)
    /\ o.p # p => Verified(p.s, r, type)
    /\ o.st # "SUCCESS" => o.p = p \/ (Known(o.p.s, r.key) /\ r.signer \notin NamedCerts)
    /\ o.st = "SUCCESS" /\ ~Known(p.s, r.key) => Known(o.p.s, r.key)

\* verify_time_based_payload_and_update is such a write, for a trust anchor or
\* a private variable.
LEMMA VerifiedStep ==
    ASSUME NEW p \in Platform, Sound(p.s), NEW r \in PlainRequest, "AT" \in r.attrs, NEW type
    PROVE  VerifiedWrite(p, OnTable(p, verify_time_based_payload_and_update(p.s, r, type)), r, type)
<1> DEFINE s == p.s
           v == verify_time_based_payload_and_update(s, r, type)
           o == OnTable(p, v)
<1>1. /\ Sound(v.s) /\ Edit(s, v.s, r.key, r.attrs) /\ StampFrom(s, v.s, r)
      /\ v.del \in BOOLEAN
      /\ v.st # "SUCCESS" => v.s = s \/ (Known(v.s, r.key) /\ r.signer \notin NamedCerts)
      /\ v.del => IsDel(s, r)
      /\ v.s # s => Verified(s, r, type) /\ ~Stale(s, r)
      /\ v.st = "SUCCESS" /\ v.del => ~Known(v.s, r.key)
      /\ v.st = "SUCCESS" /\ ~v.del => Known(v.s, r.key)
  BY VerifiedVar, Zenon
<1> HIDE DEF v
<1>2. /\ Steady(p, o, r) /\ o.st = v.st /\ o.p.s = v.s
      /\ v.s = p.s => o.p = p
  BY <1>1, EditSteady
<1> HIDE DEF o
<1>3. Advance(s, v.s, r)
  BY <1>1, FreshAdvances, Zenon
<1>4. v.st = "SUCCESS" /\ ~Known(s, r.key) => Known(v.s, r.key)
  BY <1>1, Zenon DEF IsDel
<1> QED
  BY <1>1, <1>2, <1>3, <1>4, Zenon DEF VerifiedWrite, o, v

\* An update in setup mode.
SetupWrite(p, o, r) ==
    /\ Steady(p, o, r) /\ Edit(p.s, o.p.s, r.key, r.attrs)
    /\ o.st # "SUCCESS" => o.p = p
    /\ o.st = "SUCCESS" /\ ~Known(p.s, r.key) => Known(o.p.s, r.key)

\* In setup mode the signature is not looked at.
LEMMA SetupStep ==
    ASSUME NEW p \in Platform, Sound(p.s), NEW r \in PlainRequest, "AT" \in r.attrs
    PROVE  SetupWrite(p, OnTable(p, SetupModeUpdate(p.s, r)), r)
<1> DEFINE s == p.s
           v == SetupModeUpdate(s, r)
           o == OnTable(p, v)
<1>1. /\ Sound(v.s) /\ Edit(s, v.s, r.key, r.attrs)
      /\ v.st # "SUCCESS" => v.s = s
      /\ v.st = "SUCCESS" /\ ~IsDel(s, r) => Known(v.s, r.key)
  BY SetupVar, Zenon
<1> HIDE DEF v
<1>2. /\ Steady(p, o, r) /\ o.st = v.st /\ o.p.s = v.s
      /\ v.s = p.s => o.p = p
  BY <1>1, EditSteady
<1> HIDE DEF o
<1>3. v.st = "SUCCESS" /\ ~Known(s, r.key) => Known(v.s, r.key)
  BY <1>1, Zenon DEF IsDel
<1> QED
  BY <1>1, <1>2, <1>3, Zenon DEF SetupWrite, o, v

\* The two halves of the agreement between the mode and the PK.
UserHasPK(p) == p.mode = "USER" => Known(p.s, PK)
SetupHasNone(p) == p.mode = "SETUP" => ~Known(p.s, PK)

\* What every request keeps.  A refused one can only leave a trace when its
\* signer has no common name.
Writes(p, o, r) ==
    /\ Frame(p, o, r)
    /\ o.st # "SUCCESS" => o.p = p \/ r.signer \notin NamedCerts
    /\ UserHasPK(p) => UserHasPK(o.p)
    /\ r.signer \in NamedCerts /\ SetupHasNone(p) => SetupHasNone(o.p)

\* A write that leaves PK and the mode alone is one of these.
LEMMA SteadyWrites ==
    ASSUME NEW p, Shown(p), NEW r, r.key \notin ModeVars, r.key # PK, NEW o, Steady(p, o, r),
           o.st # "SUCCESS" => o.p = p \/ r.signer \notin NamedCerts
    PROVE  Writes(p, o, r)
<1>1. Same(p.s, o.p.s, PK) /\ o.p.mode = p.mode
  BY ModeNames, Zenon DEF Steady
<1> QED
  BY <1>1, SteadyFrame, Zenon DEF Writes, UserHasPK, SetupHasNone, Same

\* So is a request that is refused at once.
LEMMA NothingWrites ==
    ASSUME NEW p \in Platform, Sound(p.s), Shown(p), NEW r, NEW st
    PROVE  Writes(p, Outcome(st, p), r)
<1> DEFINE o == Outcome(st, p)
<1>1. o.p = p
  BY Zenon DEF Outcome
<1> HIDE DEF o
<1>2. \A s, j : Same(s, s, j) /\ Stays(s, s, j)
  BY Zenon DEF Same, Stays
<1> QED
  BY <1>1, <1>2, Zenon DEF Writes, Frame, o

\* Enrolling, replacing and deleting the PK.
LEMMA PkStep ==
    ASSUME NEW p \in Platform, Sound(p.s), Shown(p), NEW r \in PlainRequest, r.key = PK,
           "AT" \in r.attrs, NEW type
    PROVE  LET o == FollowPK(p, verify_time_based_payload_and_update(p.s, r, type))
           IN  /\ Writes(p, o, r)
               /\ ~Same(p.s, o.p.s, PK) => Verified(p.s, r, type)
               /\ Advance(p.s, o.p.s, r)
               /\ o.st = "SUCCESS" /\ ~Known(p.s, PK) => Known(o.p.s, PK)
<1> DEFINE s == p.s
           v == verify_time_based_payload_and_update(s, r, type)
           w == OnTable(p, v)
           q == [p EXCEPT !.s = v.s]
           mode == IF v.del THEN "SETUP" ELSE "USER"
           switch == v.st = "SUCCESS" /\ (p.mode = "SETUP" <=> ~v.del)
           o == FollowPK(p, v)
<1>1. /\ Sound(v.s) /\ Edit(s, v.s, r.key, r.attrs) /\ StampFrom(s, v.s, r)
      /\ v.del \in BOOLEAN
      /\ v.del => IsDel(s, r)
      /\ v.s # s => Verified(s, r, type) /\ ~Stale(s, r)
      /\ v.st = "SUCCESS" /\ v.del => ~Known(v.s, r.key)
      /\ v.st = "SUCCESS" /\ ~v.del => Known(v.s, r.key)
  BY VerifiedVar, Zenon
<1>2. VerifiedWrite(p, w, r, type)
  BY VerifiedStep, Zenon
<1> HIDE DEF v
<1>3. /\ w.st = v.st /\ w.p.s = v.s /\ w.p = q
      /\ q \in Platform /\ q.s = v.s /\ q.sb = p.sb /\ q.mode = p.mode
  <2>1. v.s \in Table
    BY <1>1, Zenon DEF Sound, TableOK
  <2> QED
    BY <2>1, OnTableFields DEF OnTable, Outcome
<1>4. o = IF switch THEN update_platform_mode(q, mode) ELSE w
  BY Zenon DEF FollowPK
<1>5. mode \in {"SETUP", "USER"} /\ p.mode \in {"SETUP", "USER"}
  BY Zenon DEF Platform
<1>6. PK \in Keys /\ PK \notin ModeVars
  BY ModeNames, Zenon
<1> HIDE DEF w, q, o
<1>7. CASE ~switch
  <2>1. o = w
    BY <1>4, <1>7, Zenon
  <2>2. Steady(p, w, r) /\ Frame(p, w, r)
    BY <1>2, <1>6, SteadyFrame, Zenon DEF VerifiedWrite
  <2>3. w.st # "SUCCESS" => w.p = p \/ (Known(w.p.s, PK) /\ r.signer \notin NamedCerts)
    BY <1>2, Zenon DEF VerifiedWrite
  <2>4. w.p.mode = p.mode
    BY <2>2, Zenon DEF Steady
  <2>5. UserHasPK(p) => UserHasPK(w.p)
    BY <1>1, <1>3, <1>5, <1>7, <2>3, <2>4, Zenon DEF UserHasPK
  <2>6. r.signer \in NamedCerts /\ SetupHasNone(p) => SetupHasNone(w.p)
    BY <1>1, <1>3, <1>5, <1>7, <2>3, <2>4, Zenon DEF SetupHasNone
  <2>7. Writes(p, w, r)
    BY <2>2, <2>3, <2>5, <2>6, Zenon DEF Writes
  <2>8. ~Same(p.s, w.p.s, PK) => Verified(p.s, r, type)
    BY <1>2, Zenon DEF VerifiedWrite, Same
  <2> QED
    BY <1>2, <2>1, <2>7, <2>8, Zenon DEF VerifiedWrite, o, v
<1>8. CASE switch
  <2>1. o = update_platform_mode(q, mode)
    BY <1>4, <1>8, Zenon
  <2> HIDE DEF mode
  <2>2. SetsMode(q, o, mode)
    BY <1>1, <1>3, <1>5, <2>1, ModeUpdate, Zenon
  <2>3. /\ \A j \in Keys : j # r.key => Same(p.s, v.s, j)
        /\ Advance(p.s, v.s, r)
    BY <1>2, <1>3, Zenon DEF VerifiedWrite, Steady
  <2>4. \A j \in ModeVars : j \in Keys /\ Same(p.s, v.s, j)
    BY <1>6, <2>3, ModeNames, Zenon DEF ModeVars
  <2>5. ModesHeld(v.s)
    <3>1. \A j \in ModeVars : Held(p.s, j)
      BY Zenon DEF Shown, Told, ModeVars
    <3> QED
      BY <2>4, <3>1, Zenon DEF ModesHeld, Held, Same
  <2>6. /\ o.st = "SUCCESS" /\ Shown(o.p) /\ o.p.mode = mode
        /\ o.p \in Platform /\ Sound(o.p.s) /\ o.p.sb = p.sb
        /\ Same(v.s, o.p.s, PK)
    BY <1>3, <1>6, <2>2, <2>5, Zenon DEF SetsMode
  <2>7. \A j \in Keys : j # r.key /\ j \notin ModeVars => Same(p.s, o.p.s, j)
    BY <1>3, <2>2, <2>3, SameTwice, Zenon DEF SetsMode
  <2>8. \A j \in ModeVars : Stays(p.s, o.p.s, j)
    BY <1>3, <2>2, <2>4, Zenon DEF SetsMode, Stays, Same
  <2>9. Frame(p, o, r)
    <3>1. NamesFit(p.s) => NamesFit(v.s)
      BY <1>2, <1>3, Zenon DEF VerifiedWrite, Steady
    <3>2. NamesFit(v.s) => NamesFit(o.p.s)
      BY <1>3, <2>2, Zenon DEF SetsMode
    <3> QED
      BY <2>6, <2>7, <2>8, <3>1, <3>2, Zenon DEF Frame
  <2>10. UserHasPK(o.p) /\ SetupHasNone(o.p)
    BY <1>1, <1>8, <2>6, Zenon DEF UserHasPK, SetupHasNone, Same, mode
  <2>11. ~Same(p.s, o.p.s, PK) => Verified(p.s, r, type)
    BY <1>1, <2>6, Zenon
  <2>12. Advance(p.s, o.p.s, r)
    BY <2>3, <2>6, Zenon DEF Advance, Same
  <2>13. ~Known(p.s, PK) => Known(o.p.s, PK)
    BY <1>1, <1>8, <2>6, Zenon DEF IsDel, Same
  <2> QED
    BY <2>6, <2>9, <2>10, <2>11, <2>12, <2>13, Zenon DEF Writes, o, v
<1> QED
  BY <1>7, <1>8, Zenon

\* A write of a trust anchor, by the holder of the PK: what is written, and
\* what the request must then be, in user mode.
AnchorWrite(p, o, r, Allowed) ==
    /\ Writes(p, o, r)
    /\ r.key # PK => Steady(p, o, r)
    /\ p.mode = "USER" /\ ~Same(p.s, o.p.s, r.key) => Allowed
    /\ p.mode = "USER" \/ r.key = PK => Advance(p.s, o.p.s, r)
    /\ o.st = "SUCCESS" /\ ~Known(p.s, r.key) => Known(o.p.s, r.key)
    /\ r.key # PK /\ o.st # "SUCCESS" /\ Known(p.s, r.key) => Known(o.p.s, r.key)
    /\ "NV" \notin r.attrs => o.p = p /\ o.st # "SUCCESS"

\* A request without the attributes is refused.
LEMMA NothingAnchored ==
    ASSUME NEW p \in Platform, Sound(p.s), Shown(p), NEW r \in PlainRequest, NEW Allowed
    PROVE  AnchorWrite(p, Outcome("INVALID_PARAMETER", p), r, Allowed)
<1> DEFINE o == Outcome("INVALID_PARAMETER", p)
<1>1. o.p = p /\ o.st = "INVALID_PARAMETER" /\ Writes(p, o, r) /\ Steady(p, o, r)
  BY NothingWrites, NothingSteady, Zenon DEF Outcome
<1> HIDE DEF o
<1>2. Same(p.s, p.s, r.key)
  BY Zenon DEF Same
<1>3. Advance(p.s, p.s, r)
  BY FreshAdvances, Zenon DEF StampFrom
<1> QED
  BY <1>1, <1>2, <1>3, Zenon DEF AnchorWrite, o

\* A verified update of an anchor other than the PK.
LEMMA VerifiedAnchored ==
    ASSUME NEW p \in Platform, Sound(p.s), Shown(p), NEW r \in PlainRequest, {"NV", "AT"} \subseteq r.attrs,
           r.key # PK, r.key \notin ModeVars, NEW type
    PROVE  AnchorWrite(p, OnTable(p, verify_time_based_payload_and_update(p.s, r, type)), r,
                       Verified(p.s, r, type))
<1> DEFINE o == OnTable(p, verify_time_based_payload_and_update(p.s, r, type))
           allowed == Verified(p.s, r, type)
<1>1. "NV" \in r.attrs /\ "AT" \in r.attrs
  BY Zenon
<1>2. VerifiedWrite(p, o, r, type)
  BY <1>1, VerifiedStep, Zenon
<1> HIDE DEF o
<1>3. Writes(p, o, r)
  BY <1>2, SteadyWrites, Zenon DEF VerifiedWrite
<1>4. ~Same(p.s, o.p.s, r.key) => allowed
  BY <1>2, Zenon DEF VerifiedWrite, Same
<1>5. o.st # "SUCCESS" /\ Known(p.s, r.key) => Known(o.p.s, r.key)
  BY <1>2, Zenon DEF VerifiedWrite
<1> HIDE DEF allowed
<1> QED
  BY <1>1, <1>2, <1>3, <1>4, <1>5, Zenon DEF AnchorWrite, VerifiedWrite, o, allowed

\* An update of one in setup mode.
LEMMA SetupAnchored ==
    ASSUME NEW p \in Platform, Sound(p.s), Shown(p), NEW r \in PlainRequest, {"NV", "AT"} \subseteq r.attrs,
           r.key # PK, r.key \notin ModeVars, p.mode = "SETUP", NEW Allowed
    PROVE  AnchorWrite(p, OnTable(p, SetupModeUpdate(p.s, r)), r, Allowed)
<1> DEFINE o == OnTable(p, SetupModeUpdate(p.s, r))
<1>1. "NV" \in r.attrs /\ "AT" \in r.attrs
  BY Zenon
<1>2. SetupWrite(p, o, r)
  BY <1>1, SetupStep, Zenon
<1> HIDE DEF o
<1>3. Writes(p, o, r)
  BY <1>2, SteadyWrites, Zenon DEF SetupWrite
<1> QED
  BY <1>1, <1>2, <1>3, Zenon DEF AnchorWrite, SetupWrite, o

\* process_var_with_pk: in user mode the holder of the PK must have signed.
LEMMA PkPath ==
    ASSUME NEW p \in Platform, Sound(p.s), Shown(p), NEW r \in PlainRequest,
           r.key \notin ModeVars, NEW is_pk \in BOOLEAN, is_pk <=> r.key = PK
    PROVE  AnchorWrite(p, process_var_with_pk(p, r, is_pk), r, verify_pk(p.s, r))
<1> DEFINE type == IF p.mode = "SETUP" THEN "PAYLOAD" ELSE "PK"
           o == process_var_with_pk(p, r, is_pk)
           allowed == verify_pk(p.s, r)
<1>1. p.mode \in {"SETUP", "USER"}
  BY Zenon DEF Platform
<1>2. p.mode = "USER" => (Verified(p.s, r, type) <=> allowed)
  BY <1>1, Zenon DEF Verified, verify_pk
<1>3. CASE ~({"NV", "AT"} \subseteq r.attrs)
  <2>1. o = Outcome("INVALID_PARAMETER", p)
    BY <1>3, Zenon DEF process_var_with_pk
  <2> HIDE DEF allowed
  <2> QED
    BY <2>1, NothingAnchored, Zenon DEF allowed
<1>4. CASE {"NV", "AT"} \subseteq r.attrs /\ is_pk
  <2>1. o = FollowPK(p, verify_time_based_payload_and_update(p.s, r, type))
    BY <1>4, Zenon DEF process_var_with_pk
  <2>2. r.key = PK /\ "NV" \in r.attrs /\ "AT" \in r.attrs
    BY <1>4, Zenon
  <2> HIDE DEF o, type, allowed
  <2>3. /\ Writes(p, o, r)
        /\ ~Same(p.s, o.p.s, PK) => Verified(p.s, r, type)
        /\ Advance(p.s, o.p.s, r)
        /\ o.st = "SUCCESS" /\ ~Known(p.s, PK) => Known(o.p.s, PK)
    BY <2>1, <2>2, PkStep, Zenon
  <2> QED
    BY <1>2, <2>2, <2>3, Zenon DEF AnchorWrite, o, allowed
<1>5. CASE {"NV", "AT"} \subseteq r.attrs /\ ~is_pk /\ p.mode = "SETUP"
  <2>1. o = OnTable(p, SetupModeUpdate(p.s, r))
    BY <1>5, Zenon DEF process_var_with_pk
  <2> HIDE DEF allowed
  <2> QED
    BY <1>5, <2>1, SetupAnchored, Zenon DEF allowed
<1>6. CASE {"NV", "AT"} \subseteq r.attrs /\ ~is_pk /\ p.mode # "SETUP"
  <2>1. o = OnTable(p, verify_time_based_payload_and_update(p.s, r, "PK"))
    BY <1>6, Zenon DEF process_var_with_pk
  <2>2. AnchorWrite(p, o, r, Verified(p.s, r, "PK"))
    BY <1>6, <2>1, VerifiedAnchored, Zenon
  <2>3. Verified(p.s, r, "PK") <=> allowed
    BY Zenon DEF Verified
  <2> QED
    BY <2>2, <2>3, Zenon DEF AnchorWrite
<1> QED
  BY <1>3, <1>4, <1>5, <1>6, Zenon

\* process_var_with_kek: in user mode the holder of a KEK must have signed.
LEMMA KekPath ==
    ASSUME NEW p \in Platform, Sound(p.s), Shown(p), NEW r \in PlainRequest,
           r.key \notin ModeVars, r.key # PK
    PROVE  AnchorWrite(p, process_var_with_kek(p, r), r, verify_kek(p.s, r))
<1> DEFINE o == process_var_with_kek(p, r)
           allowed == verify_kek(p.s, r)
<1>1. p.mode \in {"SETUP", "USER"}
  BY Zenon DEF Platform
<1>2. CASE ~({"NV", "AT"} \subseteq r.attrs)
  <2>1. o = Outcome("INVALID_PARAMETER", p)
    BY <1>2, Zenon DEF process_var_with_kek
  <2> HIDE DEF allowed
  <2> QED
    BY <2>1, NothingAnchored, Zenon DEF allowed
<1>3. CASE {"NV", "AT"} \subseteq r.attrs /\ p.mode = "SETUP"
  <2>1. o = OnTable(p, SetupModeUpdate(p.s, r))
    BY <1>3, Zenon DEF process_var_with_kek
  <2> HIDE DEF allowed
  <2> QED
    BY <1>3, <2>1, SetupAnchored, Zenon DEF allowed
<1>4. CASE {"NV", "AT"} \subseteq r.attrs /\ p.mode = "USER"
  <2>1. o = OnTable(p, verify_time_based_payload_and_update(p.s, r, "KEK"))
    BY <1>4, Zenon DEF process_var_with_kek
  <2>2. AnchorWrite(p, o, r, Verified(p.s, r, "KEK"))
    BY <1>4, <2>1, VerifiedAnchored, Zenon
  <2>3. Verified(p.s, r, "KEK") <=> allowed
    BY Zenon DEF Verified
  <2> QED
    BY <2>2, <2>3, Zenon DEF AnchorWrite
<1> QED
  BY <1>1, <1>2, <1>3, <1>4, Zenon

\* db, dbx and dbt: the holder of the PK or of a KEK.
LEMMA DbPath ==
    ASSUME NEW p \in Platform, Sound(p.s), Shown(p), NEW r \in PlainRequest, r.key \in SigDbs
    PROVE  LET o == OrWithKek(process_var_with_pk(p, r, FALSE), r)
           IN  /\ Writes(p, o, r) /\ Steady(p, o, r)
               /\ p.mode = "USER" /\ ~Same(p.s, o.p.s, r.key) =>
                      verify_pk(p.s, r) \/ verify_kek(p.s, r)
               /\ p.mode = "USER" => Advance(p.s, o.p.s, r)
               /\ "NV" \notin r.attrs => o.p = p
<1> DEFINE f == process_var_with_pk(p, r, FALSE)
           g == process_var_with_kek(f.p, r)
           o == OrWithKek(f, r)
<1>1. r.key \notin ModeVars /\ r.key # PK /\ r.key # KEK /\ r.key \in Keys
  BY ModeNames, AuthAssumption, Zenon
<1>2. AnchorWrite(p, f, r, verify_pk(p.s, r))
  BY <1>1, PkPath, Zenon
<1> HIDE DEF f
<1>3. /\ f.p \in Platform /\ Sound(f.p.s) /\ Shown(f.p) /\ f.p.mode = p.mode
      /\ Steady(p, f, r) /\ Writes(p, f, r)
  BY <1>1, <1>2, Zenon DEF AnchorWrite, Writes, Frame, Steady
<1>4. AnchorWrite(f.p, g, r, verify_kek(f.p.s, r))
  BY <1>1, <1>3, KekPath, Zenon
<1> HIDE DEF g
<1>5. CASE f.st = "SUCCESS"
  <2>1. o = f
    BY <1>5, Zenon DEF OrWithKek
  <2> HIDE DEF o
  <2> QED
    BY <1>2, <1>3, <1>5, <2>1, Zenon DEF AnchorWrite, o, f
<1>6. CASE f.st # "SUCCESS"
  <2>1. o = g
    BY <1>6, Zenon DEF OrWithKek, g
  <2>2. Steady(f.p, g, r)
    BY <1>1, <1>4, Zenon DEF AnchorWrite
  <2>3. Steady(p, g, r)
    BY <1>3, <2>2, SameTwice, Zenon DEF Steady
  <2>4. g.st # "SUCCESS" => g.p = p \/ r.signer \notin NamedCerts
    BY <1>2, <1>4, <1>6, Zenon DEF AnchorWrite, Writes
  <2>5. Writes(p, g, r)
    BY <1>1, <2>3, <2>4, SteadyWrites, Zenon
  <2>6. ASSUME p.mode = "USER", ~Same(p.s, g.p.s, r.key)
        PROVE  verify_pk(p.s, r) \/ verify_kek(p.s, r)
    <3>1. ~Same(p.s, f.p.s, r.key) \/ ~Same(f.p.s, g.p.s, r.key)
      BY <2>6, SameTwice, Zenon
    <3>2. CASE ~Same(p.s, f.p.s, r.key)
      BY <1>2, <2>6, <3>2, Zenon DEF AnchorWrite
    <3>3. CASE ~Same(f.p.s, g.p.s, r.key)
      <4>1. verify_kek(f.p.s, r)
        BY <1>3, <1>4, <2>6, <3>3, Zenon DEF AnchorWrite
      <4>2. Same(p.s, f.p.s, KEK)
        BY <1>1, <1>3, ModeNames, Zenon DEF Steady
      <4> QED
        BY <4>1, <4>2, Zenon DEF verify_kek, Same, Known, At
    <3> QED
      BY <3>1, <3>2, <3>3, Zenon
  <2>7. ASSUME p.mode = "USER" PROVE Advance(p.s, g.p.s, r)
    <3> SUFFICES ASSUME "AP" \notin r.attrs, Known(p.s, r.key), Known(g.p.s, r.key)
                 PROVE  At(p.s, r.key).timestamp <= At(g.p.s, r.key).timestamp
      BY Zenon DEF Advance
    <3>1. Known(f.p.s, r.key)
      BY <1>1, <1>2, <1>6, Zenon DEF AnchorWrite
    <3>2. /\ At(p.s, r.key).timestamp <= At(f.p.s, r.key).timestamp
          /\ At(f.p.s, r.key).timestamp <= At(g.p.s, r.key).timestamp
      BY <1>2, <1>3, <1>4, <2>7, <3>1, Zenon DEF AnchorWrite, Advance
    <3>3. /\ At(p.s, r.key) \in Variable /\ At(f.p.s, r.key) \in Variable
          /\ At(g.p.s, r.key) \in Variable
      BY <1>1, <1>3, <2>3, <3>1, KnownSlot, Zenon DEF Steady
    <3> QED
      BY <3>2, <3>3 DEF Variable
  <2>8. "NV" \notin r.attrs => g.p = p
    BY <1>2, <1>4, Zenon DEF AnchorWrite
  <2> HIDE DEF o
  <2> QED
    BY <2>1, <2>3, <2>5, <2>6, <2>7, <2>8, Zenon DEF o, f
<1> QED
  BY <1>5, <1>6, Zenon

\* No slot has a non-volatile variable that it did not have.
Drift(s, t) ==
    \A i \in Slots : t.slots[i].key # NoKey /\ "NV" \in t.slots[i].attrs =>
                         Triple(t.slots[i]) = Triple(s.slots[i])

\* A write without the non-volatile attribute changes nothing that is kept.
LEMMA EditDrift ==
    ASSUME NEW s, NEW t, NEW k, NEW attrs, Edit(s, t, k, attrs), "NV" \notin attrs
    PROVE  Drift(s, t)
  BY Zenon DEF Edit, SlotEdit, Drift

\* A write of a variable that is no trust anchor.
PrivateWrite(p, o, r) ==
    /\ Steady(p, o, r)
    /\ o.st # "SUCCESS" => o.p = p \/ r.signer \notin NamedCerts
    /\ Advance(p.s, o.p.s, r)
    /\ "NV" \notin r.attrs => Drift(p.s, o.p.s)
    /\ Known(p.s, r.key) /\ Known(o.p.s, r.key) /\ ~Same(p.s, o.p.s, r.key)
           /\ "AT" \in At(p.s, r.key).attrs
       => r.verifies /\ r.signer = At(p.s, r.key).cert

\* One that goes straight to storage_set, as a deletion or with attributes
\* that are not those of an authenticated variable.
LEMMA PlainPath ==
    ASSUME NEW p \in Platform, Sound(p.s), NEW r \in PlainRequest, NEW data \in Seq(Atoms),
           NEW attrs \in SUBSET Attrs, "AT" \notin attrs, "NV" \in attrs => "NV" \in r.attrs
    PROVE  PrivateWrite(p, OnTable(p, storage_set(p.s, Plain(r.key), data, attrs)), r)
<1> DEFINE s == p.s
           k == r.key
           x == storage_set(s, Plain(k), data, attrs)
           o == OnTable(p, x)
<1>1. k \in Keys
  BY RequestFields, Zenon
<1> HIDE DEF k
<1>2. /\ Sound(x.s) /\ Edit(s, x.s, k, attrs)
      /\ x.st # "SUCCESS" => x.s = s
      /\ x.st = "SUCCESS" /\ Removes(data, attrs) => Known(s, k) /\ ~Known(x.s, k)
      /\ x.st = "SUCCESS" /\ ~Removes(data, attrs) =>
             (Known(s, k) => Kin(At(s, k), At(x.s, k), attrs))
  BY <1>1, SetVar
<1> HIDE DEF x
<1>3. /\ Steady(p, o, r) /\ o.st = x.st /\ o.p.s = x.s
      /\ x.s = p.s => o.p = p
  <2>1. Sound(x.s) /\ Edit(p.s, x.s, r.key, attrs)
    BY <1>2, Zenon DEF k
  <2>2. ASSUME NEW a, NEW y, Sound(y.s), Edit(p.s, y.s, r.key, a)
        PROVE  LET z == OnTable(p, y)
               IN  /\ Steady(p, z, r) /\ z.st = y.st /\ z.p.s = y.s
                   /\ y.s = p.s => z.p = p
    BY <2>2, EditSteady
  <2> HIDE DEF x
  <2> QED
    BY <2>1, <2>2, Zenon
<1> HIDE DEF o
<1>4. x.s = s \/ ~Known(x.s, k) \/ (Known(s, k) => Kin(At(s, k), At(x.s, k), attrs))
  BY <1>2, Zenon
<1>5. Advance(s, x.s, r)
  <2>1. StampFrom(s, x.s, r)
    BY <1>4, Zenon DEF StampFrom, Kin, k
  <2>2. CASE x.s = s
    BY <1>2, <2>1, <2>2, FreshAdvances, Zenon
  <2>3. CASE ~Known(x.s, k)
    BY <2>3, Zenon DEF Advance, k
  <2>4. CASE Known(s, k) => Kin(At(s, k), At(x.s, k), attrs)
    <3> SUFFICES ASSUME Known(s, k) PROVE At(s, k).timestamp <= At(x.s, k).timestamp
      BY Zenon DEF Advance, k
    <3>1. At(s, k).timestamp = At(x.s, k).timestamp
      BY <2>4, Zenon DEF Kin
    <3>2. At(s, k) \in Variable
      BY <1>1, KnownSlot, Zenon
    <3> QED
      BY <3>1, <3>2 DEF Variable
  <2> QED
    BY <1>4, <2>2, <2>3, <2>4, Zenon
<1>6. "NV" \notin r.attrs => Drift(s, x.s)
  BY <1>2, EditDrift, Zenon
<1>7. ~(Known(s, k) /\ Known(x.s, k) /\ ~Same(s, x.s, k) /\ "AT" \in At(s, k).attrs)
  BY <1>4, Zenon DEF Same, Kin
<1> QED
  BY <1>2, <1>3, <1>5, <1>6, <1>7, Zenon DEF PrivateWrite, o, x, k

\* process_variable: a private authenticated variable belongs to its signer.
LEMMA PrivatePath ==
    ASSUME NEW p \in Platform, Sound(p.s), NEW r \in PlainRequest, "AT" \in r.attrs
    PROVE  PrivateWrite(p, process_variable(p, r), r)
<1> DEFINE delete == /\ storage_exists(p.s, Plain(r.key))
                     /\ is_delete_auth_variable(find_variable(p.s, Plain(r.key)), r)
           o == process_variable(p, r)
<1>1. CASE delete
  <2>1. o = OnTable(p, storage_set(p.s, Plain(r.key), <<>>, {}))
    BY <1>1, PlainlyNamed, Zenon DEF process_variable
  <2>2. <<>> \in Seq(Atoms) /\ {} \in SUBSET Attrs /\ "AT" \notin {} /\ "NV" \notin {}
    OBVIOUS
  <2> QED
    BY <2>1, <2>2, PlainPath, Zenon
<1>2. CASE ~delete
  <2>1. o = OnTable(p, verify_time_based_payload_and_update(p.s, r, "PRIV"))
    BY <1>2, PlainlyNamed, Zenon DEF process_variable
  <2>2. VerifiedWrite(p, o, r, "PRIV")
    BY <2>1, VerifiedStep, Zenon
  <2> HIDE DEF o
  <2>3. Verified(p.s, r, "PRIV") /\ Known(p.s, r.key) =>
            r.verifies /\ r.signer = At(p.s, r.key).cert
    BY PlainlyNamed, Zenon DEF Verified, verify_priv, Known, At
  <2>4. "NV" \notin r.attrs => Drift(p.s, o.p.s)
    BY <2>2, EditDrift, Zenon DEF VerifiedWrite
  <2>5. o.p = p => Same(p.s, o.p.s, r.key)
    BY Zenon DEF Same
  <2> QED
    BY <2>2, <2>3, <2>4, <2>5, Zenon DEF VerifiedWrite, PrivateWrite, o
<1> QED
  BY <1>1, <1>2, Zenon

Anchors == {PK, KEK} \cup SigDbs

\* What a request does, and who may have signed it when it changes its
\* variable.
Done(p, o, r) ==
    /\ Writes(p, o, r)
    /\ p.mode = "USER" /\ r.key \in {PK, KEK} /\ ~Same(p.s, o.p.s, r.key) => verify_pk(p.s, r)
    /\ p.mode = "USER" /\ r.key \in SigDbs /\ ~Same(p.s, o.p.s, r.key) =>
           verify_pk(p.s, r) \/ verify_kek(p.s, r)
    /\ p.mode = "USER" \/ r.key = PK => Advance(p.s, o.p.s, r)
    /\ /\ r.key \notin Anchors /\ Known(p.s, r.key) /\ Known(o.p.s, r.key)
       /\ ~Same(p.s, o.p.s, r.key) /\ "AT" \in At(p.s, r.key).attrs
       => r.verifies /\ r.signer = At(p.s, r.key).cert
    /\ "NV" \notin r.attrs => Drift(p.s, o.p.s)

\* A private write is one.
LEMMA PrivateDone ==
    ASSUME NEW p, Shown(p), NEW r \in PlainRequest, r.key \notin ModeVars, r.key \notin Anchors,
           NEW o, PrivateWrite(p, o, r)
    PROVE  Done(p, o, r)
<1>1. r.key # PK /\ r.key # KEK /\ r.key \notin SigDbs
  BY Zenon DEF Anchors
<1>2. Writes(p, o, r)
  BY <1>1, SteadyWrites, Zenon DEF PrivateWrite
<1> QED
  BY <1>1, <1>2, Zenon DEF PrivateWrite, Done

\* A request that is refused at once is one.
LEMMA NothingDone ==
    ASSUME NEW p \in Platform, Sound(p.s), Shown(p), NEW r \in PlainRequest, NEW st
    PROVE  Done(p, Outcome(st, p), r)
<1> DEFINE o == Outcome(st, p)
<1>1. Writes(p, o, r) /\ o.p = p
  BY NothingWrites, Zenon DEF Outcome
<1> HIDE DEF o
<1>2. Same(p.s, p.s, r.key) /\ Drift(p.s, p.s)
  BY Zenon DEF Same, Drift
<1>3. Advance(p.s, p.s, r)
  BY FreshAdvances, Zenon DEF StampFrom
<1> QED
  BY <1>1, <1>2, <1>3, Zenon DEF Done, o

\* auth_lib_process_variable, for the requests that reach it.
LEMMA AuthDone ==
    ASSUME NEW p \in Platform, Sound(p.s), Shown(p), NEW r \in PlainRequest, r.key \notin ModeVars,
           "AT" \in r.attrs \/ r.key \in Anchors
    PROVE  LET o == auth_lib_process_variable(p, r)
           IN  /\ Done(p, o, r)
               /\ r.key \in {PK, KEK} /\ o.st = "SUCCESS" /\ ~Known(p.s, r.key) =>
                      Known(o.p.s, r.key)
<1> DEFINE o == auth_lib_process_variable(p, r)
           is_pk == r.key = PK
<1>0. Drift(p.s, p.s)
  BY Zenon DEF Drift
<1>1. CASE r.key \in {PK, KEK}
  <2>3. r.key \notin SigDbs /\ r.key \in Anchors
    BY <1>1, AuthAssumption, Zenon DEF Anchors
  <2>1. o = process_var_with_pk(p, r, is_pk)
    BY <1>1, <2>3, Zenon DEF auth_lib_process_variable
  <2>2. is_pk \in BOOLEAN /\ (is_pk <=> r.key = PK)
    BY Zenon
  <2> HIDE DEF o, is_pk
  <2>4. AnchorWrite(p, o, r, verify_pk(p.s, r))
    BY <2>1, <2>2, PkPath, Zenon
  <2>5. Done(p, o, r)
    BY <1>0, <1>1, <2>3, <2>4, Zenon DEF AnchorWrite, Done
  <2> QED
    BY <2>4, <2>5, Zenon DEF AnchorWrite, o
<1>2. CASE r.key \in SigDbs
  <2>1. r.key \notin {PK, KEK} /\ r.key \in Anchors
    BY <1>2, AuthAssumption, Zenon DEF Anchors
  <2>2. o = OrWithKek(process_var_with_pk(p, r, FALSE), r)
    BY <1>2, <2>1, Zenon DEF auth_lib_process_variable
  <2> HIDE DEF o
  <2>3. /\ Writes(p, o, r)
        /\ p.mode = "USER" /\ ~Same(p.s, o.p.s, r.key) =>
               verify_pk(p.s, r) \/ verify_kek(p.s, r)
        /\ p.mode = "USER" => Advance(p.s, o.p.s, r)
        /\ "NV" \notin r.attrs => o.p = p
    BY <1>2, <2>2, DbPath, Zenon
  <2> QED
    BY <1>0, <2>1, <2>3, Zenon DEF Done, o
<1>3. CASE r.key \notin Anchors
  <2>1. r.key \notin {PK, KEK} /\ r.key \notin SigDbs
    BY <1>3, Zenon DEF Anchors
  <2>2. o = process_variable(p, r)
    BY <2>1, Zenon DEF auth_lib_process_variable
  <2> HIDE DEF o
  <2>3. Done(p, o, r)
    BY <1>3, <2>2, PrivatePath, PrivateDone, Zenon
  <2> QED
    BY <2>1, <2>3, Zenon DEF o
<1> QED
  BY <1>1, <1>2, <1>3, Zenon DEF Anchors

-----------------------------------------------------------------------------
(***************************************************************************)
(* Names of either kind: what holds whether a name counts a NUL or not     *)
(***************************************************************************)
\* A platform that is in order, although a name may be stored twice.
Orderly(p) == p \in Platform /\ TableOK(p.s)

\* The fields of a request, whatever its name.
LEMMA AnyName ==
    ASSUME NEW r \in Request
    PROVE  /\ Name(r) \in NameArg /\ Name(r).key \in Keys /\ r.attrs \in SUBSET Attrs
           /\ r.data \in Seq(Atoms) /\ r.ts \in Nat /\ r.signer \in Certs
  BY DEF Request, Name, NameArg

\* Replacing the table by one that is in order.
LEMMA TableOrderly ==
    ASSUME NEW p, Orderly(p), NEW x, TableOK(x.s)
    PROVE  Orderly(OnTable(p, x).p)
<1>1. p \in Platform /\ x.s \in Table
  BY Zenon DEF Orderly, TableOK
<1>2. OnTable(p, x).p \in Platform /\ OnTable(p, x).p.s = x.s
  BY <1>1, OnTableFields, Zenon
<1> QED
  BY <1>2, Zenon DEF Orderly

\* The table after an update is in order.
LEMMA UpdateOrderly ==
    ASSUME NEW s, TableOK(s), NEW r \in Request
    PROVE  TableOK(auth_internal_update_variable_with_timestamp(s, r).s)
<1> DEFINE n == Name(r)
           filtered == storage_exists(s, n) /\ "AP" \in r.attrs /\ r.key \in {KEK} \cup SigDbs
           old == find_variable(s, n).data
           data == IF filtered THEN FilterSignatureList(old, r.data) ELSE r.data
           attrs == r.attrs
           ts == r.ts
           q == storage_set_with_timestamp(s, n, data, attrs, ts)
           u == auth_internal_update_variable_with_timestamp(s, r)
<1>1. /\ n \in NameArg /\ n.key \in Keys /\ attrs \in SUBSET Attrs
      /\ r.data \in Seq(Atoms) /\ ts \in Nat
  BY AnyName, Zenon
<1>2. data \in Seq(Atoms)
  BY <1>1, FilterType, Zenon
<1>3. u = IF filtered /\ data = <<>> THEN Result("SUCCESS", s) ELSE q
  BY Zenon DEF auth_internal_update_variable_with_timestamp
<1> HIDE DEF filtered, data, attrs, ts, n, u
<1>4. TableOK(q.s)
  BY <1>1, <1>2, SetWithTimestampOK
<1> HIDE DEF q
<1>5. Result("SUCCESS", s).s = s
  BY DEF Result
<1>6. TableOK(u.s)
  BY <1>3, <1>4, <1>5, Zenon
<1> QED
  BY <1>6, Zenon DEF u

\* So is the one after the signer is recorded.
LEMMA SignOrderly ==
    ASSUME NEW s, TableOK(s), NEW r \in Request
    PROVE  TableOK(RecordSigner(s, r).s)
<1> DEFINE n == Name(r)
           m == Min(Matches(s, n))
           w == [s.slots[m] EXCEPT !.cert = r.signer]
           a == RecordSigner(s, r)
<1>1. n.key \in Keys /\ r.signer \in Certs
  BY AnyName, Zenon
<1>2. a.s = s \/ (storage_exists(s, n) /\ a.s = PutSlot(s, m, w, 0))
  BY Zenon DEF RecordSigner, Answer
<1> HIDE DEF a, n
<1>3. ASSUME storage_exists(s, n) PROVE TableOK(PutSlot(s, m, w, 0))
  <2>1. m \in Slots /\ s.slots[m].key = n.key /\ m \in Occupied(s)
    BY <1>1, <1>3, FirstMatch, KeysAssumption, Zenon
    DEF storage_exists, Occupied, variable_is_valid
  <2>2. s.slots[m] \in Variable /\ SlotOK(s.slots[m])
    BY <2>1, Zenon DEF TableOK, Table
  <2> HIDE DEF m
  <2>3. /\ w \in Variable /\ w.key = s.slots[m].key /\ w.data = s.slots[m].data
        /\ w.attrs = s.slots[m].attrs
    BY <1>1, <2>2, Zenon DEF Variable
  <2> HIDE DEF w
  <2>4. SlotOK(w) /\ variable_is_valid(w)
    BY <1>1, <2>1, <2>2, <2>3, KeysAssumption, Zenon DEF SlotOK, variable_is_valid
  <2> QED
    BY <2>1, <2>3, <2>4, PutSlotOK
<1>4. TableOK(a.s)
  BY <1>2, <1>3, Zenon
<1> QED
  BY <1>4, Zenon DEF a

\* And the one after a verified update.
LEMMA VerifiedOrderly ==
    ASSUME NEW s, TableOK(s), NEW r \in Request, NEW type
    PROVE  TableOK(verify_time_based_payload_and_update(s, r, type).s)
<1> DEFINE u == auth_internal_update_variable_with_timestamp(s, r)
           v == verify_time_based_payload_and_update(s, r, type)
<1>1. v.s = s \/ v.s = u.s \/ v.s = RecordSigner(u.s, r).s
  BY Zenon DEF verify_time_based_payload_and_update, AfterUpdate, Answer
<1>2. TableOK(u.s)
  BY UpdateOrderly, Zenon
<1> HIDE DEF u, v
<1>3. TableOK(RecordSigner(u.s, r).s)
  BY <1>2, SignOrderly, Zenon
<1>4. TableOK(v.s)
  BY <1>1, <1>2, <1>3, Zenon
<1> QED
  BY <1>4, Zenon DEF v

\* And the one after an update in setup mode.
LEMMA SetupOrderly ==
    ASSUME NEW s, TableOK(s), NEW r \in Request
    PROVE  TableOK(SetupModeUpdate(s, r).s)
<1> DEFINE u == auth_internal_update_variable_with_timestamp(s, r)
           v == SetupModeUpdate(s, r)
<1>1. v.s = s \/ v.s = u.s
  BY Zenon DEF SetupModeUpdate, Result
<1>2. TableOK(u.s)
  BY UpdateOrderly, Zenon
<1> HIDE DEF u, v
<1>3. TableOK(v.s)
  BY <1>1, <1>2, Zenon
<1> QED
  BY <1>3, Zenon DEF v

\* A variable of the daemon's own.
LEMMA OwnOrderly ==
    ASSUME NEW p, Orderly(p), NEW k \in Keys, NEW data \in Seq(Atoms)
    PROVE  Orderly(OnTable(p, storage_set(p.s, Plain(k), data, VolatileAttrs)).p)
<1> DEFINE s == p.s
           n == Plain(k)
           a == VolatileAttrs
           x == storage_set(s, n, data, a)
<1>1. n \in NameArg /\ n.key \in Keys
  BY DEF Plain, NameArg
<1>2. a \in SUBSET Attrs /\ TableOK(s)
  BY VolatileSet, Zenon DEF Orderly
<1> HIDE DEF n, a, s
<1>3. TableOK(x.s)
  BY <1>1, <1>2, SetOK
<1> HIDE DEF x
<1>4. Orderly(OnTable(p, x).p)
  BY <1>3, TableOrderly, Zenon
<1> QED
  BY <1>4, Zenon DEF x, n, a, s

\* The mode variables: each write, and the next one only when it succeeds.
LEMMA ModeOrderly ==
    ASSUME NEW p, Orderly(p), NEW mode \in {"SETUP", "USER"}
    PROVE  Orderly(update_platform_mode(p, mode).p)
<1> DEFINE q == [p EXCEPT !.mode = mode]
           a == Report(q, SecureBoot, mode = "USER" /\ p.sb)
           b == Report(a.p, SetupMode, mode = "SETUP")
           c == Report(b.p, DeployedMode, mode = "SETUP")
           o == update_platform_mode(p, mode)
<1>1. Orderly(q)
  <2>1. q \in Platform /\ q.s = p.s
    BY DEF Orderly, Platform
  <2> QED
    BY <2>1, Zenon DEF Orderly
<1>2. ASSUME NEW x, Orderly(x), NEW k \in ModeVars, NEW f
      PROVE  Orderly(Report(x, k, f).p)
  <2>1. k \in Keys /\ Flag(f) \in Seq(Atoms)
    <3>1. <<0>> \in Seq(Atoms) /\ <<1>> \in Seq(Atoms)
      <4>1. Flag(FALSE) = <<0>> /\ Flag(TRUE) = <<1>>
        BY Zenon DEF Flag
      <4> QED
        BY <4>1, FlagType, Zenon
    <3> QED
      BY <3>1, ModeNames, Zenon DEF Flag, ModeVars
  <2> QED
    BY <1>2, <2>1, OwnOrderly, Zenon DEF Report
<1>3. o.p = a.p \/ o.p = b.p \/ o.p = c.p
  BY Zenon DEF update_platform_mode, Then
<1> HIDE DEF q, o
<1>4. Orderly(a.p)
  BY <1>1, <1>2, Zenon DEF ModeVars
<1> HIDE DEF a
<1>5. Orderly(b.p)
  BY <1>2, <1>4, Zenon DEF ModeVars
<1> HIDE DEF b
<1>6. Orderly(c.p)
  BY <1>2, <1>5, Zenon DEF ModeVars
<1>7. Orderly(o.p)
  BY <1>3, <1>4, <1>5, <1>6, Zenon
<1> QED
  BY <1>7, Zenon DEF o

\* Enrolling and deleting the PK.
LEMMA FollowOrderly ==
    ASSUME NEW p, Orderly(p), NEW v, TableOK(v.s)
    PROVE  Orderly(FollowPK(p, v).p)
<1> DEFINE q == [p EXCEPT !.s = v.s]
           mode == IF v.del THEN "SETUP" ELSE "USER"
           o == FollowPK(p, v)
<1>1. o = update_platform_mode(q, mode) \/ o = OnTable(p, v)
  BY Zenon DEF FollowPK
<1>2. Orderly(OnTable(p, v).p)
  BY TableOrderly, Zenon
<1>3. q = OnTable(p, v).p
  BY DEF OnTable, Outcome
<1>4. mode \in {"SETUP", "USER"}
  BY Zenon
<1> HIDE DEF q, mode, o
<1>5. Orderly(update_platform_mode(q, mode).p)
  BY <1>2, <1>3, <1>4, ModeOrderly, Zenon
<1>6. Orderly(o.p)
  BY <1>1, <1>2, <1>5, Zenon
<1> QED
  BY <1>6, Zenon DEF o

\* The paths of auth_lib_process_variable.
LEMMA AuthOrderly ==
    ASSUME NEW p, Orderly(p), NEW r \in Request
    PROVE  Orderly(auth_lib_process_variable(p, r).p)
<1>1. ASSUME NEW st PROVE Outcome(st, p).p = p
  BY DEF Outcome
<1>2. ASSUME NEW x, Orderly(x), NEW type
      PROVE  /\ Orderly(OnTable(x, verify_time_based_payload_and_update(x.s, r, type)).p)
             /\ Orderly(FollowPK(x, verify_time_based_payload_and_update(x.s, r, type)).p)
             /\ Orderly(OnTable(x, SetupModeUpdate(x.s, r)).p)
  <2> DEFINE v == verify_time_based_payload_and_update(x.s, r, type)
             u == SetupModeUpdate(x.s, r)
  <2>1. TableOK(v.s) /\ TableOK(u.s)
    BY <1>2, VerifiedOrderly, SetupOrderly, Zenon DEF Orderly
  <2> HIDE DEF v, u
  <2>2. Orderly(OnTable(x, v).p) /\ Orderly(FollowPK(x, v).p) /\ Orderly(OnTable(x, u).p)
    BY <1>2, <2>1, TableOrderly, FollowOrderly, Zenon
  <2> QED
    BY <2>2, Zenon DEF v, u
<1>3. ASSUME NEW x, Orderly(x), NEW is_pk PROVE Orderly(process_var_with_pk(x, r, is_pk).p)
  BY <1>2, <1>3, Zenon DEF process_var_with_pk, Outcome
<1>4. ASSUME NEW x, Orderly(x) PROVE Orderly(process_var_with_kek(x, r).p)
  BY <1>2, <1>4, Zenon DEF process_var_with_kek, Outcome
<1>5. Orderly(process_variable(p, r).p)
  <2> DEFINE n == Name(r)
             data == <<>>
             attrs == {}
             x == storage_set(p.s, n, data, attrs)
             v == verify_time_based_payload_and_update(p.s, r, "PRIV")
  <2>1. /\ n \in NameArg /\ n.key \in Keys /\ TableOK(p.s)
        /\ data \in Seq(Atoms) /\ attrs \in SUBSET Attrs
    BY AnyName DEF Orderly
  <2>2. process_variable(p, r) \in {OnTable(p, x), OnTable(p, v)}
    BY Zenon DEF process_variable
  <2> HIDE DEF n, data, attrs
  <2>3. TableOK(x.s)
    BY <2>1, SetOK
  <2> HIDE DEF x
  <2>4. Orderly(OnTable(p, x).p) /\ Orderly(OnTable(p, v).p)
    BY <1>2, <2>3, TableOrderly, Zenon
  <2> QED
    BY <2>2, <2>4, Zenon
<1>6. Orderly(process_var_with_pk(p, r, r.key = PK).p)
  BY <1>3, Zenon
<1>7. Orderly(OrWithKek(process_var_with_pk(p, r, FALSE), r).p)
  BY <1>3, <1>4, Zenon DEF OrWithKek
<1>8. \/ auth_lib_process_variable(p, r) = process_var_with_pk(p, r, r.key = PK)
      \/ auth_lib_process_variable(p, r) = OrWithKek(process_var_with_pk(p, r, FALSE), r)
      \/ auth_lib_process_variable(p, r) = process_variable(p, r)
  <2>1. CASE r.key \in {PK, KEK}
    BY <2>1, AuthAssumption, Zenon DEF auth_lib_process_variable
  <2>2. CASE r.key \in SigDbs
    BY <2>2, AuthAssumption, Zenon DEF auth_lib_process_variable
  <2>3. CASE r.key \notin {PK, KEK} /\ r.key \notin SigDbs
    BY <2>3, Zenon DEF auth_lib_process_variable
  <2> QED
    BY <2>1, <2>2, <2>3, Zenon
<1> QED
  BY <1>5, <1>6, <1>7, <1>8, Zenon
=============================================================================
