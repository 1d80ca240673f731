--------------------------- MODULE SessionProofs ---------------------------
(***************************************************************************)
(* Proofs about Session, for every number of requests, notes, amounts,     *)
(* roots and attempts: a retry does not pay twice, what is reported as     *)
(* done was paid once and in full, no value is lost by a plan that stops   *)
(* half-way, and what is sent was proved for a tree that existed and is    *)
(* fully signed.                                                           *)
(***************************************************************************)
EXTENDS Session, Arithmetic, SequenceTheorems

-----------------------------------------------------------------------------
(* Types.                                                                  *)

Spends == {"withdraw", "transfer", "transact"}
AllKinds == Spends \cup {"deposit", "register"}

NoteIds == Int \X Nat
NoteRecords == [id : NoteIds, owner : {User, "stranger"}, amount : Nat]
PoolEntries == [ins : SUBSET NoteIds, out : NoteRecords, ext : Int]
Calls == [request : Nat, kind : AllKinds, step : PoolEntries, root : Nat, last : BOOLEAN]
Keys == {User, "nobody"}
Entries == [cred : {"source", User}, nonce : Nat, expiration : Nat,
            signature : [publicKey : Keys, key : Keys, nonce : Nat, expiration : Nat]]
Envelopes == [sequence : Nat, fee : Nat, call : Calls, auth : Seq(Entries), signers : Seq({User})]
PreparedTxs == [tx : Envelopes, entries : AuthShapes, latest : Nat]
TxRecords == [env : Envelopes, status : {"pending", "success", "failed", "dropped"},
              rivals : SUBSET Nat]

Preparing == {"bulk", "root", "keys", "ask", "wait"}
Proving == {"ping", "prove"}
HasNumber == {"simulate", "sign", "send"}
Pcs == {"idle", "sequence", "confirm"} \cup Preparing \cup Proving \cup HasNumber

Signature == [key : {User}, nonce : Nat, expiration : Nat]

SessRecords ==
    [pc : Pcs, step : Nat, attempt : Nat, snap : [slot : Nat, next : Nat, root : Nat],
     merged : NoteRecords, number : Nat, rivals : SUBSET Nat, prepared : Seq(PreparedTxs),
     signatures : {<<>>} \cup [{2} -> Signature]]

SessTypeInv ==
    /\ sess \in SessRecords
    /\ sess.pc \in {"sign", "send"} => Len(sess.prepared) = 1
    /\ sess.pc # "sign" => sess.signatures = <<>>

TypesInv ==
    /\ log \in Seq(PoolEntries)
    /\ sequence \in Nat /\ tip \in Nat /\ others \in Nat
    /\ txs \in Seq(TxRecords)
    /\ indexed \in 0 .. Len(log) /\ noted \in 0 .. indexed
    /\ req \in [n : Nat, kind : AllKinds \cup {"none"}, amount : Nat, picks : Seq(NoteRecords)]
    /\ ended \in Seq([kind : AllKinds, amount : Nat, result : {"done", "failed", "none"}])
    /\ SessTypeInv

-----------------------------------------------------------------------------
(* Sequence numbers.                                                       *)

\* The transactions R were open when number m was read.
Behind(R, m) ==
    \A r \in R : /\ r \in DOMAIN txs
                 /\ txs[r].env.sequence <= m
                 /\ txs[r].status = "success" => txs[r].env.sequence >= m

Applied(i) == txs[i].status \in {"success", "failed"}

\* No number is beyond the next one, and an applied one is used up.
SequenceInv ==
    /\ \A i \in DOMAIN txs : /\ txs[i].env.sequence <= sequence + 1
                             /\ Applied(i) => txs[i].env.sequence <= sequence
                             /\ Behind(txs[i].rivals, txs[i].env.sequence)
                             /\ \A r \in txs[i].rivals : r < i
    /\ \A i, j \in DOMAIN txs :
           Applied(i) /\ Applied(j) /\ txs[i].env.sequence = txs[j].env.sequence => i = j
    /\ sess.pc \in HasNumber => sess.number <= sequence + 1 /\ Behind(sess.rivals, sess.number)
    /\ sess.pc \in {"sign", "send"} => Prepared.tx.sequence = sess.number

-----------------------------------------------------------------------------
(* Requests and their steps.                                               *)

LogNotes == {log[i].out : i \in DOMAIN log}
First(r, k) == {r.picks[i] : i \in 1 .. k}

\* The plan's notes are the user's and exist.
PicksReal ==
    \A i \in DOMAIN req.picks :
        LET note == req.picks[i]
        IN  note \in LogNotes /\ note.owner = User /\ note.amount > 0

\* The plan's notes cover the amount.  The inputs a caller named himself are
\* known to be notes of his only once the storage worker has found them.
ReqInv ==
    /\ Idle => req = NoRequest
    /\ ~Idle =>
        /\ req.n = Len(ended) + 1
        /\ req.kind \in AllKinds
        /\ req.kind \in {"deposit", "register"} => req.picks = <<>>
        /\ req.kind \in Spends => Len(req.picks) >= 1
        /\ req.kind = "transact" => Len(req.picks) <= 2
        /\ req.kind = "register" => req.amount = 0
        /\ \A i, j \in DOMAIN req.picks : req.picks[i] = req.picks[j] => i = j
        /\ \A i \in DOMAIN req.picks :
               LET note == req.picks[i]
               IN  note.id[1] < req.n /\ (note \in LogNotes \/ note.id[1] = 0 - 3)
        /\ (req.kind = "transact" /\ sess.pc \in Preparing) \/ PicksReal
        /\ req.kind \in Spends => Excess(req) >= 0
        /\ sess.step \in 1 .. Steps(req)
        /\ sess.step > 1 =>
               /\ sess.merged \in LogNotes
               /\ sess.merged.owner = User /\ sess.merged.id = <<req.n, sess.step - 1>>
               /\ sess.merged.amount = Total(First(req, sess.step))

\* Proved for a tree that existed.
ProofInv == ProvesExistingTree

Signed(env) ==
    /\ VerifyTx(env, User, 1)
    /\ \A k \in DOMAIN env.auth : EntryAuthorised(env.auth[k], env.auth[k].expiration)

\* What is being signed is the call of the current step.
SignInv ==
    /\ sess.pc \in {"sign", "send"} => Prepared.tx.call = Call
    /\ sess.pc = "sign" =>
           /\ Prepared.tx.signers = <<>>
           /\ \A i \in DOMAIN sess.signatures : sess.signatures[i] =
                  SignPreimage(SorobanAuthPreimage(Prepared.entries[i], AuthExpirationLedger(Prepared)))
    /\ sess.pc = "send" => Signed(Prepared.tx)
    /\ \A i \in DOMAIN txs : Signed(txs[i].env)

-----------------------------------------------------------------------------
(* What has been sent.                                                     *)

CallOf(i) == txs[i].env.call
Num(i) == CallOf(i).step.out.id[2]
Success(i) == txs[i].status = "success"
HasLanded(n, t) ==
    \E j \in DOMAIN txs : CallOf(j).request = n /\ Num(j) = t /\ Success(j)

AskedIn(past, current, n) == IF n \in DOMAIN past THEN past[n].amount ELSE current.amount
Asked(n) == AskedIn(ended, req, n)

\* Every step of a request is sent once, after the ones before it have landed.
SentInv ==
    /\ \A i \in DOMAIN txs :
           /\ CallOf(i).request \in 1 .. Len(ended) + 1
           /\ Num(i) >= 1 /\ CallOf(i).step.out.id = <<CallOf(i).request, Num(i)>>
           /\ \A t \in 1 .. Num(i) - 1 : HasLanded(CallOf(i).request, t)
           /\ CallOf(i).last => CallOf(i).step.ext \in {Asked(CallOf(i).request),
                                                        0 - Asked(CallOf(i).request)}
    /\ \A i, j \in DOMAIN txs : CallOf(i).request = CallOf(j).request =>
           /\ Num(i) = Num(j) => i = j
           /\ CallOf(i).last => Num(j) <= Num(i)

\* How far the running request has come.
RunningInv ==
    /\ \A i \in DOMAIN txs : CallOf(i).request = Len(ended) + 1 =>
           /\ ~Idle
           /\ Num(i) <= sess.step
           /\ Num(i) = sess.step => sess.pc = "confirm" /\ i = Len(txs)
           /\ CallOf(i).last <=> Num(i) = Steps(req)
    /\ ~Idle => \A t \in 1 .. sess.step - 1 : HasLanded(req.n, t)
    /\ sess.pc = "confirm" =>
           /\ txs # <<>>
           /\ CallOf(Len(txs)).request = req.n /\ CallOf(Len(txs)).kind = req.kind
           /\ CallOf(Len(txs)).step = Step /\ CallOf(Len(txs)).last = Final(req, sess.step)

DoneInv ==
    \A n \in DOMAIN ended : ended[n].result = "done" =>
        \E i \in DOMAIN txs : CallOf(i).request = n /\ CallOf(i).last /\ Success(i)

-----------------------------------------------------------------------------
(* Value.                                                                  *)

\* A pool transaction spends notes that exist and gives back what they were worth.
Balanced(entry) ==
    /\ entry.out.owner = User
    /\ \E S \in SUBSET LogNotes :
           /\ entry.ins = {note.id : note \in S}
           /\ \A note \in S : note.owner = User /\ note.amount > 0
           /\ entry.ext = entry.out.amount - Total(S)

\* Where the ids of the notes come from; no id is used twice.
LogInv ==
    /\ \A i, j \in DOMAIN log : log[i].out.id = log[j].out.id => i = j
    /\ \A i \in DOMAIN log :
           LET id == log[i].out.id
           IN  /\ id[1] # 0 - 3
               /\ id[1] < 0 => id[2] < others
               /\ id[1] > 0 => \E j \in DOMAIN txs : /\ Success(j)
                                                     /\ CallOf(j).kind # "register"
                                                     /\ CallOf(j).step.out.id = id
               /\ log[i].ins \subseteq {note.id : note \in LogNotes}
    /\ \A j \in DOMAIN txs :
           /\ Balanced(CallOf(j).step)
           /\ Success(j) /\ CallOf(j).kind # "register" => CallOf(j).step.out \in LogNotes

SessionInv ==
    /\ TypesInv /\ SequenceInv /\ ReqInv /\ ProofInv /\ SignInv
    /\ SentInv /\ RunningInv /\ DoneInv
    /\ LogInv /\ ValueKept

-----------------------------------------------------------------------------
(* Sets of notes and their worth.                                          *)

LEMMA FiniteImage ==
  ASSUME NEW m \in Nat, NEW f, NEW T, T = {f[i] : i \in 1..m}
  PROVE  IsFiniteSet(T)
<1> DEFINE g == [i \in 1..m |-> f[i]]
<1>1. g \in Surjection(1..m, T)
  BY DEF Surjection
<1>2. IsFiniteSet(1..m)
  BY FS_Interval
<1> QED BY <1>1, <1>2, FS_Surjection

LEMMA TotalIsSum ==
  ASSUME NEW S
  PROVE  Total(S) = SumOver([x \in S |-> x.amount], S)
<1> DEFINE f == [x \in S |-> x.amount]
<1>1. SumFunction(f) = SumOver(f, DOMAIN f)
  BY SumFunctionIsSumOver
<1>2. DOMAIN f = S
  OBVIOUS
<1> QED BY <1>1, <1>2 DEF Total

LEMMA TotalSplit ==
  ASSUME NEW S, IsFiniteSet(S), \A x \in S : x.amount \in Nat, NEW T \in SUBSET S
  PROVE  /\ Total(S) \in Nat /\ Total(T) \in Nat /\ Total(S \ T) \in Nat
         /\ Total(S) = Total(T) + Total(S \ T)
<1> DEFINE f(U) == [x \in U |-> x.amount]
<1>1. ASSUME NEW U \in SUBSET S
      PROVE  Total(U) = SumOver(f(S), U) /\ SumOver(f(S), U) \in Nat
  <2>1. IsFiniteSet(U)
    BY FS_Subset
  <2>2. \A x \in U : f(U)[x] = f(S)[x] /\ f(S)[x] \in Nat
    OBVIOUS
  <2>3. Total(U) = SumOver(f(U), U)
    BY TotalIsSum
  <2> HIDE DEF f
  <2>4. SumOver(f(U), U) = SumOver(f(S), U)
    BY <2>1, <2>2, SumOverAgree
  <2>5. SumOver(f(S), U) \in Nat
    BY <2>1, <2>2, SumOverNat
  <2> QED BY <2>3, <2>4, <2>5
<1>2. SumOver(f(S), S) = SumOver(f(S), T) + SumOver(f(S), S \ T)
  <2>1. \A x \in S : f(S)[x] \in Int
    OBVIOUS
  <2> HIDE DEF f
  <2> QED BY <2>1, SumOverSplit
<1> HIDE DEF f
<1>3. S \in SUBSET S /\ S \ T \in SUBSET S
  OBVIOUS
<1> QED BY <1>1, <1>2, <1>3

LEMMA TotalEmpty == Total({}) = 0
<1>1. Total({}) = SumOver([x \in {} |-> x.amount], {})
  BY TotalIsSum
<1> DEFINE f == [x \in {} |-> x.amount]
<1>2. IsFiniteSet({})
  BY FS_EmptySet
<1> HIDE DEF f
<1>3. SumOver(f, {}) = 0
  BY <1>2, SumOverUnfold
<1> QED BY <1>1, <1>3 DEF f

LEMMA TotalOne ==
  ASSUME NEW x, x.amount \in Nat
  PROVE  Total({x}) = x.amount
<1> DEFINE S == {x}
           f == [y \in S |-> y.amount]
<1>1. Total(S) = SumOver(f, S)
  BY TotalIsSum
<1>2. IsFiniteSet(S) /\ (\A y \in S : f[y] \in Int) /\ x \in S /\ f[x] = x.amount
  <2>1. IsFiniteSet(S)
    BY FS_Singleton
  <2>2. x \in S /\ f[x] = x.amount
    OBVIOUS
  <2>3. \A y \in S : f[y] = x.amount
    OBVIOUS
  <2> QED BY <2>1, <2>2, <2>3
<1>3. S \ {x} = {}
  OBVIOUS
<1> HIDE DEF S, f
<1>4. SumOver(f, S) = f[x] + SumOver(f, S \ {x})
  BY <1>2, SumOverRemove
<1>5. SumOver(f, {}) = 0
  BY <1>2, SumOverUnfold
<1>6. Total(S) = x.amount
  BY <1>1, <1>2, <1>3, <1>4, <1>5
<1> QED BY <1>6 DEF S

LEMMA TotalAdd ==
  ASSUME NEW S, IsFiniteSet(S), \A x \in S : x.amount \in Nat,
         NEW y, y \notin S, y.amount \in Nat
  PROVE  Total(S \cup {y}) = Total(S) + y.amount /\ Total(S) \in Nat
<1> DEFINE U == S \cup {y}
<1>1. IsFiniteSet(U)
  BY FS_AddElement
<1>2. (\A x \in U : x.amount \in Nat) /\ S \in SUBSET U /\ U \ S = {y}
  OBVIOUS
<1> HIDE DEF U
<1>3. Total(U) = Total(S) + Total(U \ S) /\ Total(S) \in Nat
  BY <1>1, <1>2, TotalSplit
<1>4. Total({y}) = y.amount
  BY TotalOne
<1> QED BY <1>2, <1>3, <1>4 DEF U

\* SetToSeq lists every element of a finite set once.
LEMMA SetToSeqLists ==
  ASSUME NEW S, IsFiniteSet(S)
  PROVE  /\ SetToSeq(S) \in Seq(S)
         /\ Len(SetToSeq(S)) = Cardinality(S)
         /\ \A i, j \in DOMAIN SetToSeq(S) : SetToSeq(S)[i] = SetToSeq(S)[j] => i = j
         /\ Range(SetToSeq(S)) = S
<1> DEFINE n == Cardinality(S)
           f == SetToSeq(S)
<1>1. n \in Nat /\ ExistsBijection(1..n, S)
  BY FS_CardinalityType
<1>2. PICK g \in Bijection(1..n, S) : TRUE
  BY <1>1 DEF ExistsBijection
<1>3. g \in [1..n -> S] /\ IsInjective(g)
  BY <1>2 DEF Bijection, Injection
<1>4. f \in [1..n -> S] /\ IsInjective(f)
  BY <1>3 DEF SetToSeq
<1> HIDE DEF f, n
<1>5. f \in Injection(1..n, S)
  BY <1>4 DEF Injection
<1>6. IsFiniteSet(1..n) /\ Cardinality(1..n) = n
  BY <1>1, FS_Interval
<1>7. f \in Surjection(1..n, S)
  BY <1>5, <1>6, FS_Injection DEF n
<1>8. f \in Seq(S) /\ Len(f) = n /\ DOMAIN f = 1..n
  BY <1>1, <1>4
<1>9. Range(f) = S
  BY <1>4, <1>7 DEF Surjection, Range
<1>10. \A i, j \in DOMAIN f : f[i] = f[j] => i = j
  BY <1>4 DEF IsInjective
<1> QED BY <1>8, <1>9, <1>10 DEF f, n

-----------------------------------------------------------------------------
(* The step of a plan.                                                     *)

LEMMA LogNotesTyped ==
  ASSUME TypesInv
  PROVE  /\ Len(log) \in Nat /\ DOMAIN log = 1..Len(log)
         /\ \A i \in 1..Len(log) : log[i] \in PoolEntries /\ log[i].out \in LogNotes
         /\ LogNotes \subseteq NoteRecords /\ IsFiniteSet(LogNotes)
         /\ \A x \in LogNotes : x.amount \in Nat
<1>1. Len(log) \in Nat /\ DOMAIN log = 1..Len(log) /\ \A i \in 1..Len(log) : log[i] \in PoolEntries
  BY DEF TypesInv
<1>2. LogNotes \subseteq NoteRecords /\ \A i \in 1..Len(log) : log[i].out \in LogNotes
  BY <1>1 DEF LogNotes, PoolEntries
<1>3. \A x \in LogNotes : x.amount \in Nat
  BY <1>2 DEF NoteRecords
<1> DEFINE f == [i \in 1..Len(log) |-> log[i].out]
<1>4. LogNotes = {f[i] : i \in 1..Len(log)}
  BY <1>1 DEF LogNotes
<1> HIDE DEF f
<1>5. IsFiniteSet(LogNotes)
  BY <1>1, <1>4, FiniteImage
<1> QED BY <1>1, <1>2, <1>3, <1>5

\* The first notes of a plan: their worth grows by one note at a time.
LEMMA FirstFacts ==
  ASSUME TypesInv, ReqInv, ~Idle
  PROVE  /\ Len(req.picks) \in Nat /\ DOMAIN req.picks = 1..Len(req.picks)
         /\ \A k \in 0..Len(req.picks) :
                First(req, k) \subseteq Range(req.picks) /\ Total(First(req, k)) \in Nat
         /\ \A k \in 1..Len(req.picks) :
                Total(First(req, k)) = Total(First(req, k - 1)) + req.picks[k].amount
         /\ First(req, Len(req.picks)) = Range(req.picks)
         /\ First(req, 0) = {}
<1> DEFINE m == Len(req.picks)
           p == req.picks
<1>1. m \in Nat /\ DOMAIN p = 1..m /\ \A i \in 1..m : p[i] \in NoteRecords /\ p[i].amount \in Nat
  <2>1. p \in Seq(NoteRecords)
    BY DEF TypesInv
  <2> HIDE DEF p
  <2>2. Len(p) \in Nat /\ DOMAIN p = 1..Len(p) /\ \A i \in 1..Len(p) : p[i] \in NoteRecords
    BY <2>1
  <2> QED BY <2>2 DEF NoteRecords, p
<1>2. \A i, j \in 1..m : p[i] = p[j] => i = j
  BY <1>1 DEF ReqInv
<1>3. ASSUME NEW k \in 0..m
      PROVE  First(req, k) \subseteq Range(p) /\ Total(First(req, k)) \in Nat
             /\ IsFiniteSet(First(req, k)) /\ \A x \in First(req, k) : x.amount \in Nat
  <2>1. First(req, k) \in SUBSET Range(p)
    BY <1>1 DEF First, Range
  <2>2. IsFiniteSet(Range(p)) /\ \A x \in Range(p) : x.amount \in Nat
    <3>1. Range(p) = {p[i] : i \in 1..m}
      BY <1>1 DEF Range
    <3> QED BY <1>1, <3>1, FiniteImage
  <2>3. Total(First(req, k)) \in Nat
    BY <2>1, <2>2, TotalSplit
  <2>4. IsFiniteSet(First(req, k))
    BY <2>1, <2>2, FS_Subset
  <2> QED BY <2>1, <2>2, <2>3, <2>4
<1>4. ASSUME NEW k \in 1..m
      PROVE  Total(First(req, k)) = Total(First(req, k - 1)) + p[k].amount
  <2>1. k - 1 \in 0..m /\ k \in Nat
    BY <1>1
  <2>2. First(req, k) = First(req, k - 1) \cup {p[k]}
    <3>1. \A i \in 1..k : i \in 1..(k - 1) \/ i = k
      BY <2>1
    <3>2. \A i \in 1..(k - 1) : i \in 1..k
      BY <2>1
    <3>3. k \in 1..k
      BY <1>4
    <3> QED BY <3>1, <3>2, <3>3 DEF First
  <2>3. p[k] \notin First(req, k - 1)
    <3>1. ASSUME NEW i \in 1..(k - 1) PROVE p[i] # p[k]
      <4>1. i \in 1..m /\ i # k
        BY <1>1
      <4> QED BY <1>2, <4>1
    <3> QED BY <3>1 DEF First
  <2>4. p[k].amount \in Nat
    BY <1>1
  <2>5. IsFiniteSet(First(req, k - 1)) /\ \A x \in First(req, k - 1) : x.amount \in Nat
    BY <1>3, <2>1
  <2>6. Total(First(req, k - 1) \cup {p[k]}) = Total(First(req, k - 1)) + p[k].amount
    BY <2>3, <2>4, <2>5, TotalAdd
  <2> QED BY <2>2, <2>6
<1>5. First(req, m) = Range(p)
  BY <1>1 DEF First, Range
<1>6. First(req, 0) = {}
  BY DEF First
<1> QED BY <1>1, <1>3, <1>4, <1>5, <1>6

\* What a step spends, and what its inputs are worth.
LEMMA InputsFacts ==
  ASSUME TypesInv, ReqInv, ~Idle, req.kind \in Spends, PicksReal
  PROVE  LET ins == InputsOf(req, sess)
         IN  /\ ins # {} /\ ins \subseteq LogNotes
             /\ \A note \in ins : note.owner = User /\ note.amount > 0
             /\ Final(req, sess.step) => Total(ins) = Total(Range(req.picks))
             /\ ~Final(req, sess.step) => Total(ins) = Total(First(req, sess.step + 1))
<1> DEFINE m == Len(req.picks)
           p == req.picks
           s == sess.step
           ins == InputsOf(req, sess)
           q == sess.merged
<1>1. m \in Nat /\ m >= 1 /\ DOMAIN p = 1..m
      /\ (m <= 2 => Steps(req) = 1) /\ (~(m <= 2) => Steps(req) = m - 1)
      /\ s \in 1..Steps(req) /\ s \in Nat
      /\ (Final(req, s) <=> s = Steps(req))
  BY FirstFacts DEF ReqInv, Steps, Final
<1>2. \A i \in 1..m : p[i] \in LogNotes /\ p[i].owner = User /\ p[i].amount > 0 /\ p[i].id[1] < req.n
                      /\ p[i].amount \in Nat
  BY <1>1, LogNotesTyped DEF ReqInv, PicksReal
<1>3. CASE s = 1
  <2> DEFINE k == IF m = 1 THEN 1 ELSE 2
  <2>1. ins = First(req, k)
    BY <1>3 DEF InputsOf, First, Spends
  <2>2. k \in 1..m /\ (Final(req, s) => k = m) /\ (~Final(req, s) => k = s + 1)
    <3> HIDE DEF m, s
    <3>1. CASE m = 1
      BY <1>1, <1>3, <3>1
    <3>2. CASE m # 1
      <4>1. k = 2 /\ m >= 2 /\ k \in 1..m /\ s = 1
        BY <1>1, <1>3, <3>2
      <4>2. Final(req, s) <=> m = 2
        <5>1. Final(req, s) <=> Steps(req) = 1
          BY <1>1, <4>1
        <5>2. Steps(req) = 1 <=> m = 2
          BY <1>1, <4>1
        <5> QED BY <5>1, <5>2
      <4> QED BY <4>1, <4>2
    <3> QED BY <3>1, <3>2
  <2> HIDE DEF k
  <2>3. ins # {} /\ \A x \in ins : \E i \in 1..m : x = p[i]
    <3>1. 1 \in 1..k /\ \A i \in 1..k : i \in 1..m
      BY <1>1, <2>2
    <3> QED BY <2>1, <3>1 DEF First
  <2>4. First(req, m) = Range(p)
    BY FirstFacts
  <2> QED BY <1>2, <2>1, <2>2, <2>3, <2>4
<1>4. CASE s # 1
  <2>1. s > 1 /\ s + 1 \in 1..m /\ s \in 1..m /\ ~(m <= 2)
        /\ (Final(req, s) => s + 1 = m) /\ s + 1 - 1 = s
    BY <1>1, <1>4
  <2> DEFINE y == p[s + 1]
  <2>2. ins = {q, y}
    BY <1>4 DEF InputsOf, Spends
  <2>3. /\ q \in LogNotes /\ q.owner = User /\ q.id = <<req.n, s - 1>>
        /\ q.amount = Total(First(req, s)) /\ q.amount \in Nat
    BY <2>1, LogNotesTyped DEF ReqInv
  <2>4. y \in LogNotes /\ y.owner = User /\ y.amount > 0 /\ y.id[1] < req.n /\ y.amount \in Nat
    BY <1>2, <2>1
  <2>5. q # y
    <3>1. q.id[1] = req.n /\ req.n \in Nat
      BY <2>3 DEF TypesInv
    <3>2. y.id[1] # q.id[1]
      <4>1. y.id[1] \in Int
        BY <2>4, LogNotesTyped DEF NoteRecords, NoteIds
      <4> QED BY <2>4, <3>1, <4>1
    <3> QED BY <3>2
  <2>6. q.amount > 0
    <3>1. Total(First(req, s)) = Total(First(req, s - 1)) + p[s].amount
      BY <2>1, FirstFacts
    <3>2. Total(First(req, s - 1)) \in Nat
      <4>1. s - 1 \in 0..m
        BY <1>1, <2>1
      <4> QED BY <4>1, FirstFacts
    <3>3. p[s].amount \in Nat /\ p[s].amount > 0
      BY <1>2, <2>1
    <3> QED BY <2>3, <3>1, <3>2, <3>3
  <2> HIDE DEF q, y
  <2>7. Total({q, y}) = q.amount + y.amount
    <3>1. IsFiniteSet({q}) /\ (\A x \in {q} : x.amount \in Nat) /\ y \notin {q}
      BY <2>3, <2>5, FS_Singleton
    <3>2. Total({q} \cup {y}) = Total({q}) + y.amount
      BY <2>4, <3>1, TotalAdd
    <3>3. Total({q}) = q.amount
      BY <2>3, TotalOne
    <3>4. {q} \cup {y} = {q, y}
      OBVIOUS
    <3> QED BY <3>2, <3>3, <3>4
  <2>8. Total({q, y}) = Total(First(req, s + 1))
    <3>1. Total(First(req, s + 1)) = Total(First(req, s + 1 - 1)) + p[s + 1].amount
      BY <2>1, FirstFacts
    <3> QED BY <2>1, <2>3, <2>7, <3>1 DEF y
  <2>9. First(req, m) = Range(p)
    BY FirstFacts
  <2> QED BY <2>1, <2>2, <2>3, <2>4, <2>6, <2>8, <2>9
<1> QED BY <1>3, <1>4

\* The step is a pool transaction that balances.
LEMMA StepFacts ==
  ASSUME TypesInv, ReqInv, ~Idle, PicksReal
  PROVE  /\ Step \in PoolEntries
         /\ Balanced(Step)
         /\ Step.out.id = <<req.n, sess.step>> /\ Step.out.owner = User
         /\ req.kind \in Spends => Step.ins # {}
         /\ Final(req, sess.step) => Step.ext \in {req.amount, 0 - req.amount}
         /\ ~Final(req, sess.step) => /\ req.kind \in Spends
                                      /\ Step.out.amount = Total(First(req, sess.step + 1))
<1> DEFINE ins == InputsOf(req, sess)
           fin == Final(req, sess.step)
           amt == CASE req.kind = "deposit" -> req.amount
                    [] req.kind = "register" -> 0
                    [] ~fin -> Total(ins)
                    [] OTHER -> Excess(req)
           ext == IF ~fin THEN 0
                  ELSE IF req.kind = "deposit" THEN req.amount
                  ELSE IF req.kind = "register" THEN 0 ELSE 0 - req.amount
           id == <<req.n, sess.step>>
<1>1. Step = [ins |-> {note.id : note \in ins},
              out |-> [id |-> id, owner |-> User, amount |-> amt], ext |-> ext]
  BY DEF Step, StepOf, Note
<1>2. req.n \in Nat /\ sess.step \in Nat /\ req.amount \in Nat /\ req.kind \in AllKinds
      /\ id \in NoteIds
  BY DEF TypesInv, SessTypeInv, SessRecords, ReqInv, NoteIds
<1>3. CASE req.kind \in {"deposit", "register"}
  <2>1. ins = {} /\ fin /\ ext = amt /\ amt \in Nat /\ ext \in {req.amount, 0 - req.amount}
    <3>1. ins = {}
      BY <1>3 DEF InputsOf
    <3>2. req.picks = <<>> /\ Steps(req) = 1 /\ sess.step \in 1..1
      BY <1>3 DEF ReqInv, Steps
    <3>3. fin
      BY <3>2 DEF Final
    <3>4. (req.kind = "deposit" => amt = req.amount /\ ext = req.amount)
          /\ (req.kind = "register" => amt = 0 /\ ext = 0 /\ req.amount = 0)
      BY <3>3 DEF ReqInv
    <3> QED BY <1>2, <1>3, <3>1, <3>3, <3>4
  <2> HIDE DEF ins, amt, ext, fin, id
  <2>2. Step \in PoolEntries
    BY <1>1, <1>2, <2>1 DEF PoolEntries, NoteRecords
  <2>3. Step.ins = {} /\ Step.out.amount = amt /\ Step.ext = ext /\ Step.out.owner = User
        /\ Step.out.id = id
    BY <1>1, <2>1
  <2>4. Balanced(Step)
    <3>1. {} \in SUBSET LogNotes /\ Step.ins = {note.id : note \in {}}
      BY <2>3
    <3>2. Step.ext = Step.out.amount - Total({})
      BY <2>1, <2>3, TotalEmpty
    <3> QED BY <2>3, <3>1, <3>2 DEF Balanced
  <2> QED BY <1>3, <2>1, <2>2, <2>3, <2>4 DEF fin, id, Spends
<1>4. CASE req.kind \in Spends
  <2>1. /\ ins # {} /\ ins \subseteq LogNotes
        /\ \A note \in ins : note.owner = User /\ note.amount > 0
        /\ fin => Total(ins) = Total(Range(req.picks))
        /\ ~fin => Total(ins) = Total(First(req, sess.step + 1))
    BY <1>4, InputsFacts
  <2>2. Total(ins) \in Nat
    BY <2>1, LogNotesTyped, TotalSplit
  <2>3. req.kind # "deposit" /\ req.kind # "register"
    BY <1>4 DEF Spends
  <2>4. (~fin => amt = Total(ins) /\ ext = 0) /\ (fin => amt = Excess(req) /\ ext = 0 - req.amount)
    BY <2>3
  <2>5. Excess(req) \in Int /\ Excess(req) >= 0 /\ (fin => Excess(req) = Total(ins) - req.amount)
    <3>1. Total(Range(req.picks)) \in Nat
      BY FirstFacts
    <3> QED BY <1>2, <1>4, <2>1, <3>1 DEF Excess, ReqInv
  <2>6. {note.id : note \in ins} \in SUBSET NoteIds
    BY <2>1, LogNotesTyped DEF NoteRecords
  <2> HIDE DEF ins, amt, ext, fin, id
  <2>7. amt \in Nat /\ ext \in Int /\ ext = amt - Total(ins)
    BY <1>2, <2>2, <2>4, <2>5
  <2>8. Step \in PoolEntries
    BY <1>1, <1>2, <2>6, <2>7 DEF PoolEntries, NoteRecords
  <2>9. Step.ins = {note.id : note \in ins} /\ Step.out.amount = amt /\ Step.ext = ext
        /\ Step.out.owner = User /\ Step.out.id = id
    BY <1>1
  <2>10. Balanced(Step)
    BY <2>1, <2>7, <2>9 DEF Balanced
  <2>11. Step.ins # {}
    BY <2>1, <2>9
  <2> QED BY <1>4, <2>1, <2>4, <2>8, <2>9, <2>10, <2>11 DEF fin, id
<1> QED BY <1>2, <1>3, <1>4 DEF AllKinds

-----------------------------------------------------------------------------
(* What a step leaves alone.                                               *)

\* A step within the step of a plan: only the session moves.
Quiet ==
    /\ UNCHANGED <<chainVars, txs, indexed, noted, req, ended>>
    /\ sess'.step = sess.step /\ sess'.merged = sess.merged
    /\ sess.pc # "idle" /\ sess'.pc # "idle"
    /\ sess.pc = "confirm" <=> sess'.pc = "confirm"
    /\ sess.pc \in Preparing /\ sess'.pc \notin Preparing => PicksReal

LEMMA QuietFrame ==
  ASSUME SessionInv, Quiet, SessTypeInv'
  PROVE  /\ TypesInv' /\ ReqInv' /\ SentInv' /\ RunningInv' /\ DoneInv' /\ LogInv' /\ ValueKept'
         /\ Step' = Step /\ ~Idle
<1>1. /\ log' = log /\ sequence' = sequence /\ tip' = tip /\ others' = others /\ txs' = txs
      /\ indexed' = indexed /\ noted' = noted /\ req' = req /\ ended' = ended
  BY DEF Quiet, chainVars
<1>2. sess'.step = sess.step /\ sess'.merged = sess.merged /\ ~Idle /\ ~Idle'
      /\ (sess.pc = "confirm" <=> sess'.pc = "confirm")
      /\ (sess.pc \in Preparing /\ sess'.pc \notin Preparing => PicksReal)
  BY DEF Quiet, Idle
<1>3. Step' = Step
  BY <1>1, <1>2 DEF Step, StepOf, InputsOf, Final, Steps, Excess
<1>4. TypesInv'
  BY <1>1 DEF SessionInv, TypesInv
<1>5. LogNotes' = LogNotes
  BY <1>1 DEF LogNotes
<1>6. ReqInv'
  <2>1. PicksReal' = PicksReal
    BY <1>1, <1>5 DEF PicksReal
  <2> QED BY <1>1, <1>2, <1>5, <2>1 DEF SessionInv, ReqInv, Excess, Steps, First
<1>7. SentInv'
  BY <1>1 DEF SessionInv, SentInv, CallOf, Num, HasLanded, Success, Asked, AskedIn
<1>8. RunningInv'
  BY <1>1, <1>2, <1>3 DEF SessionInv, RunningInv, CallOf, Num, HasLanded, Success, Steps, Final
<1>9. DoneInv'
  BY <1>1 DEF SessionInv, DoneInv, CallOf, Success
<1>10. LogInv'
  BY <1>1, <1>5 DEF SessionInv, LogInv, CallOf, Success, Balanced
<1>11. ValueKept'
  BY <1>1 DEF SessionInv, ValueKept, NotesAt, Spent
<1> QED BY <1>2, <1>3, <1>4, <1>6, <1>7, <1>8, <1>9, <1>10, <1>11

\* Outside the part between the sequence number and the submission.
LEMMA UnnumberedFrame ==
  ASSUME SessionInv, UNCHANGED <<sequence, txs>>, sess'.pc \notin HasNumber
  PROVE  SequenceInv' /\ SignInv'
<1>1. sess'.pc # "sign" /\ sess'.pc # "send"
  BY DEF HasNumber
<1>2. SequenceInv'
  BY <1>1 DEF SessionInv, SequenceInv, Behind, Applied
<1>3. SignInv'
  BY <1>1 DEF SessionInv, SignInv, Signed
<1> QED BY <1>2, <1>3

LEMMA QuietUnnumbered ==
  ASSUME SessionInv, Quiet, SessTypeInv', sess'.pc \notin HasNumber, ProofInv'
  PROVE  SessionInv'
<1>1. SequenceInv' /\ SignInv'
  BY UnnumberedFrame DEF Quiet, chainVars
<1> QED BY <1>1, QuietFrame DEF SessionInv

-----------------------------------------------------------------------------
(* prove_transact_inner.                                                   *)

LEMMA PcStrings ==
  /\ Pcs = {"idle", "sequence", "confirm", "bulk", "root", "keys", "ask", "wait", "ping",
            "prove", "simulate", "sign", "send"}
  /\ HasNumber = {"simulate", "sign", "send"}
BY DEF Pcs, HasNumber, Preparing, Proving

LEMMA SnapshotTyped ==
  ASSUME TypesInv
  PROVE  /\ PoolState \in [slot : Nat, next : Nat, root : Nat]
         /\ NoSnapshot \in [slot : Nat, next : Nat, root : Nat]
         /\ RootAt(PoolState.slot) \in Nat
<1>1. Len(log) \in Nat /\ RootHistory \in Nat \ {0}
  BY SessionAssumption DEF TypesInv
<1>2. RootSlot(Len(log)) \in Nat
  BY <1>1 DEF RootSlot
<1>3. PoolState \in [slot : Nat, next : Nat, root : Nat] /\ PoolState.slot = RootSlot(Len(log))
  BY <1>1, <1>2 DEF PoolState
<1>4. Len(log) \in KnownRoots /\ KnownRoots \subseteq Nat
  BY <1>1 DEF KnownRoots
<1>5. RootAt(PoolState.slot) \in KnownRoots
  BY <1>3, <1>4 DEF RootAt
<1> QED BY <1>3, <1>4, <1>5 DEF NoSnapshot

LEMMA ReadPoolStateInv ==
  ASSUME SessionInv, ReadPoolState
  PROVE  SessionInv'
<1> DEFINE s == PoolState
<1>1. s \in [slot : Nat, next : Nat, root : Nat]
  BY SnapshotTyped DEF SessionInv
<1> HIDE DEF s
<1>2. sess \in SessRecords /\ sess.pc = "bulk" /\ sess.signatures = <<>>
  BY DEF SessionInv, TypesInv, SessTypeInv, ReadPoolState
<1>3. sess' = [sess EXCEPT !.pc = "root", !.snap = s]
  BY DEF ReadPoolState, s
<1>4. sess'.pc = "root" /\ sess'.signatures = <<>> /\ sess' \in SessRecords
      /\ sess'.step = sess.step /\ sess'.merged = sess.merged
  BY <1>1, <1>2, <1>3, PcStrings DEF SessRecords
<1>5. SessTypeInv'
  BY <1>4 DEF SessTypeInv
<1>6. Quiet
  BY <1>2, <1>4 DEF Quiet, Preparing, ReadPoolState
<1>7. sess'.pc \notin HasNumber /\ ProofInv'
  BY <1>4, PcStrings DEF ProofInv, ProvesExistingTree
<1> QED BY <1>5, <1>6, <1>7, QuietUnnumbered

\* A session with nothing in hand.
LEMMA RestTyped ==
  /\ Rest \in SessRecords /\ Rest.pc = "idle" /\ Rest.signatures = <<>> /\ Rest.step = 0
  /\ Rest.merged \in NoteRecords /\ Rest.rivals = {} /\ Rest.prepared = <<>>
  /\ NoRequest \in [n : Nat, kind : AllKinds \cup {"none"}, amount : Nat, picks : Seq(NoteRecords)]
<1>1. Note(<<0, 0>>, User, 0) \in NoteRecords
  BY DEF Note, NoteRecords, NoteIds
<1>2. NoSnapshot \in [slot : Nat, next : Nat, root : Nat]
  BY DEF NoSnapshot
<1> DEFINE x == Note(<<0, 0>>, User, 0)
           y == NoSnapshot
<1>3. Rest = [pc |-> "idle", step |-> 0, attempt |-> 0, snap |-> y, merged |-> x,
              number |-> 0, rivals |-> {}, prepared |-> <<>>, signatures |-> <<>>]
  BY DEF Rest
<1> HIDE DEF x, y
<1>4. Rest \in SessRecords
  BY <1>1, <1>2, <1>3, PcStrings DEF SessRecords, x, y
<1>5. NoRequest \in [n : Nat, kind : AllKinds \cup {"none"}, amount : Nat, picks : Seq(NoteRecords)]
  BY DEF NoRequest
<1> QED BY <1>1, <1>3, <1>4, <1>5 DEF x

\* The amount asked for in a request is recorded when it ends.
LEMMA EndFacts ==
  ASSUME TypesInv, ReqInv, ~Idle, NEW result \in {"done", "failed", "none"}, End(result)
  PROVE  /\ Len(ended') = Len(ended) + 1 /\ Len(ended) \in Nat
         /\ DOMAIN ended = 1..Len(ended) /\ DOMAIN ended' = 1..(Len(ended) + 1)
         /\ ended' \in Seq([kind : AllKinds, amount : Nat, result : {"done", "failed", "none"}])
         /\ \A n \in DOMAIN ended : ended'[n] = ended[n]
         /\ ended'[Len(ended) + 1].result = result
         /\ \A n \in 1..(Len(ended) + 1) : AskedIn(ended', req', n) = AskedIn(ended, req, n)
         /\ sess' = Rest /\ req' = NoRequest
<1> DEFINE e == [kind |-> req.kind, amount |-> req.amount, result |-> result]
           R == [kind : AllKinds, amount : Nat, result : {"done", "failed", "none"}]
<1>1. ended' = Append(ended, e) /\ sess' = Rest /\ req' = NoRequest
  BY DEF End
<1>2. e \in R /\ ended \in Seq(R) /\ e.amount = req.amount /\ e.result = result
  BY DEF TypesInv, ReqInv
<1> HIDE DEF e, R
<1>3. /\ Len(ended') = Len(ended) + 1 /\ Len(ended) \in Nat
      /\ DOMAIN ended = 1..Len(ended) /\ DOMAIN ended' = 1..(Len(ended) + 1)
      /\ ended' \in Seq(R)
      /\ \A n \in DOMAIN ended : ended'[n] = ended[n]
      /\ ended'[Len(ended) + 1] = e
  BY <1>1, <1>2
<1>4. ASSUME NEW n \in 1..(Len(ended) + 1) PROVE AskedIn(ended', req', n) = AskedIn(ended, req, n)
  <2>1. CASE n \in DOMAIN ended
    BY <1>3, <2>1 DEF AskedIn
  <2>2. CASE n \notin DOMAIN ended
    <3>1. n = Len(ended) + 1
      BY <1>3, <2>2
    <3> QED BY <1>2, <1>3, <2>2, <3>1 DEF AskedIn
  <2> QED BY <2>1, <2>2
<1> QED BY <1>1, <1>2, <1>3, <1>4 DEF R

LEMMA EndInv ==
  ASSUME SessionInv, ~Idle, NEW result \in {"done", "failed", "none"}, End(result),
         UNCHANGED <<chainVars, txs, indexed, noted>>,
         result = "done" => \E i \in DOMAIN txs :
             CallOf(i).request = req.n /\ CallOf(i).last /\ Success(i)
  PROVE  SessionInv'
<1>1. /\ log' = log /\ sequence' = sequence /\ tip' = tip /\ others' = others /\ txs' = txs
      /\ indexed' = indexed /\ noted' = noted
  BY DEF chainVars
<1>2. /\ Len(ended') = Len(ended) + 1 /\ Len(ended) \in Nat
      /\ DOMAIN ended = 1..Len(ended) /\ DOMAIN ended' = 1..(Len(ended) + 1)
      /\ ended' \in Seq([kind : AllKinds, amount : Nat, result : {"done", "failed", "none"}])
      /\ \A n \in DOMAIN ended : ended'[n] = ended[n]
      /\ ended'[Len(ended) + 1].result = result
      /\ \A n \in 1..(Len(ended) + 1) : AskedIn(ended', req', n) = AskedIn(ended, req, n)
      /\ sess' = Rest /\ req' = NoRequest
  BY EndFacts DEF SessionInv
<1>3. sess'.pc = "idle" /\ sess' \in SessRecords /\ sess'.signatures = <<>>
  BY <1>2, RestTyped
<1>4. TypesInv'
  BY <1>1, <1>2, <1>3, RestTyped DEF SessionInv, TypesInv, SessTypeInv
<1>5. SequenceInv' /\ SignInv'
  BY <1>1, <1>3, UnnumberedFrame, PcStrings
<1>6. ReqInv' /\ ProofInv'
  BY <1>2, <1>3 DEF ReqInv, Idle, ProofInv, ProvesExistingTree
<1>7. SentInv'
  <2>1. ASSUME NEW i \in DOMAIN txs
        PROVE  /\ CallOf(i).request \in 1..(Len(ended') + 1)
               /\ AskedIn(ended', req', CallOf(i).request) = AskedIn(ended, req, CallOf(i).request)
    <3>1. CallOf(i).request \in 1..(Len(ended) + 1)
      BY DEF SessionInv, SentInv
    <3> QED BY <1>2, <3>1
  <2> QED BY <1>1, <2>1 DEF SessionInv, SentInv, CallOf, Num, HasLanded, Success, Asked
<1>8. RunningInv'
  <2>1. \A i \in DOMAIN txs : CallOf(i).request # Len(ended') + 1
    BY <1>2 DEF SessionInv, SentInv
  <2> QED BY <1>1, <1>3, <2>1 DEF RunningInv, Idle, CallOf
<1>9. DoneInv'
  <2>1. ASSUME NEW n \in DOMAIN ended', ended'[n].result = "done"
        PROVE  \E i \in DOMAIN txs : CallOf(i).request = n /\ CallOf(i).last /\ Success(i)
    <3>1. CASE n \in DOMAIN ended
      BY <1>2, <2>1, <3>1 DEF SessionInv, DoneInv
    <3>2. CASE n \notin DOMAIN ended
      <4>1. n = Len(ended) + 1 /\ n = req.n
        BY <1>2, <3>2 DEF SessionInv, ReqInv
      <4> QED BY <1>2, <2>1, <4>1
    <3> QED BY <3>1, <3>2
  <2> QED BY <1>1, <2>1 DEF DoneInv, CallOf, Success
<1>10. LogInv' /\ ValueKept'
  <2>1. LogNotes' = LogNotes
    BY <1>1 DEF LogNotes
  <2>2. LogInv'
    BY <1>1, <2>1 DEF SessionInv, LogInv, CallOf, Success, Balanced
  <2>3. ValueKept'
    BY <1>1 DEF SessionInv, ValueKept, NotesAt, Spent
  <2> QED BY <2>2, <2>3
<1> QED BY <1>4, <1>5, <1>6, <1>7, <1>8, <1>9, <1>10 DEF SessionInv

LEMMA FailInv ==
  ASSUME SessionInv, ~Idle, End("failed") \/ End("none"), UNCHANGED <<chainVars, txs, indexed, noted>>
  PROVE  SessionInv'
<1>1. CASE End("failed")
  BY <1>1, EndInv
<1>2. CASE End("none")
  BY <1>2, EndInv
<1> QED BY <1>1, <1>2

LEMMA ReadPoolRootInv ==
  ASSUME SessionInv, ReadPoolRoot
  PROVE  SessionInv'
<1>1. sess \in SessRecords /\ sess.pc = "root" /\ sess.signatures = <<>> /\ ~Idle
      /\ sess.snap \in [slot : Nat, next : Nat, root : Nat]
      /\ UNCHANGED <<chainVars, txs, indexed, noted>>
  BY DEF SessionInv, TypesInv, SessTypeInv, SessRecords, ReadPoolRoot, Idle
<1>2. CASE PoolState.slot = sess.snap.slot
  <2> DEFINE r == RootAt(sess.snap.slot)
  <2>1. sess' = [sess EXCEPT !.pc = "keys", !.snap.root = r] /\ UNCHANGED <<req, ended>>
    BY <1>2 DEF ReadPoolRoot
  <2>2. r \in Nat
    BY <1>2, SnapshotTyped DEF SessionInv
  <2> HIDE DEF r
  <2>3. sess'.pc = "keys" /\ sess'.signatures = <<>> /\ sess' \in SessRecords
        /\ sess'.step = sess.step /\ sess'.merged = sess.merged
    BY <1>1, <2>1, <2>2, PcStrings DEF SessRecords
  <2>4. SessTypeInv' /\ Quiet
    BY <1>1, <2>1, <2>3 DEF SessTypeInv, Quiet, Preparing
  <2>5. sess'.pc \notin HasNumber /\ ProofInv'
    BY <2>3, PcStrings DEF ProofInv, ProvesExistingTree
  <2> QED BY <2>4, <2>5, QuietUnnumbered
<1>3. CASE PoolState.slot # sess.snap.slot /\ sess.attempt < SnapshotAttempts
  <2> DEFINE s == NoSnapshot
             n == sess.attempt + 1
  <2>1. sess' = [sess EXCEPT !.pc = "bulk", !.attempt = n, !.snap = s]
        /\ UNCHANGED <<req, ended>>
    BY <1>3 DEF ReadPoolRoot
  <2>2. s \in [slot : Nat, next : Nat, root : Nat] /\ n \in Nat
    BY <1>1 DEF NoSnapshot, SessRecords
  <2> HIDE DEF s, n
  <2>3. sess'.pc = "bulk" /\ sess'.signatures = <<>> /\ sess' \in SessRecords
        /\ sess'.step = sess.step /\ sess'.merged = sess.merged
    BY <1>1, <2>1, <2>2, PcStrings DEF SessRecords
  <2>4. SessTypeInv' /\ Quiet
    BY <1>1, <2>1, <2>3 DEF SessTypeInv, Quiet, Preparing
  <2>5. sess'.pc \notin HasNumber /\ ProofInv'
    BY <2>3, PcStrings DEF ProofInv, ProvesExistingTree
  <2> QED BY <2>4, <2>5, QuietUnnumbered
<1>4. CASE End("failed")
  BY <1>1, <1>4, FailInv
<1> QED BY <1>2, <1>3, <1>4 DEF ReadPoolRoot

\* The steps that only move the session on.
LEMMA SimpleStepsInv ==
  ASSUME SessionInv, GetNonMembershipProof \/ SyncWait \/ PingProver \/ Prove
  PROVE  SessionInv'
<1>1. sess \in SessRecords /\ (sess.pc # "sign" => sess.signatures = <<>>)
  BY DEF SessionInv, TypesInv, SessTypeInv
<1>2. CASE GetNonMembershipProof
  <2>1. sess.pc = "keys" /\ sess' = [sess EXCEPT !.pc = "ask", !.attempt = 0]
        /\ UNCHANGED <<chainVars, txs, indexed, noted, req, ended>>
    BY <1>2 DEF GetNonMembershipProof
  <2>2. sess'.pc = "ask" /\ sess'.signatures = <<>> /\ sess' \in SessRecords
        /\ sess'.step = sess.step /\ sess'.merged = sess.merged
    BY <1>1, <2>1, PcStrings DEF SessRecords
  <2>3. SessTypeInv' /\ Quiet
    BY <2>1, <2>2 DEF SessTypeInv, Quiet, Preparing
  <2>4. sess'.pc \notin HasNumber /\ ProofInv'
    BY <2>2, PcStrings DEF ProofInv, ProvesExistingTree
  <2> QED BY <2>3, <2>4, QuietUnnumbered
<1>3. CASE SyncWait
  <2> DEFINE s == NoSnapshot
  <2>1. sess.pc = "wait" /\ sess' = [sess EXCEPT !.pc = "bulk", !.attempt = 1, !.snap = s]
        /\ UNCHANGED <<chainVars, txs, indexed, noted, req, ended>>
    BY <1>3 DEF SyncWait
  <2>2. s \in [slot : Nat, next : Nat, root : Nat]
    BY DEF NoSnapshot
  <2> HIDE DEF s
  <2>3. sess'.pc = "bulk" /\ sess'.signatures = <<>> /\ sess' \in SessRecords
        /\ sess'.step = sess.step /\ sess'.merged = sess.merged
    BY <1>1, <2>1, <2>2, PcStrings DEF SessRecords
  <2>4. SessTypeInv' /\ Quiet
    BY <2>1, <2>3 DEF SessTypeInv, Quiet, Preparing
  <2>5. sess'.pc \notin HasNumber /\ ProofInv'
    BY <2>3, PcStrings DEF ProofInv, ProvesExistingTree
  <2> QED BY <2>4, <2>5, QuietUnnumbered
<1>4. CASE PingProver \/ Prove
  <2> DEFINE next == IF sess.pc = "ping" THEN "prove" ELSE "sequence"
  <2>1. sess.pc \in {"ping", "prove"} /\ sess' = [sess EXCEPT !.pc = next]
        /\ UNCHANGED <<chainVars, txs, indexed, noted, req, ended>>
    BY <1>4 DEF PingProver, Prove
  <2>2. next \in {"prove", "sequence"}
    OBVIOUS
  <2> HIDE DEF next
  <2>3. sess'.pc = next /\ sess'.signatures = <<>> /\ sess' \in SessRecords
        /\ sess'.step = sess.step /\ sess'.merged = sess.merged /\ sess'.snap = sess.snap
    BY <1>1, <2>1, <2>2, PcStrings DEF SessRecords
  <2>4. SessTypeInv' /\ Quiet
    BY <2>1, <2>2, <2>3 DEF SessTypeInv, Quiet, Preparing
  <2>5. sess'.pc \notin HasNumber
    BY <2>2, <2>3, PcStrings
  <2>6. ProofInv'
    BY <2>1, <2>3 DEF SessionInv, ProofInv, ProvesExistingTree
  <2> QED BY <2>4, <2>5, <2>6, QuietUnnumbered
<1> QED BY <1>2, <1>3, <1>4

\* Beyond the storage worker's answer the inputs are the user's notes.
LEMMA PicksAreReal ==
  ASSUME SessionInv, ~Idle, sess.pc \notin Preparing
  PROVE  PicksReal
BY DEF SessionInv, ReqInv

LEMMA InputsNotEmpty ==
  ASSUME SessionInv, ~Idle, req.kind \in Spends
  PROVE  Step.ins # {}
<1>1. Step.ins = {note.id : note \in InputsOf(req, sess)}
  BY DEF Step, StepOf
<1>2. Len(req.picks) >= 1 /\ Len(req.picks) \in Nat
  BY DEF SessionInv, ReqInv, TypesInv
<1>3. \E x : x \in InputsOf(req, sess)
  <2>1. CASE sess.step = 1
    <3>1. 1 \in 1..(IF Len(req.picks) = 1 THEN 1 ELSE 2)
      OBVIOUS
    <3>2. req.picks[1] \in InputsOf(req, sess)
      BY <2>1, <3>1 DEF InputsOf, Spends
    <3> QED BY <3>2
  <2>2. CASE sess.step # 1
    BY <2>2 DEF InputsOf, Spends
  <2> QED BY <2>1, <2>2
<1> QED BY <1>1, <1>3

\* A named input that the wallet holds as an unspent note is that note.
LEMMA KnownInputs ==
  ASSUME SessionInv, ~Idle, req.kind = "transact", InputsKnown
  PROVE  PicksReal
<1> DEFINE m == Len(req.picks)
           p == req.picks
<1>1. m \in Nat /\ m >= 1 /\ m <= 2 /\ DOMAIN p = 1..m
  BY DEF SessionInv, ReqInv, TypesInv, Spends
<1>2. sess.step = 1
  <2>1. sess.step \in 1..1
    BY <1>1 DEF SessionInv, ReqInv, Steps
  <2> QED BY <2>1
<1>3. ASSUME NEW i \in 1..m
      PROVE  p[i] \in LogNotes /\ p[i].owner = User /\ p[i].amount > 0
  <2>1. p[i] \in InputsOf(req, sess)
    <3>1. i \in 1..(IF m = 1 THEN 1 ELSE 2)
      <4> HIDE DEF m
      <4>1. CASE m = 1
        BY <4>1
      <4>2. CASE m = 2
        BY <4>2
      <4> QED BY <1>1, <4>1, <4>2
    <3> QED BY <1>2, <3>1 DEF InputsOf
  <2>2. p[i].id \in Step.ins
    BY <2>1 DEF Step, StepOf
  <2>3. PICK note \in NotesAt(noted) : note.id = p[i].id
    BY <2>2 DEF InputsKnown
  <2>4. PICK k \in 1..noted : note = log[k].out /\ note.owner = User /\ note.amount > 0
    BY DEF NotesAt
  <2>5. k \in DOMAIN log
    BY DEF SessionInv, TypesInv
  <2>6. p[i] \in LogNotes
    <3>1. note.id[1] # 0 - 3
      BY <2>4, <2>5 DEF SessionInv, LogInv
    <3> QED BY <1>1, <2>3, <3>1 DEF SessionInv, ReqInv
  <2>7. PICK l \in DOMAIN log : p[i] = log[l].out
    BY <2>6 DEF LogNotes
  <2>8. l = k
    BY <2>3, <2>4, <2>5, <2>7 DEF SessionInv, LogInv
  <2> QED BY <2>4, <2>6, <2>7, <2>8
<1> QED BY <1>1, <1>3 DEF PicksReal

LEMMA BuildTransactParamsInv ==
  ASSUME SessionInv, BuildTransactParams
  PROVE  SessionInv'
<1>1. sess \in SessRecords /\ sess.pc = "ask" /\ sess.signatures = <<>> /\ ~Idle
      /\ UNCHANGED <<chainVars, txs, indexed, noted>>
  BY DEF SessionInv, TypesInv, SessTypeInv, BuildTransactParams, Idle
<1>2. PICK next \in TransactAnswers :
         IF next = "error" THEN End("failed")
         ELSE sess' = [sess EXCEPT !.pc = next] /\ UNCHANGED <<req, ended>>
  BY DEF BuildTransactParams
<1>3. CASE next = "error"
  BY <1>1, <1>2, <1>3, FailInv
<1>4. CASE next # "error"
  <2>1. sess' = [sess EXCEPT !.pc = next] /\ UNCHANGED <<req, ended>>
    BY <1>2, <1>4
  <2>2. next \in {"wait", "ping"}
    BY <1>4 DEF TransactAnswers
  <2>3. ASSUME next = "ping", Step.ins # {} PROVE sess.snap.root = sess.snap.next /\ InputsKnown
    BY <2>3 DEF TransactAnswers
  <2>4. req.kind \in AllKinds /\ (req.kind \in Spends => Step.ins # {})
    BY <1>1, InputsNotEmpty DEF SessionInv, ReqInv
  <2>5. next = "ping" => PicksReal
    <3>1. CASE req.kind = "transact"
      BY <1>1, <2>3, <2>4, <3>1, KnownInputs DEF Spends
    <3>2. CASE req.kind # "transact"
      BY <1>1, <3>2 DEF SessionInv, ReqInv
    <3> QED BY <3>1, <3>2
  <2>6. sess'.pc = next /\ sess'.signatures = <<>> /\ sess' \in SessRecords
        /\ sess'.step = sess.step /\ sess'.merged = sess.merged /\ sess'.snap = sess.snap
    BY <1>1, <2>1, <2>2, PcStrings DEF SessRecords
  <2>7. SessTypeInv' /\ Quiet
    BY <1>1, <2>1, <2>2, <2>5, <2>6 DEF SessTypeInv, Quiet, Preparing
  <2>8. sess'.pc \notin HasNumber
    BY <2>2, <2>6, PcStrings
  <2>9. ProofInv'
    BY <2>1, <2>2, <2>3, <2>4, <2>6 DEF ProofInv, ProvesExistingTree, AllKinds
  <2> QED BY <2>7, <2>8, <2>9, QuietUnnumbered
<1> QED BY <1>3, <1>4

LEMMA FailuresInv ==
  ASSUME SessionInv,
         \/ RegisterAtAsp \/ WorkerFails \/ RpcFails \/ WalletRejects \/ SendRefused \/ Restart
  PROVE  SessionInv'
<1>1. (End("failed") \/ End("none")) /\ UNCHANGED <<chainVars, txs, indexed, noted>>
  BY DEF RegisterAtAsp, WorkerFails, RpcFails, WalletRejects, SendRefused, Restart
<1>2. ~Idle
  BY DEF RegisterAtAsp, WorkerFails, RpcFails, WalletRejects, SendRefused, Restart, Idle
<1> QED BY <1>1, <1>2, FailInv

-----------------------------------------------------------------------------
(* prepare_pool_transact, sign_prepared_transaction.                       *)

LEMMA TxsTyped ==
  ASSUME TypesInv
  PROVE  /\ Len(txs) \in Nat /\ DOMAIN txs = 1..Len(txs)
         /\ \A i \in DOMAIN txs : /\ i \in Nat /\ txs[i] \in TxRecords
                                  /\ txs[i].env \in Envelopes /\ txs[i].env.sequence \in Nat
                                  /\ CallOf(i) \in Calls
<1>1. Len(txs) \in Nat /\ DOMAIN txs = 1..Len(txs) /\ \A i \in DOMAIN txs : i \in Nat /\ txs[i] \in TxRecords
  BY DEF TypesInv
<1>2. \A x \in TxRecords : x.env \in Envelopes /\ x.env.sequence \in Nat /\ x.env.call \in Calls
  BY DEF TxRecords, Envelopes
<1> QED BY <1>1, <1>2 DEF CallOf

LEMMA ReadSequenceInv ==
  ASSUME SessionInv, ReadSequence
  PROVE  SessionInv'
<1> DEFINE m == AccountSequence
           P == Pending
<1>1. sess \in SessRecords /\ sess.pc = "sequence" /\ sess.signatures = <<>> /\ ~Idle
      /\ UNCHANGED <<chainVars, txs, indexed, noted, req, ended>>
      /\ sess' = [sess EXCEPT !.pc = "simulate", !.number = m, !.rivals = P]
  BY DEF SessionInv, TypesInv, SessTypeInv, ReadSequence, Idle
<1>2. m = sequence + 1 /\ m \in Nat /\ sequence \in Nat
  BY DEF AccountSequence, NextSequence, SessionInv, TypesInv
<1>3. P \subseteq DOMAIN txs /\ P \subseteq Nat /\ \A r \in P : txs[r].status = "pending"
  BY TxsTyped DEF SessionInv, Pending
<1> HIDE DEF m, P
<1>4. /\ sess'.pc = "simulate" /\ sess'.signatures = <<>> /\ sess' \in SessRecords
      /\ sess'.step = sess.step /\ sess'.merged = sess.merged /\ sess'.snap = sess.snap
      /\ sess'.number = m /\ sess'.rivals = P
  BY <1>1, <1>2, <1>3, PcStrings DEF SessRecords
<1>5. SessTypeInv' /\ Quiet
  BY <1>1, <1>4 DEF SessTypeInv, Quiet, Preparing
<1>6. txs' = txs /\ sequence' = sequence /\ req' = req
  BY <1>1 DEF chainVars
<1>7. ProofInv'
  BY <1>1, <1>4, <1>6 DEF SessionInv, ProofInv, ProvesExistingTree
<1>8. Behind(sess.rivals, sess.number)'
  BY <1>2, <1>3, <1>4, <1>6 DEF Behind, SessionInv, SequenceInv
<1>9. SequenceInv'
  <2>1. sess'.number <= sequence + 1
    BY <1>2, <1>4
  <2> QED BY <1>4, <1>6, <1>8, <2>1 DEF SessionInv, SequenceInv, Behind, Applied
<1>10. SignInv'
  BY <1>4, <1>6 DEF SessionInv, SignInv, Signed
<1> QED BY <1>5, <1>7, <1>9, <1>10, QuietFrame DEF SessionInv

LEMMA CallTyped ==
  ASSUME SessionInv, ~Idle, sess.pc \notin Preparing
  PROVE  Call \in Calls
<1> DEFINE s == Step
           f == Final(req, sess.step)
<1>1. s \in PoolEntries
  BY StepFacts, PicksAreReal DEF SessionInv
<1>2. f \in BOOLEAN
  BY DEF Final
<1>3. req.n \in Nat /\ req.kind \in AllKinds /\ sess.snap.root \in Nat
  BY DEF SessionInv, TypesInv, SessTypeInv, SessRecords, ReqInv
<1>4. Call = [request |-> req.n, kind |-> req.kind, step |-> s, root |-> sess.snap.root, last |-> f]
  BY DEF Call
<1> HIDE DEF s, f
<1> QED BY <1>1, <1>2, <1>3, <1>4 DEF Calls

LEMMA AuthShapeTyped ==
  ASSUME NEW auth \in AuthShapes
  PROVE  /\ auth \in Seq(Entries)
         /\ \A i \in DOMAIN auth : /\ auth[i].signature = Unsigned /\ auth[i].expiration = 0
                                   /\ auth[i].cred \in {"source", User} /\ auth[i].nonce \in Nat
         /\ auth = <<Entry("source", 1)>> \/ auth = <<Entry("source", 1), Entry(User, 2)>>
<1>1. Unsigned \in [publicKey : Keys, key : Keys, nonce : Nat, expiration : Nat]
  BY DEF Unsigned, Keys
<1> DEFINE a == Entry("source", 1)
           b == Entry(User, 2)
<1>2. a \in Entries /\ b \in Entries
  <2> DEFINE u == Unsigned
  <2>1. u \in [publicKey : Keys, key : Keys, nonce : Nat, expiration : Nat]
    BY <1>1
  <2>2. a = [cred |-> "source", nonce |-> 1, expiration |-> 0, signature |-> u]
        /\ b = [cred |-> User, nonce |-> 2, expiration |-> 0, signature |-> u]
    BY DEF Entry
  <2> HIDE DEF u, a, b
  <2> QED BY <2>1, <2>2 DEF Entries
<1>3. /\ a.signature = Unsigned /\ a.expiration = 0 /\ a.cred \in {"source", User} /\ a.nonce \in Nat
      /\ b.signature = Unsigned /\ b.expiration = 0 /\ b.cred \in {"source", User} /\ b.nonce \in Nat
  BY DEF Entry
<1>4. auth = <<a>> \/ auth = <<a, b>>
  BY DEF AuthShapes
<1> HIDE DEF a, b
<1>5. CASE auth = <<a>>
  BY <1>2, <1>3, <1>5 DEF a
<1>6. CASE auth = <<a, b>>
  <2>1. auth \in Seq(Entries) /\ DOMAIN auth = {1, 2} /\ auth[1] = a /\ auth[2] = b
    BY <1>2, <1>6
  <2> QED BY <1>3, <1>6, <2>1 DEF a, b
<1> QED BY <1>4, <1>5, <1>6

\* The envelope from_simulation prepares.
LEMMA PreparedEnvelope ==
  ASSUME NEW n, NEW c, NEW e, NEW l, NEW a
  PROVE  FromSimulation(BuildInvokeContractTx(n, c),
                        [error |-> e, minResourceFee |-> BaseFee, latest |-> l, auth |-> a])
           = [tx |-> [sequence |-> n, fee |-> BaseFee + BaseFee, call |-> c, auth |-> a,
                      signers |-> <<>>],
              entries |-> a, latest |-> l]
<1> DEFINE raw == BuildInvokeContractTx(n, c)
           sim == [error |-> e, minResourceFee |-> BaseFee, latest |-> l, auth |-> a]
<1>1. raw = [sequence |-> n, fee |-> BaseFee, call |-> c, auth |-> <<>>, signers |-> <<>>]
  BY DEF BuildInvokeContractTx
<1>2. sim.minResourceFee = BaseFee /\ sim.latest = l /\ sim.auth = a
  OBVIOUS
<1> HIDE DEF raw, sim
<1>3. AssembleSorobanTransaction(raw, sim) = [raw EXCEPT !.fee = raw.fee + BaseFee, !.auth = a]
  BY <1>1, <1>2 DEF AssembleSorobanTransaction
<1>4. raw.fee + BaseFee = BaseFee + BaseFee
  BY <1>1
<1>5. AssembleSorobanTransaction(raw, sim) =
        [sequence |-> n, fee |-> BaseFee + BaseFee, call |-> c, auth |-> a, signers |-> <<>>]
  BY <1>1, <1>3, <1>4
<1>6. FromSimulation(raw, sim) = [tx |-> AssembleSorobanTransaction(raw, sim), entries |-> a, latest |-> l]
  BY <1>2 DEF FromSimulation
<1> QED BY <1>5, <1>6 DEF raw, sim

LEMMA SimulateInv ==
  ASSUME SessionInv, Simulate
  PROVE  SessionInv'
<1>1. sess \in SessRecords /\ sess.pc = "simulate" /\ sess.signatures = <<>> /\ ~Idle
      /\ UNCHANGED <<chainVars, txs, indexed, noted>>
  BY DEF SessionInv, TypesInv, SessTypeInv, Simulate, Idle
<1>2. CASE End("failed")
  BY <1>1, <1>2, FailInv
<1>3. CASE ~End("failed")
  <2> DEFINE raw == BuildInvokeContractTx(sess.number, Call)
             sim(auth) == [error |-> ~Executes(Call), minResourceFee |-> BaseFee,
                           latest |-> tip, auth |-> auth]
             out(auth) == FromSimulation(raw, sim(auth))
  <2>1. PICK auth \in AuthShapes :
           /\ sess' = [sess EXCEPT !.pc = "sign", !.prepared = <<out(auth)>>]
           /\ UNCHANGED <<req, ended>>
    BY <1>3 DEF Simulate
  <2> DEFINE c == Call
             p == out(auth)
             t == [sequence |-> sess.number, fee |-> BaseFee + BaseFee, call |-> c,
                   auth |-> auth, signers |-> <<>>]
  <2>2. p = [tx |-> t, entries |-> auth, latest |-> tip]
    BY PreparedEnvelope
  <2>3. c \in Calls /\ sess.number \in Nat /\ BaseFee + BaseFee \in Nat /\ tip \in Nat
        /\ auth \in Seq(Entries)
    <3>1. c \in Calls
      BY <1>1, CallTyped DEF Preparing
    <3>2. sess.number \in Nat /\ tip \in Nat
      BY <1>1 DEF SessionInv, TypesInv, SessRecords
    <3>3. BaseFee + BaseFee \in Nat
      BY SigningAssumption
    <3>4. auth \in Seq(Entries)
      BY AuthShapeTyped
    <3> QED BY <3>1, <3>2, <3>3, <3>4
  <2> HIDE DEF p, c, raw, sim, out
  <2>4. t \in Envelopes
    BY <2>3 DEF Envelopes
  <2>5. t.sequence = sess.number /\ t.call = c /\ t.signers = <<>>
    OBVIOUS
  <2> HIDE DEF t
  <2>6. p \in PreparedTxs
    BY <2>2, <2>3, <2>4 DEF PreparedTxs
  <2>7. <<p>> \in Seq(PreparedTxs) /\ Len(<<p>>) = 1 /\ <<p>>[1] = p
    BY <2>6
  <2>8. sess' = [sess EXCEPT !.pc = "sign", !.prepared = <<p>>]
    BY <2>1 DEF p
  <2>9. /\ sess'.pc = "sign" /\ sess'.signatures = <<>> /\ sess' \in SessRecords
        /\ sess'.step = sess.step /\ sess'.merged = sess.merged /\ sess'.snap = sess.snap
        /\ sess'.number = sess.number /\ sess'.rivals = sess.rivals /\ sess'.prepared = <<p>>
    BY <1>1, <2>7, <2>8, PcStrings DEF SessRecords
  <2>10. SessTypeInv' /\ Quiet
    BY <1>1, <2>1, <2>7, <2>9 DEF SessTypeInv, Quiet, Preparing
  <2>11. txs' = txs /\ sequence' = sequence /\ req' = req
    BY <1>1, <2>1 DEF chainVars
  <2>12. ProofInv'
    BY <1>1, <2>9, <2>11 DEF SessionInv, ProofInv, ProvesExistingTree
  <2>13. Prepared' = p
    BY <2>7, <2>9 DEF Prepared
  <2>14. SequenceInv'
    BY <1>1, <2>2, <2>5, <2>9, <2>11, <2>13, PcStrings DEF SessionInv, SequenceInv, Behind, Applied
  <2>15. Step' = Step
    BY <2>10, QuietFrame
  <2>16. Call' = c
    BY <2>9, <2>11, <2>15 DEF Call, c, Final, Steps
  <2>17. SignInv'
    BY <2>2, <2>5, <2>9, <2>11, <2>13, <2>16 DEF SessionInv, SignInv, Signed
  <2> QED BY <2>10, <2>12, <2>14, <2>17, QuietFrame DEF SessionInv
<1> QED BY <1>2, <1>3

\* The node asks for no signature of the user beside the envelope's, or for
\* the one on the second entry.
LEMMA SignStepFacts ==
  ASSUME NEW p, p.entries \in AuthShapes
  PROVE  \/ /\ AuthIndices(p) = {} /\ DOMAIN p.entries = {1}
            /\ p.entries[1].cred = "source"
            /\ Len(AuthSignSteps(p)) = 0 /\ DOMAIN AuthSignSteps(p) = {}
         \/ /\ AuthIndices(p) = {2} /\ DOMAIN p.entries = {1, 2}
            /\ p.entries[1].cred = "source" /\ p.entries[2].cred = User
            /\ Len(AuthSignSteps(p)) = 1 /\ DOMAIN AuthSignSteps(p) = {1}
            /\ AuthSignSteps(p)[1] =
                 [index |-> 2, preimage |-> SorobanAuthPreimage(p.entries[2], AuthExpirationLedger(p))]
<1> DEFINE a == Entry("source", 1)
           b == Entry(User, 2)
           pre(i) == SorobanAuthPreimage(p.entries[i], AuthExpirationLedger(p))
           kth(k) == CHOOSE i \in AuthIndices(p) : Cardinality({j \in AuthIndices(p) : j < i}) = k - 1
<1>1. ~NeedsWalletAuth(a) /\ NeedsWalletAuth(b) /\ a.cred = "source" /\ b.cred = User
  BY SigningAssumption DEF NeedsWalletAuth, Entry
<1>2. AuthSignSteps(p) = [k \in 1..Cardinality(AuthIndices(p)) |->
                             [index |-> kth(k), preimage |-> pre(kth(k))]]
  BY DEF AuthSignSteps
<1>3. p.entries = <<a>> \/ p.entries = <<a, b>>
  BY DEF AuthShapes
<1> HIDE DEF a, b, pre, kth
<1>4. CASE p.entries = <<a>>
  <2>1. DOMAIN p.entries = {1} /\ p.entries[1] = a
    BY <1>4
  <2>2. AuthIndices(p) = {}
    BY <1>1, <2>1 DEF AuthIndices
  <2>3. Cardinality(AuthIndices(p)) = 0
    BY <2>2, FS_EmptySet
  <2>4. AuthSignSteps(p) = [k \in 1..0 |-> [index |-> kth(k), preimage |-> pre(kth(k))]]
    BY <1>2, <2>3
  <2>5. DOMAIN AuthSignSteps(p) = {} /\ Len(AuthSignSteps(p)) = 0
    BY <2>4
  <2> QED BY <1>1, <2>1, <2>2, <2>5
<1>5. CASE p.entries = <<a, b>>
  <2>1. DOMAIN p.entries = {1, 2} /\ p.entries[1] = a /\ p.entries[2] = b
    BY <1>5
  <2>2. AuthIndices(p) = {2}
    BY <1>1, <2>1 DEF AuthIndices
  <2>3. Cardinality({2}) = 1 /\ Cardinality({}) = 0
    BY FS_EmptySet, FS_Singleton
  <2>4. kth(1) = 2
    <3>1. {j \in {2} : j < 2} = {}
      OBVIOUS
    <3>2. Cardinality({j \in {2} : j < 2}) = 1 - 1
      BY <2>3, <3>1
    <3>3. kth(1) \in {2}
      BY <2>2, <3>2 DEF kth
    <3> QED BY <3>3
  <2>5. AuthSignSteps(p) = [k \in 1..1 |-> [index |-> kth(k), preimage |-> pre(kth(k))]]
    BY <1>2, <2>2, <2>3
  <2>6. DOMAIN AuthSignSteps(p) = {1} /\ Len(AuthSignSteps(p)) = 1
        /\ AuthSignSteps(p)[1] = [index |-> 2, preimage |-> pre(2)]
    BY <2>4, <2>5
  <2> QED BY <1>1, <2>1, <2>2, <2>6 DEF pre
<1> QED BY <1>3, <1>4, <1>5

LEMMA ExpirationTyped ==
  ASSUME NEW p, p.latest \in Nat
  PROVE  AuthExpirationLedger(p) \in Nat
BY SigningAssumption DEF AuthExpirationLedger

\* With the signatures that were asked for, every entry of the user is signed
\* for what it is, and the call and its number are what they were.
LEMMA SignedEnvelope ==
  ASSUME NEW p \in PreparedTxs, p.tx.signers = <<>>, NEW S, DOMAIN S = AuthIndices(p),
         \A i \in DOMAIN S :
             S[i] = SignPreimage(SorobanAuthPreimage(p.entries[i], AuthExpirationLedger(p))),
         NEW env, env = SignTransaction(UnsignedTxForSigning(p, S), User)
  PROVE  /\ env \in Envelopes /\ Signed(env)
         /\ env.call = p.tx.call /\ env.sequence = p.tx.sequence
<1> DEFINE l == AuthExpirationLedger(p)
           e == p.entries
           sign(i) == ApplyAddressAuthSignature(e[i], S[i], l)
           auth == [i \in DOMAIN e |-> IF i \in DOMAIN S THEN sign(i) ELSE e[i]]
<1>1. p.entries \in AuthShapes /\ p.latest \in Nat /\ p.tx \in Envelopes /\ l \in Nat
  BY ExpirationTyped DEF PreparedTxs
<1>2. UnsignedTxForSigning(p, S) = [p.tx EXCEPT !.auth = auth]
  BY DEF UnsignedTxForSigning, PatchAuthEntries
<1>3. e \in Seq(Entries) /\ \A i \in DOMAIN e : e[i] \in Entries /\ e[i].nonce \in Nat
  BY <1>1, AuthShapeTyped
<1>4. ASSUME NEW i \in AuthIndices(p)
      PROVE  /\ sign(i) = [cred |-> User, nonce |-> e[i].nonce, expiration |-> l,
                           signature |-> [publicKey |-> User, key |-> User,
                                          nonce |-> e[i].nonce, expiration |-> l]]
             /\ sign(i) \in Entries /\ EntryAuthorised(sign(i), sign(i).expiration)
  <2>1. i \in DOMAIN e /\ e[i].cred = User /\ i \in DOMAIN S
    BY DEF AuthIndices, NeedsWalletAuth
  <2>2. e[i] \in Entries /\ e[i].nonce \in Nat
    BY <1>3, <2>1
  <2>3. S[i] = [key |-> User, nonce |-> e[i].nonce, expiration |-> l]
    <3>1. SorobanAuthPreimage(e[i], l) = [nonce |-> e[i].nonce, expiration |-> l]
      BY DEF SorobanAuthPreimage
    <3>2. S[i] = SignPreimage(SorobanAuthPreimage(e[i], l))
      BY <2>1
    <3> QED BY <3>1, <3>2 DEF SignPreimage
  <2> DEFINE x == e[i]
             y == S[i]
             z == AddressCredentialsSignature(User, y)
  <2>4. z = [publicKey |-> User, key |-> User, nonce |-> x.nonce, expiration |-> l]
    BY <2>3 DEF AddressCredentialsSignature
  <2>5. sign(i) = [x EXCEPT !.expiration = l, !.signature = z]
    BY DEF ApplyAddressAuthSignature
  <2> HIDE DEF x, y, z, l, sign
  <2>6. z \in [publicKey : Keys, key : Keys, nonce : Nat, expiration : Nat]
    BY <1>1, <2>2, <2>4 DEF Keys, x
  <2>7. x \in [cred : {"source", User}, nonce : Nat, expiration : Nat,
               signature : [publicKey : Keys, key : Keys, nonce : Nat, expiration : Nat]]
        /\ x.cred = User
    BY <2>1, <2>2 DEF Entries, x
  <2>8. sign(i) = [cred |-> User, nonce |-> x.nonce, expiration |-> l, signature |-> z]
    BY <2>5, <2>7
  <2>9. sign(i) \in Entries
    BY <1>1, <2>6, <2>7, <2>8 DEF Entries
  <2>10. EntryAuthorised(sign(i), sign(i).expiration)
    <3>1. z.publicKey = User /\ z.key = User /\ z.nonce = x.nonce /\ z.expiration = l
      BY <2>4
    <3> HIDE DEF z
    <3>2. sign(i).cred = User /\ sign(i).nonce = x.nonce /\ sign(i).expiration = l /\ sign(i).signature = z
      BY <2>8
    <3>3. l <= l
      BY <1>1
    <3> QED BY <3>1, <3>2, <3>3 DEF EntryAuthorised
  <2> QED BY <2>4, <2>8, <2>9, <2>10 DEF x
<1>5. \A i \in DOMAIN e : i \notin AuthIndices(p) => e[i].cred = "source"
  BY <1>1, SignStepFacts
<1>6. \A i \in DOMAIN e : (i \in DOMAIN S => auth[i] = sign(i)) /\ (i \notin DOMAIN S => auth[i] = e[i])
  OBVIOUS
<1>7. DOMAIN auth = DOMAIN e
  OBVIOUS
<1> HIDE DEF sign, l
<1>8. auth \in Seq(Entries)
  <2>1. DOMAIN e = 1..Len(e) /\ Len(e) \in Nat
    BY <1>3
  <2>2. \A i \in 1..Len(e) : auth[i] \in Entries
    BY <1>3, <1>4, <1>6, <2>1
  <2>3. auth = [i \in 1..Len(e) |-> auth[i]]
    BY <2>1
  <2> HIDE DEF auth, e
  <2> QED BY <2>1, <2>2, <2>3
<1>9. \A k \in DOMAIN auth : EntryAuthorised(auth[k], auth[k].expiration)
  <2>1. ASSUME NEW k \in DOMAIN e PROVE EntryAuthorised(auth[k], auth[k].expiration)
    <3>1. CASE k \in AuthIndices(p)
      BY <1>4, <1>6, <3>1
    <3>2. CASE k \notin AuthIndices(p)
      <4>1. auth[k] = e[k] /\ e[k].cred = "source"
        BY <1>5, <1>6, <3>2
      <4> QED BY <4>1 DEF EntryAuthorised
    <3> QED BY <3>1, <3>2
  <2> QED BY <1>7, <2>1
<1> HIDE DEF auth
<1> DEFINE t == p.tx
           u == UnsignedTxForSigning(p, S)
<1>10. u = [t EXCEPT !.auth = auth] /\ t \in Envelopes /\ t.signers = <<>>
  BY <1>1, <1>2
<1>11. u \in Envelopes /\ u.signers = <<>> /\ u.auth = auth /\ u.call = t.call /\ u.sequence = t.sequence
  <2> HIDE DEF t, u
  <2> QED BY <1>8, <1>10 DEF Envelopes
<1>12. env = [u EXCEPT !.signers = Append(u.signers, User)]
  BY DEF SignTransaction
<1>13. Append(u.signers, User) = <<User>> /\ <<User>> \in Seq({User})
  BY <1>11
<1> HIDE DEF t, u
<1>14. env = [u EXCEPT !.signers = <<User>>]
  BY <1>12, <1>13
<1>15. env \in Envelopes /\ env.signers = <<User>> /\ env.auth = auth /\ env.call = t.call
       /\ env.sequence = t.sequence
  BY <1>11, <1>13, <1>14 DEF Envelopes
<1>16. VerifyTx(env, User, 1)
  BY <1>15 DEF VerifyTx
<1> QED BY <1>9, <1>15, <1>16 DEF Signed, t

LEMMA PreparedTyped ==
  ASSUME SessionInv, sess.pc \in {"sign", "send"}
  PROVE  /\ sess \in SessRecords /\ Prepared \in PreparedTxs /\ Prepared.entries \in AuthShapes
         /\ Prepared.tx \in Envelopes /\ Prepared.latest \in Nat
         /\ Prepared.tx.call = Call /\ Prepared.tx.sequence = sess.number /\ ~Idle
<1>1. sess \in SessRecords /\ Len(sess.prepared) = 1 /\ sess.prepared \in Seq(PreparedTxs)
  BY DEF SessionInv, TypesInv, SessTypeInv, SessRecords
<1>2. Prepared \in PreparedTxs
  <2> DEFINE q == sess.prepared
  <2>1. q \in Seq(PreparedTxs) /\ Len(q) = 1
    BY <1>1
  <2> HIDE DEF q
  <2>2. q[1] \in PreparedTxs
    BY <2>1
  <2> QED BY <2>2 DEF Prepared, q
<1>3. Prepared.tx.call = Call /\ Prepared.tx.sequence = sess.number /\ ~Idle
  BY DEF SessionInv, SignInv, SequenceInv, Idle
<1> HIDE DEF Prepared
<1>4. Prepared.entries \in AuthShapes /\ Prepared.tx \in Envelopes /\ Prepared.latest \in Nat
  BY <1>2 DEF PreparedTxs
<1> QED BY <1>1, <1>2, <1>3, <1>4

LEMMA SignAuthEntryInv ==
  ASSUME SessionInv, SignAuthEntry
  PROVE  SessionInv'
<1> DEFINE p == Prepared
           l == AuthExpirationLedger(p)
           steps == AuthSignSteps(p)
           sig == SignPreimage(SorobanAuthPreimage(p.entries[2], l))
           old == sess.signatures
<1>1. sess.pc = "sign" /\ UNCHANGED <<chainVars, txs, indexed, noted, req, ended>> /\ Turn <= Len(steps)
      /\ sess' = [sess EXCEPT !.signatures =
                     [i \in DOMAIN old \cup {steps[Turn].index} |->
                         IF i = steps[Turn].index THEN SignPreimage(steps[Turn].preimage) ELSE old[i]]]
  BY DEF SignAuthEntry
<1>2. sess \in SessRecords /\ p.entries \in AuthShapes /\ p.latest \in Nat /\ ~Idle
  BY <1>1, PreparedTyped
<1>3. old \in {<<>>} \cup [{2} -> Signature]
  BY <1>2 DEF SessRecords
<1>4. Turn = 1 \/ Turn = 2
  <2>1. Cardinality({2}) = 1 /\ Cardinality({}) = 0
    BY FS_EmptySet, FS_Singleton
  <2>2. DOMAIN old = {} \/ DOMAIN old = {2}
    BY <1>3
  <2> QED BY <2>1, <2>2 DEF Turn
<1>5. /\ AuthIndices(p) = {2} /\ DOMAIN p.entries = {1, 2} /\ Len(steps) = 1
      /\ steps[1] = [index |-> 2, preimage |-> SorobanAuthPreimage(p.entries[2], l)]
  BY <1>1, <1>2, <1>4, SignStepFacts
<1>6. Turn = 1 /\ DOMAIN old = {}
  <2>1. Turn = 1
    BY <1>1, <1>4, <1>5
  <2>2. Cardinality({2}) = 1
    BY FS_Singleton
  <2>3. DOMAIN old # {2}
    BY <2>1, <2>2 DEF Turn
  <2> QED BY <1>3, <2>1, <2>3
<1>7. sig \in Signature
  <2>1. l \in Nat
    BY <1>2, ExpirationTyped
  <2>2. p.entries[2].nonce \in Nat
    BY <1>2, <1>5, AuthShapeTyped
  <2> DEFINE n == p.entries[2].nonce
  <2>3. sig = [key |-> User, nonce |-> n, expiration |-> l]
    BY DEF SignPreimage, SorobanAuthPreimage
  <2> HIDE DEF sig, l, n
  <2> QED BY <2>1, <2>2, <2>3 DEF Signature, n
<1>8. steps[Turn].index = 2 /\ SignPreimage(steps[Turn].preimage) = sig
  BY <1>5, <1>6
<1> HIDE DEF sig, l, steps, p
<1> DEFINE new == [i \in {2} |-> sig]
<1>9. sess' = [sess EXCEPT !.signatures = new]
  BY <1>1, <1>6, <1>8
<1>10. new \in [{2} -> Signature] /\ DOMAIN new = {2} /\ new[2] = sig
  BY <1>7
<1> HIDE DEF new, old
<1>11. /\ sess'.pc = "sign" /\ sess'.signatures = new /\ sess' \in SessRecords
       /\ sess'.step = sess.step /\ sess'.merged = sess.merged /\ sess'.snap = sess.snap
       /\ sess'.number = sess.number /\ sess'.rivals = sess.rivals /\ sess'.prepared = sess.prepared
  <2> DEFINE all == {<<>>} \cup [{2} -> Signature]
  <2>1. new \in all
    BY <1>10
  <2>2. sess \in [pc : Pcs, step : Nat, attempt : Nat, snap : [slot : Nat, next : Nat, root : Nat],
                  merged : NoteRecords, number : Nat, rivals : SUBSET Nat,
                  prepared : Seq(PreparedTxs), signatures : all]
    BY <1>2 DEF SessRecords
  <2> HIDE DEF all
  <2>3. sess' \in [pc : Pcs, step : Nat, attempt : Nat, snap : [slot : Nat, next : Nat, root : Nat],
                   merged : NoteRecords, number : Nat, rivals : SUBSET Nat,
                   prepared : Seq(PreparedTxs), signatures : all]
    BY <1>9, <2>1, <2>2
  <2>4. sess' \in SessRecords
    BY <2>3 DEF SessRecords, all
  <2> QED BY <1>1, <1>9, <2>2, <2>4
<1>12. SessTypeInv' /\ Quiet
  BY <1>1, <1>11 DEF SessTypeInv, Quiet, SessionInv, TypesInv
<1>13. txs' = txs /\ sequence' = sequence /\ req' = req
  BY <1>1 DEF chainVars
<1>14. ProofInv'
  BY <1>1, <1>11, <1>13 DEF SessionInv, ProofInv, ProvesExistingTree
<1>15. Prepared' = Prepared
  BY <1>11 DEF Prepared
<1>16. SequenceInv'
  BY <1>1, <1>11, <1>13, <1>15 DEF SessionInv, SequenceInv, Behind, Applied, HasNumber
<1>17. Step' = Step
  BY <1>12, QuietFrame
<1>18. Call' = Call
  BY <1>11, <1>13, <1>17 DEF Call, Final, Steps
<1>19. sess'.signatures[2] = SignPreimage(SorobanAuthPreimage(Prepared.entries[2], AuthExpirationLedger(Prepared)))
       /\ DOMAIN sess'.signatures = {2}
  BY <1>10, <1>11 DEF sig, p, l
<1>20. SignInv'
  BY <1>1, <1>11, <1>13, <1>15, <1>18, <1>19 DEF SessionInv, SignInv, Signed
<1> QED BY <1>12, <1>14, <1>16, <1>20, QuietFrame DEF SessionInv

\* Once the envelope is signed it is what is sent.
LEMMA SubmitInv ==
  ASSUME SessionInv, sess.pc = "sign", NEW env, Submit(env),
         UNCHANGED <<chainVars, txs, indexed, noted, req, ended>>,
         env \in Envelopes, Signed(env), env.call = Prepared.tx.call,
         env.sequence = Prepared.tx.sequence
  PROVE  SessionInv'
<1> DEFINE p == Prepared
           q == [p EXCEPT !.tx = env]
<1>1. sess \in SessRecords /\ p \in PreparedTxs /\ p.tx.call = Call /\ p.tx.sequence = sess.number
      /\ ~Idle
  BY PreparedTyped
<1>2. q \in PreparedTxs /\ q.tx = env
  <2> HIDE DEF p
  <2> QED BY <1>1 DEF PreparedTxs
<1>3. sess' = [sess EXCEPT !.pc = "send", !.signatures = <<>>, !.prepared = <<q>>]
  BY DEF Submit
<1> HIDE DEF p, q
<1>4. <<q>> \in Seq(PreparedTxs) /\ Len(<<q>>) = 1 /\ <<q>>[1] = q
  BY <1>2
<1>5. /\ sess'.pc = "send" /\ sess'.signatures = <<>> /\ sess' \in SessRecords
      /\ sess'.step = sess.step /\ sess'.merged = sess.merged /\ sess'.snap = sess.snap
      /\ sess'.number = sess.number /\ sess'.rivals = sess.rivals /\ sess'.prepared = <<q>>
  BY <1>1, <1>3, <1>4, PcStrings DEF SessRecords
<1>6. SessTypeInv' /\ Quiet
  BY <1>4, <1>5 DEF SessTypeInv, Quiet, Preparing
<1>7. txs' = txs /\ sequence' = sequence /\ req' = req
  BY DEF chainVars
<1>8. ProofInv'
  BY <1>5, <1>7 DEF SessionInv, ProofInv, ProvesExistingTree
<1>9. Prepared' = q
  BY <1>4, <1>5 DEF Prepared
<1>10. SequenceInv'
  BY <1>1, <1>2, <1>5, <1>7, <1>9 DEF SessionInv, SequenceInv, Behind, Applied, HasNumber, p
<1>11. Step' = Step
  BY <1>6, QuietFrame
<1>12. Call' = Call
  BY <1>5, <1>7, <1>11 DEF Call, Final, Steps
<1>13. SignInv'
  BY <1>1, <1>2, <1>5, <1>7, <1>9, <1>12 DEF SessionInv, SignInv, Signed, p
<1> QED BY <1>6, <1>8, <1>10, <1>13, QuietFrame DEF SessionInv

LEMMA SignTxInv ==
  ASSUME SessionInv, SignTx
  PROVE  SessionInv'
<1> DEFINE p == Prepared
           S == sess.signatures
           env == SignTransaction(UnsignedTxForSigning(p, S), User)
<1>1. sess.pc = "sign" /\ UNCHANGED <<chainVars, txs, indexed, noted>>
  BY DEF SignTx
<1>2. p \in PreparedTxs /\ ~Idle
  BY <1>1, PreparedTyped
<1>3. CASE SignaturesFit(p, S)
  <2>1. Submit(env) /\ UNCHANGED <<req, ended>>
    BY <1>3 DEF SignTx
  <2>2. p.tx.signers = <<>>
    BY <1>1 DEF SessionInv, SignInv
  <2>3. DOMAIN S = AuthIndices(p)
    BY <1>3 DEF SignaturesFit
  <2>4. \A i \in DOMAIN S :
          S[i] = SignPreimage(SorobanAuthPreimage(p.entries[i], AuthExpirationLedger(p)))
    BY <1>1 DEF SessionInv, SignInv
  <2> HIDE DEF p, S
  <2>5. env \in Envelopes /\ Signed(env) /\ env.call = p.tx.call /\ env.sequence = p.tx.sequence
    BY <1>2, <2>2, <2>3, <2>4, SignedEnvelope
  <2> HIDE DEF env
  <2> QED BY <1>1, <2>1, <2>5, SubmitInv DEF p
<1>4. CASE ~SignaturesFit(p, S)
  <2>1. End("failed")
    BY <1>4 DEF SignTx
  <2> QED BY <1>1, <1>2, <2>1, FailInv
<1> QED BY <1>3, <1>4

LEMMA SignLocallyInv ==
  ASSUME SessionInv, NEW key, SignLocally(key)
  PROVE  SessionInv'
<1> DEFINE p == Prepared
           steps == AuthSignSteps(p)
           pre(i) == SorobanAuthPreimage(p.entries[i], AuthExpirationLedger(p))
           S == [i \in {steps[k].index : k \in DOMAIN steps} |->
                    SignPreimage((CHOOSE s \in Range(steps) : s.index = i).preimage)]
           env == SignTransaction(UnsignedTxForSigning(p, S), User)
<1>1. sess.pc = "sign" /\ UNCHANGED <<chainVars, txs, indexed, noted>>
  BY DEF SignLocally
<1>2. p \in PreparedTxs /\ p.entries \in AuthShapes /\ ~Idle
  BY <1>1, PreparedTyped
<1>3. CASE key = User
  <2>1. Submit(env) /\ UNCHANGED <<req, ended>>
    BY <1>3 DEF SignLocally, SignPreparedTransaction
  <2>2. p.tx.signers = <<>>
    BY <1>1 DEF SessionInv, SignInv
  <2>3. DOMAIN S = AuthIndices(p) /\ \A i \in DOMAIN S : S[i] = SignPreimage(pre(i))
    <3>1. \/ AuthIndices(p) = {} /\ DOMAIN steps = {}
          \/ /\ AuthIndices(p) = {2} /\ DOMAIN steps = {1}
             /\ steps[1] = [index |-> 2, preimage |-> pre(2)]
      BY <1>2, SignStepFacts
    <3> HIDE DEF p, steps, pre
    <3>2. CASE AuthIndices(p) = {} /\ DOMAIN steps = {}
      <4>1. {steps[k].index : k \in DOMAIN steps} = {}
        BY <3>2
      <4>2. DOMAIN S = {}
        BY <4>1
      <4> QED BY <3>2, <4>2
    <3>3. CASE /\ AuthIndices(p) = {2} /\ DOMAIN steps = {1}
               /\ steps[1] = [index |-> 2, preimage |-> pre(2)]
      <4> DEFINE x == [index |-> 2, preimage |-> pre(2)]
      <4>1. {steps[k].index : k \in DOMAIN steps} = {2}
        BY <3>3
      <4>2. Range(steps) = {x}
        BY <3>3 DEF Range
      <4>3. x.index = 2 /\ x.preimage = pre(2)
        OBVIOUS
      <4> HIDE DEF x
      <4>4. (CHOOSE s \in {x} : s.index = 2) = x
        BY <4>3
      <4>5. DOMAIN S = {2}
        BY <4>1
      <4>6. S[2] = SignPreimage((CHOOSE s \in Range(steps) : s.index = 2).preimage)
        BY <4>1
      <4>7. S[2] = SignPreimage(pre(2))
        BY <4>2, <4>3, <4>4, <4>6
      <4> QED BY <3>3, <4>5, <4>7
    <3> QED BY <3>1, <3>2, <3>3
  <2> HIDE DEF p, S
  <2>4. env \in Envelopes /\ Signed(env) /\ env.call = p.tx.call /\ env.sequence = p.tx.sequence
    BY <1>2, <2>2, <2>3, SignedEnvelope
  <2> HIDE DEF env
  <2> QED BY <1>1, <2>1, <2>4, SubmitInv DEF p
<1>4. CASE key # User
  <2>1. End("failed")
    BY <1>4 DEF SignLocally
  <2> QED BY <1>1, <1>2, <2>1, FailInv
<1> QED BY <1>3, <1>4

-----------------------------------------------------------------------------
(* submit_tx.                                                              *)

\* What is known of the transaction that is sent.
LEMMA SentFacts ==
  ASSUME SessionInv, sess.pc = "send", NEW status \in {"pending", "dropped"}, Sent(status)
  PROVE  LET m == Len(txs)
             x == txs'[m + 1]
         IN  /\ m \in Nat /\ DOMAIN txs = 1..m /\ DOMAIN txs' = 1..(m + 1) /\ Len(txs') = m + 1
             /\ \A i \in 1..m : txs'[i] = txs[i]
             /\ txs' \in Seq(TxRecords)
             /\ x.env.sequence = sess.number /\ x.status = status /\ x.rivals = sess.rivals
             /\ Signed(x.env)
             /\ x.env.call.request = req.n /\ x.env.call.kind = req.kind /\ x.env.call.step = Step
             /\ x.env.call.last = Final(req, sess.step)
             /\ x.env.call.step.out.id = <<req.n, sess.step>>
             /\ x.env.call.step.out.id[2] = sess.step
<1> DEFINE m == Len(txs)
           e == Prepared.tx
           x == [env |-> e, status |-> status, rivals |-> sess.rivals]
<1>1. txs' = Append(txs, x)
  BY DEF Sent
<1>2. e \in Envelopes /\ e.call = Call /\ e.sequence = sess.number /\ ~Idle /\ sess.rivals \in SUBSET Nat
  BY PreparedTyped DEF SessRecords
<1>3. Signed(e)
  BY DEF SessionInv, SignInv
<1>4. x.env = e /\ x.status = status /\ x.rivals = sess.rivals
  OBVIOUS
<1> HIDE DEF e
<1>5. x \in TxRecords
  BY <1>2 DEF TxRecords
<1> HIDE DEF x
<1>6. txs \in Seq(TxRecords)
  BY DEF SessionInv, TypesInv
<1>7. /\ m \in Nat /\ DOMAIN txs = 1..m /\ DOMAIN txs' = 1..(m + 1) /\ Len(txs') = m + 1
      /\ \A i \in 1..m : txs'[i] = txs[i]
      /\ txs' \in Seq(TxRecords) /\ txs'[m + 1] = x
  BY <1>1, <1>5, <1>6
<1>8. Step.out.id = <<req.n, sess.step>>
  BY <1>2, StepFacts, PicksAreReal DEF SessionInv, Preparing
<1>9. Call.request = req.n /\ Call.kind = req.kind /\ Call.step = Step /\ Call.last = Final(req, sess.step)
  BY DEF Call
<1>10. Step.out.id[2] = sess.step
  BY <1>8
<1> QED BY <1>2, <1>3, <1>4, <1>7, <1>8, <1>9, <1>10

\* Sending keeps what the session's next state has no part in.
LEMMA SentFrame ==
  ASSUME SessionInv, sess.pc = "send", NEW status \in {"pending", "dropped"}, Sent(status),
         UNCHANGED <<chainVars, indexed, noted>>, sess'.pc \notin HasNumber,
         Len(ended') \in {Len(ended), Len(ended) + 1},
         \A n \in 1..(Len(ended) + 1) : AskedIn(ended', req', n) = AskedIn(ended, req, n)
  PROVE  SequenceInv' /\ SignInv' /\ SentInv' /\ LogInv' /\ ValueKept'
<1> DEFINE m == Len(txs)
           x == txs'[m + 1]
           C(i) == txs'[i].env.call
           N(i) == txs'[i].env.call.step.out.id[2]
<1>1. /\ m \in Nat /\ DOMAIN txs = 1..m /\ DOMAIN txs' = 1..(m + 1)
      /\ \A i \in 1..m : txs'[i] = txs[i]
  BY SentFacts
<1>2. /\ x.env.sequence = sess.number /\ x.status = status /\ x.rivals = sess.rivals
      /\ Signed(x.env)
      /\ x.env.call.request = req.n /\ x.env.call.step = Step
      /\ x.env.call.last = Final(req, sess.step)
      /\ x.env.call.step.out.id = <<req.n, sess.step>> /\ x.env.call.step.out.id[2] = sess.step
  BY SentFacts
<1>3. log' = log /\ sequence' = sequence /\ others' = others /\ sess'.pc \notin {"simulate", "sign", "send"}
      /\ ~Idle /\ status \notin {"success", "failed"}
  BY PcStrings DEF chainVars, Idle
<1>4. Len(ended) \in Nat /\ req.n = Len(ended) + 1 /\ sess.step \in Nat /\ sess.step \in 1..Steps(req)
      /\ sequence \in Nat /\ sess.number \in Nat
  BY <1>3 DEF SessionInv, TypesInv, ReqInv, SessTypeInv, SessRecords
<1>5. \A i \in 1..(m + 1) : i \in 1..m \/ i = m + 1
  BY <1>1
<1>6. \A i \in 1..m : i \in 1..(m + 1) /\ i < m + 1 /\ i # m + 1
  BY <1>1
<1>7. SequenceInv'
  <2>1. sess.number <= sequence + 1 /\ Behind(sess.rivals, sess.number)
    BY DEF SessionInv, SequenceInv, HasNumber
  <2> DEFINE ap(i) == txs'[i].status \in {"success", "failed"}
             seq(i) == txs'[i].env.sequence
  <2>2. ASSUME NEW R, NEW k, Behind(R, k), NEW r \in R
        PROVE  /\ r < m + 1 /\ r \in 1..(m + 1) /\ seq(r) <= k
               /\ txs'[r].status = "success" => seq(r) >= k
    <3>1. r \in 1..m
      BY <1>1, <2>2 DEF Behind
    <3> QED BY <1>1, <1>6, <2>2, <3>1 DEF Behind
  <2>3. ASSUME NEW i \in 1..m
        PROVE  /\ seq(i) <= sequence + 1 /\ (ap(i) => seq(i) <= sequence)
               /\ Behind(txs'[i].rivals, seq(i))
               /\ \A r \in txs'[i].rivals : r < i
    <3>1. /\ txs[i].env.sequence <= sequence + 1
          /\ Applied(i) => txs[i].env.sequence <= sequence
          /\ Behind(txs[i].rivals, txs[i].env.sequence)
          /\ \A r \in txs[i].rivals : r < i
      BY <1>1 DEF SessionInv, SequenceInv
    <3>2. txs'[i] = txs[i]
      BY <1>1
    <3> QED BY <3>1, <3>2 DEF Applied
  <2>4. /\ seq(m + 1) <= sequence + 1 /\ ~ap(m + 1)
        /\ Behind(txs'[m + 1].rivals, seq(m + 1)) /\ \A r \in txs'[m + 1].rivals : r < m + 1
    <3>1. \A r \in sess.rivals : r < m + 1
      BY <2>1, <2>2
    <3>2. ~ap(m + 1)
      BY <1>2, <1>3
    <3>3. seq(m + 1) = sess.number /\ txs'[m + 1].rivals = sess.rivals
      BY <1>2
    <3> QED BY <2>1, <3>1, <3>2, <3>3
  <2>5. \A i, j \in 1..(m + 1) : ap(i) /\ ap(j) /\ seq(i) = seq(j) => i = j
    <3>1. \A i, j \in 1..m : Applied(i) /\ Applied(j) /\ txs[i].env.sequence = txs[j].env.sequence => i = j
      BY <1>1 DEF SessionInv, SequenceInv
    <3>2. \A i \in 1..m : (ap(i) <=> Applied(i)) /\ seq(i) = txs[i].env.sequence
      BY <1>1 DEF Applied
    <3> HIDE DEF ap, seq
    <3> QED BY <1>5, <2>4, <3>1, <3>2
  <2>6. ASSUME NEW i \in 1..(m + 1)
        PROVE  /\ seq(i) <= sequence + 1 /\ (ap(i) => seq(i) <= sequence)
               /\ \A r \in txs'[i].rivals : /\ r < i /\ r \in 1..(m + 1) /\ seq(r) <= seq(i)
                                            /\ txs'[r].status = "success" => seq(r) >= seq(i)
    <3> DEFINE R == txs'[i].rivals
               k == seq(i)
    <3>1. k <= sequence + 1 /\ (ap(i) => k <= sequence) /\ Behind(R, k) /\ \A r \in R : r < i
      BY <1>5, <2>3, <2>4
    <3> HIDE DEF R, k, seq
    <3>2. \A r \in R : r \in 1..(m + 1) /\ seq(r) <= k /\ (txs'[r].status = "success" => seq(r) >= k)
      BY <2>2, <3>1
    <3> QED BY <3>1, <3>2 DEF R, k
  <2> QED BY <1>1, <1>3, <2>5, <2>6 DEF SequenceInv, HasNumber, Behind, Applied
<1>8. SignInv'
  <2>1. ASSUME NEW i \in 1..(m + 1) PROVE Signed(txs'[i].env)
    BY <1>1, <1>2, <1>5 DEF SessionInv, SignInv
  <2> QED BY <1>1, <1>3, <2>1 DEF SignInv, Signed
<1>9. ASSUME NEW n, NEW t, HasLanded(n, t)
      PROVE  \E j \in 1..(m + 1) : C(j).request = n /\ N(j) = t /\ txs'[j].status = "success"
  <2>1. PICK j \in 1..m : CallOf(j).request = n /\ Num(j) = t /\ Success(j)
    BY <1>1, <1>9 DEF HasLanded
  <2> QED BY <1>1, <1>6, <2>1 DEF CallOf, Num, Success
<1>10. SentInv'
  <2>1. ASSUME NEW i \in 1..(m + 1)
        PROVE  /\ C(i).request \in 1..(Len(ended') + 1) /\ C(i).request \in 1..(Len(ended) + 1)
               /\ N(i) >= 1 /\ C(i).step.out.id = <<C(i).request, N(i)>>
               /\ \A t \in 1..(N(i) - 1) : HasLanded(C(i).request, t)
               /\ C(i).last => C(i).step.ext \in {AskedIn(ended, req, C(i).request),
                                                  0 - AskedIn(ended, req, C(i).request)}
    <3>1. CASE i \in 1..m
      <4>1. /\ CallOf(i).request \in 1..(Len(ended) + 1)
            /\ Num(i) >= 1 /\ CallOf(i).step.out.id = <<CallOf(i).request, Num(i)>>
            /\ \A t \in 1..(Num(i) - 1) : HasLanded(CallOf(i).request, t)
            /\ CallOf(i).last => CallOf(i).step.ext \in {Asked(CallOf(i).request),
                                                         0 - Asked(CallOf(i).request)}
        BY <1>1, <3>1 DEF SessionInv, SentInv
      <4>2. C(i) = CallOf(i) /\ N(i) = Num(i)
        BY <1>1, <3>1 DEF CallOf, Num
      <4>3. CallOf(i).request \in 1..(Len(ended') + 1)
        BY <1>4, <4>1
      <4> HIDE DEF C, N
      <4> QED BY <4>1, <4>2, <4>3 DEF Asked
    <3>2. CASE i = m + 1
      <4>1. C(i).request = req.n /\ N(i) = sess.step /\ C(i).step = Step
            /\ C(i).last = Final(req, sess.step) /\ C(i).step.out.id = <<req.n, sess.step>>
        BY <1>2, <3>2
      <4> HIDE DEF C, N
      <4>2. req.n \in 1..(Len(ended') + 1) /\ req.n \in 1..(Len(ended) + 1) /\ sess.step >= 1
        BY <1>4
      <4>3. \A t \in 1..(sess.step - 1) : HasLanded(req.n, t)
        BY <1>3 DEF SessionInv, RunningInv
      <4>4. AskedIn(ended, req, req.n) = req.amount
        <5>1. req.n \notin DOMAIN ended
          BY <1>4 DEF SessionInv, TypesInv
        <5> QED BY <5>1 DEF AskedIn
      <4>5. Final(req, sess.step) => Step.ext \in {req.amount, 0 - req.amount}
        BY <1>3, StepFacts, PicksAreReal DEF SessionInv, Preparing
      <4> QED BY <4>1, <4>2, <4>3, <4>4, <4>5
    <3> QED BY <1>5, <3>1, <3>2
  <2>2. ASSUME NEW j \in 1..m, C(j).request = req.n
        PROVE  N(j) < sess.step /\ ~C(j).last /\ N(j) \in Nat
    <3>1. /\ Num(j) <= sess.step /\ (Num(j) = sess.step => sess.pc = "confirm")
          /\ CallOf(j).last <=> Num(j) = Steps(req)
      BY <1>1, <1>4, <2>2 DEF SessionInv, RunningInv, CallOf
    <3>2. Num(j) \in Nat
      BY <1>1, TxsTyped DEF SessionInv, Num, Calls, PoolEntries, NoteRecords, NoteIds
    <3>3. Steps(req) \in Int
      <4>1. Len(req.picks) \in Nat
        BY DEF SessionInv, TypesInv
      <4> QED BY <4>1 DEF Steps
    <3>4. C(j) = CallOf(j) /\ N(j) = Num(j)
      BY <1>1 DEF CallOf, Num
    <3> HIDE DEF C, N
    <3>5. Num(j) < sess.step /\ Num(j) # Steps(req)
      BY <1>4, <3>1, <3>2, <3>3
    <3> QED BY <3>1, <3>2, <3>4, <3>5
  <2>3. ASSUME NEW i \in 1..(m + 1), NEW j \in 1..(m + 1), C(i).request = C(j).request
        PROVE  (N(i) = N(j) => i = j) /\ (C(i).last => N(j) <= N(i))
    <3>0. C(m + 1).request = req.n /\ N(m + 1) = sess.step
      BY <1>2
    <3>1. CASE i \in 1..m /\ j \in 1..m
      <4>1. C(i) = CallOf(i) /\ N(i) = Num(i) /\ C(j) = CallOf(j) /\ N(j) = Num(j)
        BY <1>1, <3>1 DEF CallOf, Num
      <4> HIDE DEF C, N
      <4> QED BY <1>1, <2>3, <3>1, <4>1 DEF SessionInv, SentInv
    <3> HIDE DEF C, N
    <3>2. CASE i \in 1..m /\ j = m + 1
      BY <1>4, <2>2, <2>3, <3>0, <3>2
    <3>3. CASE i = m + 1 /\ j \in 1..m
      BY <1>4, <2>2, <2>3, <3>0, <3>3
    <3>4. CASE i = m + 1 /\ j = m + 1
      BY <1>4, <3>0, <3>4
    <3> QED BY <1>5, <3>1, <3>2, <3>3, <3>4
  <2>4. \A i \in 1..(m + 1) : \A t \in 1..(N(i) - 1) :
          \E j \in 1..(m + 1) : C(j).request = C(i).request /\ N(j) = t /\ txs'[j].status = "success"
    <3> HIDE DEF C, N
    <3> QED BY <1>9, <2>1
  <2>5. \A i \in 1..(m + 1) : C(i).last => C(i).step.ext \in {AskedIn(ended', req', C(i).request),
                                                  0 - AskedIn(ended', req', C(i).request)}
    <3> HIDE DEF C, N
    <3> QED BY <2>1
  <2>6. \A i \in 1..(m + 1) : /\ C(i).request \in 1..(Len(ended') + 1)
                              /\ N(i) >= 1 /\ C(i).step.out.id = <<C(i).request, N(i)>>
    <3> HIDE DEF C, N
    <3> QED BY <2>1
  <2>7. \A i, j \in 1..(m + 1) : C(i).request = C(j).request =>
           (N(i) = N(j) => i = j) /\ (C(i).last => N(j) <= N(i))
    <3> HIDE DEF C, N
    <3> QED BY <2>3
  <2>8. \A i \in DOMAIN txs' :
          /\ C(i).request \in 1..(Len(ended') + 1)
          /\ N(i) >= 1 /\ C(i).step.out.id = <<C(i).request, N(i)>>
          /\ \A t \in 1..(N(i) - 1) :
                \E j \in DOMAIN txs' : C(j).request = C(i).request /\ N(j) = t /\ txs'[j].status = "success"
          /\ C(i).last => C(i).step.ext \in {AskedIn(ended', req', C(i).request),
                                             0 - AskedIn(ended', req', C(i).request)}
    <3> HIDE DEF C, N
    <3> QED BY <1>1, <2>4, <2>5, <2>6
  <2>9. \A i, j \in DOMAIN txs' : C(i).request = C(j).request =>
           (N(i) = N(j) => i = j) /\ (C(i).last => N(j) <= N(i))
    <3> HIDE DEF C, N
    <3> QED BY <1>1, <2>7
  <2> QED BY <2>8, <2>9, Zenon DEF SentInv, CallOf, Num, HasLanded, Success, Asked
<1>11. LogInv'
  <2>1. LogNotes' = LogNotes
    BY <1>3 DEF LogNotes
  <2>2. Balanced(Step)
    BY <1>3, StepFacts, PicksAreReal DEF SessionInv, Preparing
  <2>3. \A j \in 1..(m + 1) : /\ Balanced(C(j).step)
                              /\ txs'[j].status = "success" /\ C(j).kind # "register" =>
                                   C(j).step.out \in LogNotes
    BY <1>1, <1>2, <1>3, <1>5, <2>2 DEF SessionInv, LogInv, CallOf, Success
  <2>4. ASSUME NEW i \in DOMAIN log, log[i].out.id[1] > 0
        PROVE  \E j \in 1..(m + 1) : /\ txs'[j].status = "success" /\ C(j).kind # "register"
                                     /\ C(j).step.out.id = log[i].out.id
    <3>1. PICK j \in 1..m : Success(j) /\ CallOf(j).kind # "register" /\ CallOf(j).step.out.id = log[i].out.id
      BY <1>1, <2>4 DEF SessionInv, LogInv
    <3> QED BY <1>1, <1>6, <3>1 DEF Success, CallOf
  <2> QED BY <1>1, <1>3, <2>1, <2>3, <2>4 DEF SessionInv, LogInv, CallOf, Success, Balanced
<1>12. ValueKept'
  BY <1>3 DEF SessionInv, ValueKept, NotesAt, Spent
<1> QED BY <1>7, <1>8, <1>10, <1>11, <1>12

\* A tx that witnesses a finished request stays when another is sent.
LEMMA SentDone ==
  ASSUME SessionInv, sess.pc = "send", NEW status \in {"pending", "dropped"}, Sent(status),
         NEW n \in DOMAIN ended, ended[n].result = "done"
  PROVE  \E i \in DOMAIN txs' : /\ txs'[i].env.call.request = n /\ txs'[i].env.call.last
                                /\ txs'[i].status = "success"
<1> DEFINE m == Len(txs)
<1>1. /\ m \in Nat /\ DOMAIN txs = 1..m /\ DOMAIN txs' = 1..(m + 1)
      /\ \A i \in 1..m : txs'[i] = txs[i]
  BY SentFacts
<1>2. PICK i \in 1..m : CallOf(i).request = n /\ CallOf(i).last /\ Success(i)
  BY <1>1 DEF SessionInv, DoneInv
<1>3. i \in 1..(m + 1)
  BY <1>1
<1> QED BY <1>1, <1>2, <1>3 DEF CallOf, Success

LEMMA SendAcceptedInv ==
  ASSUME SessionInv, NEW status \in {"pending", "dropped"}, SendAccepted(status)
  PROVE  SessionInv'
<1> DEFINE m == Len(txs)
           C(i) == txs'[i].env.call
           N(i) == txs'[i].env.call.step.out.id[2]
<1>1. sess.pc = "send" /\ Sent(status) /\ UNCHANGED <<chainVars, indexed, noted, req, ended>>
      /\ sess' = [Rest EXCEPT !.pc = "confirm", !.step = sess.step, !.merged = sess.merged,
                              !.attempt = 1]
  BY DEF SendAccepted
<1>2. /\ log' = log /\ sequence' = sequence /\ tip' = tip /\ others' = others
      /\ indexed' = indexed /\ noted' = noted /\ req' = req /\ ended' = ended
  BY <1>1 DEF chainVars
<1>3. sess \in SessRecords /\ ~Idle
  BY <1>1, PreparedTyped
<1>4. sess'.pc = "confirm" /\ sess'.step = sess.step /\ sess'.merged = sess.merged
      /\ sess'.signatures = <<>> /\ sess' \in SessRecords
  <2> DEFINE R == Rest
  <2>1. R \in SessRecords /\ R.signatures = <<>> /\ sess' = [R EXCEPT !.pc = "confirm",
             !.step = sess.step, !.merged = sess.merged, !.attempt = 1]
    BY <1>1, RestTyped
  <2> HIDE DEF R
  <2> QED BY <1>3, <2>1, PcStrings DEF SessRecords
<1>5. /\ m \in Nat /\ DOMAIN txs = 1..m /\ DOMAIN txs' = 1..(m + 1) /\ Len(txs') = m + 1
      /\ \A i \in 1..m : txs'[i] = txs[i]
      /\ txs' \in Seq(TxRecords)
  BY <1>1, SentFacts
<1>6. /\ C(m + 1).request = req.n /\ C(m + 1).kind = req.kind /\ C(m + 1).step = Step
      /\ C(m + 1).last = Final(req, sess.step) /\ N(m + 1) = sess.step
  BY <1>1, SentFacts
<1>7. SequenceInv' /\ SignInv' /\ SentInv' /\ LogInv' /\ ValueKept'
  <2>1. Len(ended') \in {Len(ended), Len(ended) + 1} /\ sess'.pc \notin HasNumber
        /\ \A n \in 1..(Len(ended) + 1) : AskedIn(ended', req', n) = AskedIn(ended, req, n)
    BY <1>2, <1>4, PcStrings
  <2>2. UNCHANGED <<chainVars, indexed, noted>>
    BY <1>1
  <2> QED BY <1>1, <2>1, <2>2, SentFrame
<1>8. TypesInv'
  BY <1>2, <1>4, <1>5 DEF SessionInv, TypesInv, SessTypeInv
<1>9. LogNotes' = LogNotes /\ ~Idle'
  BY <1>2, <1>4 DEF LogNotes, Idle
<1>10. ReqInv'
  <2>1. PicksReal
    BY <1>1, <1>3, PicksAreReal DEF SessionInv, Preparing
  <2>2. PicksReal'
    BY <2>1, <1>2, <1>9 DEF PicksReal
  <2> QED BY <1>2, <1>3, <1>4, <1>9, <2>2 DEF SessionInv, ReqInv, Excess, Steps, First
<1>11. ProofInv'
  BY <1>4 DEF ProofInv, ProvesExistingTree
<1>12. Step' = Step
  BY <1>2, <1>4 DEF Step, StepOf, InputsOf, Final, Steps, Excess
<1>13. RunningInv'
  <2>1. req.n = Len(ended) + 1 /\ sess.step \in Nat
    BY <1>3 DEF SessionInv, ReqInv, SessRecords
  <2>2. ASSUME NEW i \in 1..(m + 1), C(i).request = Len(ended) + 1
        PROVE  /\ N(i) <= sess.step /\ (N(i) = sess.step => i = m + 1)
               /\ C(i).last <=> N(i) = Steps(req)
    <3>1. CASE i \in 1..m
      <4>1. C(i) = CallOf(i) /\ N(i) = Num(i)
        BY <1>5, <3>1 DEF CallOf, Num
      <4>2. /\ Num(i) <= sess.step /\ (Num(i) = sess.step => sess.pc = "confirm")
            /\ CallOf(i).last <=> Num(i) = Steps(req)
        BY <1>5, <2>2, <3>1, <4>1 DEF SessionInv, RunningInv
      <4> HIDE DEF C, N
      <4> QED BY <1>1, <4>1, <4>2
    <3>2. CASE i = m + 1
      <4>1. N(i) = sess.step
        BY <1>6, <3>2
      <4>2. C(i).last <=> sess.step = Steps(req)
        BY <1>6, <3>2, Zenon DEF Final
      <4> HIDE DEF C, N
      <4> QED BY <2>1, <3>2, <4>1, <4>2
    <3> QED BY <1>5, <3>1, <3>2
  <2>3. ASSUME NEW t \in 1..(sess.step - 1)
        PROVE  \E j \in DOMAIN txs' : C(j).request = req.n /\ N(j) = t /\ txs'[j].status = "success"
    <3>1. PICK j \in 1..m : CallOf(j).request = req.n /\ Num(j) = t /\ Success(j)
      BY <1>3, <1>5 DEF SessionInv, RunningInv, HasLanded
    <3>2. j \in 1..(m + 1)
      BY <1>5
    <3> QED BY <1>5, <3>1, <3>2 DEF CallOf, Num, Success
  <2>4. txs' # <<>>
    BY <1>5
  <2>5. \A i \in DOMAIN txs' : C(i).request = Len(ended') + 1 =>
           /\ ~Idle' /\ N(i) <= sess'.step /\ (N(i) = sess'.step => sess'.pc = "confirm" /\ i = Len(txs'))
           /\ C(i).last <=> N(i) = Steps(req')
    <3> HIDE DEF C, N
    <3> QED BY <1>2, <1>4, <1>5, <1>9, <2>2
  <2>6. \A t \in 1..(sess'.step - 1) : \E j \in DOMAIN txs' :
           C(j).request = req'.n /\ N(j) = t /\ txs'[j].status = "success"
    <3> HIDE DEF C, N
    <3> QED BY <1>2, <1>4, <2>3
  <2>7. /\ C(Len(txs')).request = req'.n /\ C(Len(txs')).kind = req'.kind
        /\ C(Len(txs')).step = Step' /\ C(Len(txs')).last = Final(req', sess'.step)
    <3> HIDE DEF C, N
    <3> QED BY <1>2, <1>4, <1>5, <1>6, <1>12
  <2> QED BY <2>4, <2>5, <2>6, <2>7, Zenon DEF RunningInv, CallOf, Num, HasLanded, Success
<1>14. DoneInv'
  <2>1. \A n \in DOMAIN ended' : ended'[n].result = "done" =>
           \E i \in DOMAIN txs' : C(i).request = n /\ C(i).last /\ txs'[i].status = "success"
    BY <1>1, <1>2, SentDone
  <2> QED BY <2>1, Zenon DEF DoneInv, CallOf, Success
<1> QED BY <1>7, <1>8, <1>10, <1>11, <1>13, <1>14 DEF SessionInv

LEMMA SendUnansweredInv ==
  ASSUME SessionInv, SendUnanswered
  PROVE  SessionInv'
<1> DEFINE m == Len(txs)
           C(i) == txs'[i].env.call
<1>1. sess.pc = "send" /\ Sent("pending") /\ End("failed") /\ UNCHANGED <<chainVars, indexed, noted>>
  BY DEF SendUnanswered
<1>2. /\ log' = log /\ sequence' = sequence /\ tip' = tip /\ others' = others /\ indexed' = indexed /\ noted' = noted
  BY <1>1 DEF chainVars
<1>3. sess \in SessRecords /\ ~Idle
  BY <1>1, PreparedTyped
<1>4. /\ Len(ended') = Len(ended) + 1 /\ Len(ended) \in Nat
      /\ DOMAIN ended = 1..Len(ended) /\ DOMAIN ended' = 1..(Len(ended) + 1)
      /\ ended' \in Seq([kind : AllKinds, amount : Nat, result : {"done", "failed", "none"}])
      /\ \A n \in DOMAIN ended : ended'[n] = ended[n]
      /\ ended'[Len(ended) + 1].result = "failed"
      /\ \A n \in 1..(Len(ended) + 1) : AskedIn(ended', req', n) = AskedIn(ended, req, n)
      /\ sess' = Rest /\ req' = NoRequest
  BY <1>1, <1>3, EndFacts DEF SessionInv
<1>5. sess'.pc = "idle" /\ sess' \in SessRecords /\ sess'.signatures = <<>>
  BY <1>4, RestTyped
<1>6. /\ m \in Nat /\ DOMAIN txs = 1..m /\ DOMAIN txs' = 1..(m + 1)
      /\ \A i \in 1..m : txs'[i] = txs[i]
      /\ txs' \in Seq(TxRecords) /\ C(m + 1).request = req.n
  BY <1>1, SentFacts
<1>7. SequenceInv' /\ SignInv' /\ SentInv' /\ LogInv' /\ ValueKept'
  <2>1. Len(ended') \in {Len(ended), Len(ended) + 1} /\ sess'.pc \notin HasNumber
        /\ \A n \in 1..(Len(ended) + 1) : AskedIn(ended', req', n) = AskedIn(ended, req, n)
    BY <1>4, <1>5, PcStrings
  <2> QED BY <1>1, <2>1, SentFrame
<1>8. TypesInv'
  BY <1>2, <1>4, <1>5, <1>6, RestTyped DEF SessionInv, TypesInv, SessTypeInv
<1>9. ReqInv' /\ ProofInv'
  BY <1>4, <1>5 DEF ReqInv, Idle, ProofInv, ProvesExistingTree
<1>10. RunningInv'
  <2>1. ASSUME NEW i \in 1..(m + 1) PROVE C(i).request # Len(ended') + 1
    <3>1. CASE i \in 1..m
      <4>1. CallOf(i).request \in 1..(Len(ended) + 1) /\ C(i) = CallOf(i)
        BY <1>6, <3>1 DEF SessionInv, SentInv, CallOf
      <4> HIDE DEF C
      <4> QED BY <1>4, <4>1
    <3>2. CASE i = m + 1
      <4>1. req.n = Len(ended) + 1
        BY <1>3 DEF SessionInv, ReqInv
      <4> QED BY <1>4, <1>6, <3>2, <4>1
    <3> QED BY <1>6, <3>1, <3>2
  <2> QED BY <1>5, <1>6, <2>1 DEF RunningInv, Idle, CallOf
<1>11. DoneInv'
  <2>1. ASSUME NEW n \in DOMAIN ended', ended'[n].result = "done"
        PROVE  \E i \in DOMAIN txs' : C(i).request = n /\ C(i).last /\ txs'[i].status = "success"
    <3>1. n \in DOMAIN ended /\ ended[n].result = "done"
      <4>1. n = Len(ended) + 1 \/ n \in DOMAIN ended
        BY <1>4
      <4> QED BY <1>4, <2>1, <4>1
    <3> QED BY <1>1, <3>1, SentDone
  <2> QED BY <2>1, Zenon DEF DoneInv, CallOf, Success
<1> QED BY <1>7, <1>8, <1>9, <1>10, <1>11 DEF SessionInv

LEMMA ConfirmPollInv ==
  ASSUME SessionInv, ConfirmPoll
  PROVE  SessionInv'
<1> DEFINE m == Len(txs)
           status == ConfirmTx(txs[m].status)
<1>1. sess.pc = "confirm" /\ UNCHANGED <<chainVars, txs, indexed, noted>> /\ ~Idle
      /\ sess \in SessRecords /\ sess.signatures = <<>>
  BY DEF ConfirmPoll, Idle, SessionInv, TypesInv, SessTypeInv
<1>2. /\ m \in Nat /\ m \in DOMAIN txs /\ DOMAIN txs = 1..m
      /\ CallOf(m).request = req.n /\ CallOf(m).kind = req.kind
      /\ CallOf(m).step = Step /\ CallOf(m).last = Final(req, sess.step)
  <2>1. txs # <<>> /\ txs \in Seq(TxRecords)
    BY <1>1 DEF SessionInv, RunningInv, TypesInv
  <2>2. m \in Nat /\ m \in DOMAIN txs /\ DOMAIN txs = 1..m
    BY <2>1
  <2> QED BY <1>1, <2>2 DEF SessionInv, RunningInv
<1>3. status = "success" => Success(m)
  BY DEF ConfirmTx, Success
<1>4. CASE End("failed")
  BY <1>1, <1>4, FailInv
<1>5. CASE status = "success" /\ Final(req, sess.step)
  <2>1. End("done")
    BY <1>5 DEF ConfirmPoll, CompleteStep
  <2> QED BY <1>1, <1>2, <1>3, <1>5, <2>1, EndInv
<1>6. CASE status = "pending" /\ PollsLeft(sess.attempt) /\ ~End("failed")
  <2> DEFINE n == 1 + (sess.attempt % ConfirmPolls)
  <2>1. sess' = [sess EXCEPT !.attempt = n] /\ UNCHANGED <<req, ended>>
    BY <1>6 DEF ConfirmPoll
  <2>2. n \in Nat
    <3>1. sess.attempt \in Nat /\ ConfirmPolls \in Nat \ {0}
      BY <1>1, SessionAssumption DEF SessRecords
    <3> QED BY <3>1
  <2> HIDE DEF n
  <2>3. sess'.pc = "confirm" /\ sess'.signatures = <<>> /\ sess' \in SessRecords
        /\ sess'.step = sess.step /\ sess'.merged = sess.merged
    BY <1>1, <2>1, <2>2 DEF SessRecords
  <2>4. SessTypeInv' /\ Quiet
    BY <1>1, <2>1, <2>3 DEF SessTypeInv, Quiet, Preparing
  <2>5. sess'.pc \notin HasNumber /\ ProofInv'
    BY <2>3, PcStrings DEF ProofInv, ProvesExistingTree
  <2> QED BY <2>4, <2>5, QuietUnnumbered
<1>7. CASE status = "success" /\ ~Final(req, sess.step)
  <2> DEFINE o == Step.out
             s == sess.step
             n == s + 1
             R == Rest
  <2>1. sess' = [R EXCEPT !.pc = "bulk", !.step = n, !.attempt = 1, !.merged = o]
        /\ UNCHANGED <<req, ended>>
    BY <1>7 DEF ConfirmPoll, CompleteStep
  <2>2. /\ Step \in PoolEntries /\ o.id = <<req.n, s>> /\ o.owner = User
        /\ req.kind \in Spends /\ o.amount = Total(First(req, s + 1))
    BY <1>1, <1>7, StepFacts, PicksAreReal DEF SessionInv, Preparing
  <2>3. o \in NoteRecords
    <3> DEFINE e == Step
    <3>1. e \in PoolEntries
      BY <2>2
    <3> HIDE DEF e
    <3>2. e.out \in NoteRecords
      BY <3>1 DEF PoolEntries
    <3> QED BY <3>2 DEF e
  <2>4. o \in LogNotes
    <3>1. CallOf(m).kind # "register"
      BY <1>2, <2>2 DEF Spends
    <3> QED BY <1>2, <1>3, <1>7, <3>1 DEF SessionInv, LogInv
  <2>5. s \in Nat /\ s \in 1..Steps(req) /\ Steps(req) \in Nat /\ s # Steps(req)
        /\ req.n = Len(ended) + 1 /\ Len(ended) \in Nat
    <3>1. Len(req.picks) \in Nat
      BY DEF SessionInv, TypesInv
    <3>2. Steps(req) \in Nat
      BY <3>1 DEF Steps
    <3> QED BY <1>1, <1>7, <3>2 DEF SessionInv, TypesInv, ReqInv, SessRecords, Final
  <2>6. n \in Nat /\ n \in 1..Steps(req) /\ n > 1 /\ n - 1 = s
    BY <2>5
  <2>7. R \in SessRecords /\ R.signatures = <<>>
    BY RestTyped
  <2> HIDE DEF o, n, R
  <2>8. sess'.pc = "bulk" /\ sess'.step = n /\ sess'.merged = o
        /\ sess'.signatures = <<>> /\ sess' \in SessRecords
    BY <2>1, <2>3, <2>6, <2>7, PcStrings DEF SessRecords
  <2>9. /\ log' = log /\ sequence' = sequence /\ tip' = tip /\ others' = others /\ txs' = txs
        /\ indexed' = indexed /\ noted' = noted /\ req' = req /\ ended' = ended
    BY <1>1, <2>1 DEF chainVars
  <2>10. LogNotes' = LogNotes /\ ~Idle' /\ sess'.pc \notin HasNumber
    BY <2>8, <2>9, PcStrings DEF LogNotes, Idle
  <2>11. TypesInv'
    BY <2>8, <2>9 DEF SessionInv, TypesInv, SessTypeInv
  <2>12. SequenceInv' /\ SignInv'
    BY <2>9, <2>10, UnnumberedFrame
  <2>13. ProofInv'
    BY <2>8 DEF ProofInv, ProvesExistingTree
  <2>14. ReqInv'
    <3>1. /\ sess'.step \in 1..Steps(req') /\ sess'.merged \in LogNotes' /\ sess'.merged.owner = User
          /\ sess'.merged.id = <<req'.n, sess'.step - 1>>
          /\ sess'.merged.amount = Total(First(req', sess'.step))
      BY <2>2, <2>4, <2>6, <2>8, <2>9, <2>10 DEF n, o
    <3>2. PicksReal
      BY <1>1, <1>7, PicksAreReal DEF SessionInv, Preparing
    <3>3. PicksReal'
      BY <3>2, <2>9, <2>10 DEF PicksReal
    <3> HIDE DEF s
    <3> QED BY <1>1, <2>9, <2>10, <3>1, <3>3 DEF SessionInv, ReqInv, Excess, Steps, First
  <2>15. SentInv'
    BY <2>9 DEF SessionInv, SentInv, CallOf, Num, HasLanded, Success, Asked, AskedIn
  <2>16. RunningInv'
    <3>1. ASSUME NEW t \in 1..(n - 1) PROVE HasLanded(req.n, t)
      <4>1. CASE t = s
        <5>1. Num(m) = s
          BY <1>2, <2>2 DEF Num, o
        <5> QED BY <1>2, <1>3, <1>7, <4>1, <5>1 DEF HasLanded
      <4>2. CASE t # s
        <5>1. t \in 1..(s - 1)
          BY <2>5, <2>6, <4>2
        <5> QED BY <1>1, <5>1 DEF SessionInv, RunningInv
      <4> QED BY <4>1, <4>2
    <3>2. ASSUME NEW i \in DOMAIN txs, CallOf(i).request = Len(ended) + 1
          PROVE  Num(i) < n /\ (CallOf(i).last <=> Num(i) = Steps(req))
      <4>1. Num(i) <= s /\ (CallOf(i).last <=> Num(i) = Steps(req))
        BY <3>2 DEF SessionInv, RunningInv
      <4>2. Num(i) \in Nat
        BY TxsTyped DEF SessionInv, Num, Calls, PoolEntries, NoteRecords, NoteIds
      <4>3. n = s + 1
        BY DEF n
      <4> QED BY <2>5, <4>1, <4>2, <4>3
    <3>3. \A i \in DOMAIN txs : Num(i) \in Nat
      BY TxsTyped DEF SessionInv, Num, Calls, PoolEntries, NoteRecords, NoteIds
    <3>4. \A i \in DOMAIN txs : CallOf(i).request = Len(ended) + 1 =>
             Num(i) <= n /\ Num(i) # n /\ (CallOf(i).last <=> Num(i) = Steps(req))
      BY <2>6, <3>2, <3>3
    <3> QED BY <2>8, <2>9, <2>10, <3>1, <3>4 DEF RunningInv, CallOf, Num, HasLanded, Success, Steps
  <2>17. DoneInv'
    BY <2>9 DEF SessionInv, DoneInv, CallOf, Success
  <2>18. LogInv' /\ ValueKept'
    <3>1. LogInv'
      BY <2>9, <2>10 DEF SessionInv, LogInv, CallOf, Success, Balanced
    <3>2. ValueKept'
      BY <2>9 DEF SessionInv, ValueKept, NotesAt, Spent
    <3> QED BY <3>1, <3>2
  <2> QED BY <2>11, <2>12, <2>13, <2>14, <2>15, <2>16, <2>17, <2>18 DEF SessionInv
<1>8. End("failed") \/ status = "success" \/ (status = "pending" /\ PollsLeft(sess.attempt))
  BY DEF ConfirmPoll
<1> QED BY <1>4, <1>5, <1>6, <1>7, <1>8

-----------------------------------------------------------------------------
(* A request begins.                                                       *)

LEMMA BeginInv ==
  ASSUME SessionInv, NEW kind \in AllKinds, NEW amount \in Nat, NEW picks \in Seq(NoteRecords),
         Begin(kind, amount, picks),
         kind \in {"deposit", "register"} => picks = <<>>,
         kind \in Spends => Len(picks) >= 1 /\ Total(Range(picks)) - amount >= 0,
         kind = "transact" => Len(picks) <= 2,
         kind = "register" => amount = 0,
         \A i, j \in DOMAIN picks : picks[i] = picks[j] => i = j,
         \A i \in DOMAIN picks : picks[i] \in LogNotes \/ picks[i].id[1] = 0 - 3,
         kind # "transact" => \A i \in DOMAIN picks :
             picks[i] \in LogNotes /\ picks[i].owner = User /\ picks[i].amount > 0
  PROVE  SessionInv'
<1> DEFINE pc == IF kind = "register" THEN "sequence" ELSE "bulk"
           R == Rest
           n == Len(ended) + 1
<1>1. /\ Idle /\ UNCHANGED <<chainVars, txs, indexed, noted, ended>>
      /\ req' = [n |-> n, kind |-> kind, amount |-> amount, picks |-> picks]
      /\ sess' = [R EXCEPT !.pc = pc, !.step = 1, !.attempt = 1]
  BY DEF Begin
<1>2. /\ log' = log /\ sequence' = sequence /\ tip' = tip /\ others' = others /\ txs' = txs
      /\ indexed' = indexed /\ noted' = noted /\ ended' = ended
  BY <1>1 DEF chainVars
<1>3. pc \in {"sequence", "bulk"} /\ (pc = "sequence" => kind = "register")
  OBVIOUS
<1>4. R \in SessRecords /\ R.signatures = <<>>
  BY RestTyped
<1>5. Len(ended) \in Nat /\ DOMAIN ended = 1..Len(ended) /\ n \in Nat
  BY DEF SessionInv, TypesInv
<1> HIDE DEF pc, R
<1>6. sess'.pc = pc /\ sess'.step = 1 /\ sess'.signatures = <<>> /\ sess' \in SessRecords
  BY <1>1, <1>3, <1>4, PcStrings DEF SessRecords
<1>7. /\ req'.n = n /\ req'.kind = kind /\ req'.amount = amount /\ req'.picks = picks
      /\ req' \in [n : Nat, kind : AllKinds \cup {"none"}, amount : Nat, picks : Seq(NoteRecords)]
  BY <1>1, <1>5
<1>8. LogNotes' = LogNotes /\ ~Idle' /\ sess'.pc \notin HasNumber
  BY <1>2, <1>3, <1>6, PcStrings DEF LogNotes, Idle
<1>9. TypesInv'
  <2>1. SessTypeInv'
    BY <1>3, <1>6 DEF SessTypeInv
  <2> QED BY <1>2, <1>7, <2>1 DEF SessionInv, TypesInv
<1>10. SequenceInv' /\ SignInv'
  BY <1>2, <1>8, UnnumberedFrame
<1>11. ProofInv'
  BY <1>3, <1>6, <1>7 DEF ProofInv, ProvesExistingTree
<1>12. ASSUME NEW i \in DOMAIN txs
       PROVE  CallOf(i).request \in DOMAIN ended /\ CallOf(i).step.out.id[1] <= Len(ended)
              /\ CallOf(i).request # Len(ended) + 1
  <2>1. CallOf(i).request \in 1..(Len(ended) + 1) /\ CallOf(i).request # Len(ended) + 1
    BY <1>1 DEF SessionInv, SentInv, RunningInv
  <2>2. CallOf(i).step.out.id = <<CallOf(i).request, Num(i)>>
    BY DEF SessionInv, SentInv
  <2> QED BY <1>5, <2>1, <2>2
<1>13. ReqInv'
  <2>1. ASSUME NEW i \in DOMAIN picks PROVE picks[i].id[1] < n
    <3>2. picks[i].id[1] \in Int
      <4>1. picks[i] \in NoteRecords
        OBVIOUS
      <4> QED BY <4>1 DEF NoteRecords, NoteIds
    <3>3. CASE picks[i].id[1] > 0
      <4>0. PICK k \in DOMAIN log : picks[i] = log[k].out
        BY <3>3 DEF LogNotes
      <4>1. PICK j \in DOMAIN txs : CallOf(j).step.out.id = picks[i].id
        BY <3>3, <4>0 DEF SessionInv, LogInv
      <4>2. picks[i].id[1] <= Len(ended)
        BY <1>12, <4>1
      <4> QED BY <1>5, <3>2, <4>2
    <3>4. CASE ~(picks[i].id[1] > 0)
      BY <1>5, <3>2, <3>4
    <3> QED BY <3>3, <3>4
  <2>2. sess'.step \in 1..Steps(req') /\ ~(sess'.step > 1)
    <3>1. Len(picks) \in Nat
      OBVIOUS
    <3>2. 1 \in 1..Steps(req')
      BY <1>7, <3>1 DEF Steps
    <3> QED BY <1>6, <3>2
  <2>3. req'.kind \in Spends => Excess(req') >= 0
    BY <1>7 DEF Excess
  <2>4. req'.n = Len(ended') + 1
    BY <1>2, <1>7
  <2> HIDE DEF n
  <2>5. /\ req'.kind \in {"deposit", "register"} => req'.picks = <<>>
        /\ req'.kind \in Spends => Len(req'.picks) >= 1
        /\ req'.kind = "transact" => Len(req'.picks) <= 2
        /\ req'.kind = "register" => req'.amount = 0
        /\ req'.kind \in AllKinds
        /\ \A i, j \in DOMAIN req'.picks : req'.picks[i] = req'.picks[j] => i = j
        /\ \A i \in DOMAIN req'.picks :
             LET note == req'.picks[i]
             IN  note.id[1] < req'.n /\ (note \in LogNotes' \/ note.id[1] = 0 - 3)
    BY <1>7, <1>8, <2>1
  <2>6. (req'.kind = "transact" /\ sess'.pc \in Preparing) \/ PicksReal'
    <3>1. kind = "transact" => sess'.pc \in Preparing
      BY <1>3, <1>6 DEF Preparing
    <3>2. kind # "transact" => PicksReal'
      BY <1>7, <1>8 DEF PicksReal
    <3> QED BY <1>7, <3>1, <3>2
  <2> QED BY <1>8, <2>2, <2>3, <2>4, <2>5, <2>6 DEF ReqInv
<1>14. SentInv'
  <2>1. ASSUME NEW i \in DOMAIN txs
        PROVE  AskedIn(ended', req', CallOf(i).request) = AskedIn(ended, req, CallOf(i).request)
    BY <1>2, <1>12 DEF AskedIn
  <2> QED BY <1>2, <2>1 DEF SessionInv, SentInv, CallOf, Num, HasLanded, Success, Asked
<1>15. RunningInv'
  <2>1. \A i \in DOMAIN txs : CallOf(i).request # Len(ended) + 1
    BY <1>12
  <2>2. \A t \in 1..(sess'.step - 1) : FALSE
    BY <1>6
  <2>3. sess'.pc # "confirm"
    BY <1>3, <1>6
  <2> QED BY <1>2, <2>1, <2>2, <2>3 DEF RunningInv, CallOf
<1>16. DoneInv'
  BY <1>2 DEF SessionInv, DoneInv, CallOf, Success
<1>17. LogInv'
  BY <1>2, <1>8 DEF SessionInv, LogInv, CallOf, Success, Balanced
<1>18. ValueKept'
  BY <1>2 DEF SessionInv, ValueKept, NotesAt, Spent
<1> QED BY <1>9, <1>10, <1>11, <1>13, <1>14, <1>15, <1>16, <1>17, <1>18 DEF SessionInv

\* A plan that lists a set of notes.
LEMMA BeginWithInv ==
  ASSUME SessionInv, NEW kind \in Spends, NEW amount \in Nat \ {0}, NEW S,
         IsFiniteSet(S), S \subseteq NoteRecords, kind = "transact" => Cardinality(S) <= 2,
         Begin(kind, amount, SetToSeq(S)), Total(S) >= amount,
         \A note \in S : note \in LogNotes \/ note.id[1] = 0 - 3,
         kind # "transact" => \A note \in S : note \in LogNotes /\ note.owner = User /\ note.amount > 0
  PROVE  SessionInv'
<1> DEFINE p == SetToSeq(S)
<1>1. \A x \in S : x.amount \in Nat
  BY DEF NoteRecords
<1>2. IsFiniteSet(S) /\ S \in SUBSET S
  OBVIOUS
<1>3. /\ p \in Seq(S) /\ Len(p) = Cardinality(S)
      /\ \A i, j \in DOMAIN p : p[i] = p[j] => i = j
      /\ Range(p) = S
  BY <1>2, SetToSeqLists
<1>4. Total(S) \in Nat
  BY <1>1, <1>2, TotalSplit
<1>5. Begin(kind, amount, p)
  OBVIOUS
<1> HIDE DEF p
<1>6. Len(p) >= 1
  <2>1. S # {}
    BY TotalEmpty
  <2>2. Cardinality(S) \in Nat /\ Cardinality(S) # 0
    BY <1>2, <2>1, FS_CardinalityType, FS_EmptySet
  <2> QED BY <1>3, <2>2
<1>7. p \in Seq(NoteRecords) /\ \A i \in DOMAIN p : p[i] \in S
  <2>1. \A i \in 1..Len(p) : p[i] \in S
    BY <1>3
  <2> QED BY <1>3, <2>1
<1>8. Total(Range(p)) - amount >= 0
  BY <1>3, <1>4
<1>9. kind \notin {"deposit", "register"} /\ kind \in AllKinds
  BY DEF Spends, AllKinds
<1>10. /\ \A i \in DOMAIN p : p[i] \in LogNotes \/ p[i].id[1] = 0 - 3
       /\ kind # "transact" => \A i \in DOMAIN p :
              p[i] \in LogNotes /\ p[i].owner = User /\ p[i].amount > 0
  BY <1>7
<1>11. kind = "transact" => Len(p) <= 2
  BY <1>3
<1> QED BY <1>3, <1>5, <1>6, <1>7, <1>8, <1>9, <1>10, <1>11, BeginInv

LEMMA RequestsInv ==
  ASSUME SessionInv, Requests
  PROVE  SessionInv'
<1>1. \A amount \in Amounts : amount \in Nat \ {0}
  BY SessionAssumption
<1>0. LogNotes \subseteq NoteRecords /\ IsFiniteSet(LogNotes)
  BY LogNotesTyped DEF SessionInv
<1>2. ASSUME NEW kind \in {"withdraw", "transfer"}, NEW amount \in Amounts,
             ExecuteSpend(kind, amount)
      PROVE  SessionInv'
  <2>1. PICK S \in Selections(amount) : Begin(kind, amount, SetToSeq(S))
    BY <1>2 DEF ExecuteSpend
  <2>2. S \subseteq NotesAt(noted) /\ Total(S) >= amount
    BY DEF Selections
  <2>3. \A note \in NotesAt(noted) : note \in LogNotes /\ note.owner = User /\ note.amount > 0
    <3>1. \A j \in 1..noted : j \in DOMAIN log
      BY DEF SessionInv, TypesInv
    <3> QED BY <3>1 DEF NotesAt, LogNotes
  <2>4. S \subseteq LogNotes /\ \A note \in S : note \in LogNotes /\ note.owner = User /\ note.amount > 0
    BY <2>2, <2>3
  <2>5. IsFiniteSet(S) /\ S \subseteq NoteRecords
    BY <1>0, <2>4, FS_Subset
  <2>6. kind \in Spends /\ kind # "transact"
    BY DEF Spends
  <2> QED BY <1>1, <2>1, <2>2, <2>4, <2>5, <2>6, BeginWithInv
<1>3. ASSUME NEW amount \in Amounts, ExecuteTransact(amount)
      PROVE  SessionInv'
  <2> DEFINE f == Foreign(amount)
  <2>1. PICK S \in InputNoteIds(amount) : Begin("transact", amount, SetToSeq(S))
    BY <1>3 DEF ExecuteTransact
  <2>2. amount \in Nat
    BY <1>1
  <2>3. f \in NoteRecords /\ f.id[1] = 0 - 3
    BY <2>2 DEF Foreign, Note, NoteRecords, NoteIds
  <2>4. /\ S \subseteq LogNotes \cup {f} /\ Cardinality(S) \in 1..2 /\ Total(S) = amount
    BY DEF InputNoteIds, LogNotes
  <2> HIDE DEF f
  <2>5. IsFiniteSet(S) /\ S \subseteq NoteRecords
    <3>1. IsFiniteSet(LogNotes \cup {f})
      BY <1>0, FS_AddElement
    <3>2. S \subseteq NoteRecords
      BY <1>0, <2>3, <2>4
    <3> QED BY <2>4, <3>1, <3>2, FS_Subset
  <2>6. \A note \in S : note \in LogNotes \/ note.id[1] = 0 - 3
    BY <2>3, <2>4
  <2>7. Total(S) >= amount /\ Cardinality(S) <= 2
    BY <2>2, <2>4
  <2>8. "transact" \in Spends
    BY DEF Spends
  <2> QED BY <1>1, <2>1, <2>5, <2>6, <2>7, <2>8, BeginWithInv
<1> DEFINE none == <<>>
<1>4. none \in Seq(NoteRecords) /\ DOMAIN none = {}
  OBVIOUS
<1>5. ASSUME NEW amount \in Amounts, ExecuteDeposit(amount)
      PROVE  SessionInv'
  <2>1. Begin("deposit", amount, none)
    BY <1>5 DEF ExecuteDeposit
  <2>2. "deposit" \in AllKinds /\ "deposit" \notin Spends /\ amount \in Nat
    BY <1>1 DEF AllKinds, Spends
  <2>3. none = <<>>
    OBVIOUS
  <2> HIDE DEF none
  <2> QED BY <1>4, <2>1, <2>2, <2>3, BeginInv
<1>6. ASSUME RegisterPublicKeys
      PROVE  SessionInv'
  <2>1. Begin("register", 0, none)
    BY <1>6 DEF RegisterPublicKeys
  <2>2. "register" \in AllKinds /\ "register" \notin Spends
    BY DEF AllKinds, Spends
  <2>3. none = <<>>
    OBVIOUS
  <2> HIDE DEF none
  <2> QED BY <1>4, <2>1, <2>2, <2>3, BeginInv
<1> QED BY <1>2, <1>3, <1>5, <1>6 DEF Requests

-----------------------------------------------------------------------------
(* The rest of the world.                                                  *)

\* The request goes on as it was; what was sent may be decided meanwhile.
WorldStep ==
    /\ UNCHANGED <<req, sess, ended>>
    /\ txs' \in Seq(TxRecords) /\ Len(txs') = Len(txs) /\ DOMAIN txs' = DOMAIN txs
    /\ \A k \in DOMAIN txs : /\ txs'[k].env = txs[k].env /\ txs'[k].rivals = txs[k].rivals
                             /\ txs[k].status = "success" => txs'[k].status = "success"

LEMMA UnchangedTxs ==
  ASSUME TypesInv, UNCHANGED <<txs, req, sess, ended>>
  PROVE  WorldStep
BY DEF WorldStep, TypesInv

LEMMA WorldFrame ==
  ASSUME SessionInv, WorldStep, LogNotes \subseteq LogNotes'
  PROVE  ReqInv' /\ ProofInv' /\ SignInv' /\ SentInv' /\ RunningInv' /\ DoneInv'
<1> DEFINE C(i) == txs'[i].env.call
           N(i) == txs'[i].env.call.step.out.id[2]
           Ok(i) == txs'[i].status = "success"
<1>1. req' = req /\ sess' = sess /\ ended' = ended /\ Len(txs') = Len(txs) /\ DOMAIN txs' = DOMAIN txs
  BY DEF WorldStep
<1>2. \A k \in DOMAIN txs : /\ txs'[k].env = txs[k].env /\ C(k) = CallOf(k) /\ N(k) = Num(k)
                            /\ Success(k) => Ok(k)
  BY DEF WorldStep, CallOf, Num, Success
<1>3. ReqInv'
  <2>1. PicksReal => PicksReal'
    BY <1>1 DEF PicksReal
  <2> QED BY <1>1, <2>1 DEF SessionInv, ReqInv, Idle, Excess, Steps, First
<1>4. ProofInv'
  BY <1>1 DEF SessionInv, ProofInv, ProvesExistingTree
<1>5. SignInv'
  <2>1. Call' = Call /\ Prepared' = Prepared
    BY <1>1 DEF Call, Prepared, Step, StepOf, InputsOf, Final, Steps, Excess
  <2>2. \A k \in DOMAIN txs' : Signed(txs'[k].env)
    BY <1>1, <1>2 DEF SessionInv, SignInv
  <2> QED BY <1>1, <2>1, <2>2 DEF SessionInv, SignInv, Signed
<1> HIDE DEF C, N, Ok
<1>6. ASSUME NEW n, NEW t, HasLanded(n, t)
      PROVE  \E j \in DOMAIN txs' : C(j).request = n /\ N(j) = t /\ Ok(j)
  <2>1. PICK j \in DOMAIN txs : CallOf(j).request = n /\ Num(j) = t /\ Success(j)
    BY <1>6 DEF HasLanded
  <2> QED BY <1>1, <1>2, <2>1
<1>7. SentInv'
  <2>1. \A i \in DOMAIN txs' :
          /\ C(i).request \in 1..(Len(ended') + 1)
          /\ N(i) >= 1 /\ C(i).step.out.id = <<C(i).request, N(i)>>
          /\ \A t \in 1..(N(i) - 1) :
                \E j \in DOMAIN txs' : C(j).request = C(i).request /\ N(j) = t /\ Ok(j)
          /\ C(i).last => C(i).step.ext \in {AskedIn(ended', req', C(i).request),
                                             0 - AskedIn(ended', req', C(i).request)}
    BY <1>1, <1>2, <1>6 DEF SessionInv, SentInv, Asked
  <2>2. \A i, j \in DOMAIN txs' : C(i).request = C(j).request =>
           (N(i) = N(j) => i = j) /\ (C(i).last => N(j) <= N(i))
    BY <1>1, <1>2 DEF SessionInv, SentInv
  <2> QED BY <2>1, <2>2, Zenon DEF SentInv, CallOf, Num, HasLanded, Success, Asked, C, N, Ok
<1>8. RunningInv'
  <2>1. \A i \in DOMAIN txs' : C(i).request = Len(ended') + 1 =>
           /\ ~Idle' /\ N(i) <= sess'.step /\ (N(i) = sess'.step => sess'.pc = "confirm" /\ i = Len(txs'))
           /\ C(i).last <=> N(i) = Steps(req')
    BY <1>1, <1>2 DEF SessionInv, RunningInv, Idle
  <2>2. ~Idle' => \A t \in 1..(sess'.step - 1) : \E j \in DOMAIN txs' :
           C(j).request = req'.n /\ N(j) = t /\ Ok(j)
    BY <1>1, <1>6 DEF SessionInv, RunningInv, Idle
  <2>3. Step' = Step
    BY <1>1 DEF Step, StepOf, InputsOf, Final, Steps, Excess
  <2>4. sess'.pc = "confirm" =>
           /\ txs' # <<>>
           /\ C(Len(txs')).request = req'.n /\ C(Len(txs')).kind = req'.kind
           /\ C(Len(txs')).step = Step' /\ C(Len(txs')).last = Final(req', sess'.step)
    <3>1. SUFFICES ASSUME sess.pc = "confirm"
                   PROVE  /\ txs' # <<>>
                          /\ C(Len(txs)).request = req.n /\ C(Len(txs)).kind = req.kind
                          /\ C(Len(txs)).step = Step /\ C(Len(txs)).last = Final(req, sess.step)
      BY <1>1, <2>3 DEF Final, Steps
    <3>2. /\ txs # <<>> /\ txs \in Seq(TxRecords)
          /\ CallOf(Len(txs)).request = req.n /\ CallOf(Len(txs)).kind = req.kind
          /\ CallOf(Len(txs)).step = Step /\ CallOf(Len(txs)).last = Final(req, sess.step)
      BY <3>1 DEF SessionInv, RunningInv, TypesInv
    <3>3. Len(txs) \in DOMAIN txs
      BY <3>2
    <3>4. txs' # <<>>
      BY <1>1, <3>3
    <3> QED BY <1>2, <3>2, <3>3, <3>4
  <2> QED BY <2>1, <2>2, <2>4, Zenon DEF RunningInv, CallOf, Num, HasLanded, Success, C, N, Ok
<1>9. DoneInv'
  <2>1. \A n \in DOMAIN ended' : ended'[n].result = "done" =>
           \E i \in DOMAIN txs' : C(i).request = n /\ C(i).last /\ Ok(i)
    BY <1>1, <1>2 DEF SessionInv, DoneInv
  <2> QED BY <2>1, Zenon DEF DoneInv, CallOf, Success, C, Ok
<1> QED BY <1>3, <1>4, <1>5, <1>7, <1>8, <1>9

\* A pool transaction that spends unspent notes of the user, is balanced and
\* makes a note with a new id.
FreshEntry(e) ==
    /\ e \in PoolEntries
    /\ \A i \in DOMAIN log : log[i].out.id # e.out.id
    /\ \E S \in SUBSET NotesAt(Len(log)) :
           /\ e.ins = {note.id : note \in S}
           /\ e.ext = (IF e.out.owner = User THEN e.out.amount ELSE 0) - Total(S)

LEMMA AppendFacts ==
  ASSUME TypesInv, NEW e \in PoolEntries, log' = Append(log, e)
  PROVE  LET n == Len(log)
         IN  /\ n \in Nat /\ DOMAIN log = 1..n /\ Len(log') = n + 1 /\ DOMAIN log' = 1..(n + 1)
             /\ \A i \in 1..n : log'[i] = log[i] /\ i \in 1..(n + 1) /\ i # n + 1
             /\ \A i \in 1..(n + 1) : i \in 1..n \/ i = n + 1
             /\ log'[n + 1] = e /\ log' \in Seq(PoolEntries) /\ n + 1 \in 1..(n + 1)
             /\ LogNotes' = LogNotes \cup {e.out}
<1> DEFINE n == Len(log)
<1>1. log \in Seq(PoolEntries)
  BY DEF TypesInv
<1>2. /\ n \in Nat /\ DOMAIN log = 1..n /\ Len(log') = n + 1 /\ DOMAIN log' = 1..(n + 1)
      /\ \A i \in 1..n : log'[i] = log[i]
      /\ log'[n + 1] = e /\ log' \in Seq(PoolEntries)
  BY <1>1
<1>3. /\ \A i \in 1..n : i \in 1..(n + 1) /\ i # n + 1
      /\ \A i \in 1..(n + 1) : i \in 1..n \/ i = n + 1
      /\ n + 1 \in 1..(n + 1)
  BY <1>2
<1>4. LogNotes' = LogNotes \cup {e.out}
  <2>1. LogNotes' = {log'[i].out : i \in 1..(n + 1)} /\ LogNotes = {log[i].out : i \in 1..n}
    BY <1>2 DEF LogNotes
  <2> QED BY <1>2, <1>3, <2>1
<1> QED BY <1>2, <1>3, <1>4

\* The user's notes are worth what was paid in less what was paid out.
LEMMA ValueAppend ==
  ASSUME SessionInv, NEW e, FreshEntry(e), log' = Append(log, e)
  PROVE  ValueKept'
<1> DEFINE n == Len(log)
           U == NotesAt(n)
           V == NotesAt(Len(log))'
           Sp == Spent(n)
           gain == IF e.out.owner = User THEN e.out.amount ELSE 0
<1>1. PICK S \in SUBSET U : e.ins = {note.id : note \in S} /\ e.ext = gain - Total(S)
  BY DEF FreshEntry
<1>2. /\ n \in Nat /\ DOMAIN log = 1..n /\ Len(log') = n + 1 /\ DOMAIN log' = 1..(n + 1)
      /\ \A i \in 1..n : log'[i] = log[i] /\ i \in 1..(n + 1) /\ i # n + 1
      /\ \A i \in 1..(n + 1) : i \in 1..n \/ i = n + 1
      /\ log'[n + 1] = e /\ n + 1 \in 1..(n + 1)
  BY AppendFacts DEF SessionInv, FreshEntry
<1>3. /\ \A i \in 1..n : log[i].out \in LogNotes /\ log[i] \in PoolEntries
      /\ IsFiniteSet(LogNotes) /\ \A x \in LogNotes : x.amount \in Nat
  BY LogNotesTyped DEF SessionInv
<1>4. /\ \A i, j \in 1..n : log[i].out.id = log[j].out.id => i = j
      /\ \A i \in 1..n : log[i].ins \subseteq {note.id : note \in LogNotes}
      /\ \A i \in 1..n : log[i].out.id # e.out.id
  BY <1>2 DEF SessionInv, LogInv, FreshEntry
<1>5. e \in PoolEntries /\ e.out.amount \in Nat /\ e.ext \in Int
  BY DEF FreshEntry, PoolEntries, NoteRecords
<1>6. \A x : x \in U <=> \E i \in 1..n : /\ x = log[i].out /\ x.owner = User /\ x.amount > 0
                                         /\ x.id \notin Sp
  BY DEF NotesAt
<1>7. U \subseteq LogNotes /\ IsFiniteSet(U) /\ \A x \in U : x.amount \in Nat
  <2>1. U \subseteq LogNotes
    BY <1>3, <1>6
  <2> QED BY <1>3, <2>1, FS_Subset
<1>8. ASSUME NEW id PROVE id \in UNION {log'[i].ins : i \in 1..(n + 1)} <=> id \in Sp \/ id \in e.ins
  BY <1>2 DEF Spent
<1>9. Sp \subseteq {note.id : note \in LogNotes} /\ e.ins \subseteq {note.id : note \in LogNotes}
  BY <1>1, <1>4, <1>7 DEF Spent
<1>10. e.out.id \notin {note.id : note \in LogNotes}
  BY <1>2, <1>4 DEF LogNotes
<1>11. \A x : x \in V <=> \E i \in 1..(n + 1) : /\ x = log'[i].out /\ x.owner = User /\ x.amount > 0
                                                /\ x.id \notin Sp /\ x.id \notin e.ins
  <2>1. V = {log'[i].out : i \in {j \in 1..(n + 1) :
               /\ log'[j].out.owner = User /\ log'[j].out.amount > 0
               /\ log'[j].out.id \notin UNION {log'[k].ins : k \in 1..(n + 1)}}}
    BY <1>2 DEF NotesAt, Spent
  <2> HIDE DEF V, Sp
  <2> QED BY <1>8, <2>1
<1>12. \A x \in LogNotes, y \in LogNotes : x.id = y.id => x = y
  BY <1>2, <1>4 DEF LogNotes
<1> HIDE DEF U, V, Sp
<1>13. \A x \in U : x.id \in e.ins <=> x \in S
  BY <1>1, <1>7, <1>12
<1>14. V = (U \ S) \cup (IF e.out.owner = User /\ e.out.amount > 0 THEN {e.out} ELSE {})
  <2>1. ASSUME NEW x \in V
        PROVE  x \in U \ S \/ (x = e.out /\ e.out.owner = User /\ e.out.amount > 0)
    <3>1. PICK i \in 1..(n + 1) : /\ x = log'[i].out /\ x.owner = User /\ x.amount > 0
                                  /\ x.id \notin Sp /\ x.id \notin e.ins
      BY <1>11
    <3>2. CASE i \in 1..n
      BY <1>2, <1>6, <1>13, <3>1, <3>2
    <3>3. CASE i = n + 1
      BY <1>2, <3>1, <3>3
    <3> QED BY <1>2, <3>2, <3>3
  <2>2. ASSUME NEW x \in U \ S PROVE x \in V
    <3>1. PICK i \in 1..n : x = log[i].out /\ x.owner = User /\ x.amount > 0 /\ x.id \notin Sp
      BY <1>6
    <3>2. x.id \notin e.ins
      BY <1>13
    <3> QED BY <1>2, <1>11, <3>1, <3>2
  <2>3. ASSUME e.out.owner = User, e.out.amount > 0 PROVE e.out \in V
    <3>1. e.out.id \notin Sp /\ e.out.id \notin e.ins
      BY <1>9, <1>10
    <3> QED BY <1>2, <1>11, <2>3, <3>1
  <2> QED BY <2>1, <2>2, <2>3
<1>15. Total(V) = Total(U) - Total(S) + gain
  <2>1. /\ Total(U) \in Nat /\ Total(S) \in Nat /\ Total(U \ S) \in Nat
        /\ Total(U) = Total(S) + Total(U \ S)
    BY <1>1, <1>7, TotalSplit
  <2>2. CASE e.out.owner = User /\ e.out.amount > 0
    <3>1. V = (U \ S) \cup {e.out} /\ gain = e.out.amount
      BY <1>14, <2>2
    <3>2. IsFiniteSet(U \ S) /\ (\A x \in U \ S : x.amount \in Nat)
      BY <1>7, FS_Subset
    <3>3. e.out \notin U \ S
      BY <1>7, <1>10
    <3>4. Total((U \ S) \cup {e.out}) = Total(U \ S) + e.out.amount
      BY <1>5, <3>2, <3>3, TotalAdd
    <3> HIDE DEF gain
    <3> QED BY <1>5, <2>1, <3>1, <3>4
  <2>3. CASE ~(e.out.owner = User /\ e.out.amount > 0)
    <3>1. V = U \ S /\ gain = 0
      BY <1>5, <1>14, <2>3
    <3> HIDE DEF gain
    <3> QED BY <2>1, <3>1
  <2> QED BY <2>2, <2>3
<1> DEFINE f == [i \in DOMAIN log |-> log[i].ext]
           g == [i \in DOMAIN log' |-> log'[i].ext]
           D == 1..n
           E == 1..(n + 1)
<1>16. SumFunction(g) = SumFunction(f) + e.ext /\ SumFunction(f) \in Int
  <2>1. DOMAIN f = D /\ DOMAIN g = E
    BY <1>2
  <2>2. SumFunction(f) = SumOver(f, D) /\ SumFunction(g) = SumOver(g, E)
    <3> HIDE DEF f, g, D, E
    <3>1. SumFunction(f) = SumOver(f, DOMAIN f) /\ SumFunction(g) = SumOver(g, DOMAIN g)
      BY SumFunctionIsSumOver
    <3> QED BY <2>1, <3>1
  <2>3. \A i \in D : f[i] = g[i] /\ f[i] \in Int
    BY <1>2, <1>3 DEF PoolEntries
  <2>4. g[n + 1] = e.ext /\ n + 1 \in E /\ E \ {n + 1} = D
    BY <1>2
  <2>5. \A i \in E : g[i] \in Int
    BY <1>2, <1>5, <2>3, <2>4
  <2>6. IsFiniteSet(D) /\ IsFiniteSet(E)
    BY <1>2, FS_Interval
  <2> HIDE DEF f, g, D, E
  <2>7. SumOver(g, E) = g[n + 1] + SumOver(g, E \ {n + 1})
    BY <2>4, <2>5, <2>6, SumOverRemove
  <2>8. SumOver(f, D) = SumOver(g, D)
    BY <2>3, <2>6, SumOverAgree
  <2>9. SumOver(f, D) \in Int
    BY <2>3, <2>6, SumOverType
  <2>10. SumOver(g, E \ {n + 1}) = SumOver(f, D)
    BY <2>4, <2>8
  <2> DEFINE a == SumOver(f, D)
             b == e.ext
  <2>11. SumFunction(g) = b + a /\ SumFunction(f) = a
    BY <2>2, <2>4, <2>7, <2>10
  <2>12. a \in Int /\ b \in Int
    BY <1>5, <2>9
  <2> HIDE DEF a, b
  <2>13. b + a = a + b
    BY <2>12
  <2> QED BY <2>11, <2>12, <2>13 DEF b
<1>17. Total(U) = SumFunction(f)
  BY DEF SessionInv, ValueKept, U
<1>18. Total(S) \in Nat /\ gain \in Nat
  BY <1>1, <1>5, <1>7, TotalSplit
<1> HIDE DEF f, g, gain
<1>19. Total(V) = SumFunction(g)
  BY <1>1, <1>15, <1>16, <1>17, <1>18
<1> QED BY <1>19 DEF ValueKept, V, g, Total

LEMMA LogAppend ==
  ASSUME SessionInv, WorldStep, NEW e, FreshEntry(e), log' = Append(log, e),
         others' \in {others, others + 1}, e.out.id[1] # 0 - 3,
         e.out.id[1] < 0 => e.out.id[2] < others',
         e.out.id[1] > 0 => \E j \in DOMAIN txs : /\ txs'[j].status = "success"
                                                  /\ CallOf(j).kind # "register"
                                                  /\ CallOf(j).step.out.id = e.out.id,
         \A j \in DOMAIN txs :
             txs'[j].status = "success" /\ ~Success(j) /\ CallOf(j).kind # "register" =>
                 CallOf(j).step.out = e.out
  PROVE  /\ LogInv' /\ ValueKept' /\ LogNotes \subseteq LogNotes'
         /\ log' \in Seq(PoolEntries) /\ indexed \in 0..Len(log') /\ noted \in 0..indexed
<1> DEFINE n == Len(log)
           C(i) == txs'[i].env.call
           Ok(i) == txs'[i].status = "success"
<1>1. /\ n \in Nat /\ DOMAIN log = 1..n /\ Len(log') = n + 1 /\ DOMAIN log' = 1..(n + 1)
      /\ \A i \in 1..n : log'[i] = log[i] /\ i \in 1..(n + 1) /\ i # n + 1
      /\ \A i \in 1..(n + 1) : i \in 1..n \/ i = n + 1
      /\ log'[n + 1] = e /\ n + 1 \in 1..(n + 1) /\ log' \in Seq(PoolEntries)
      /\ LogNotes' = LogNotes \cup {e.out}
  BY AppendFacts DEF SessionInv, FreshEntry
<1>2. /\ DOMAIN txs' = DOMAIN txs
      /\ \A j \in DOMAIN txs : C(j) = CallOf(j) /\ (Success(j) => Ok(j))
  BY DEF WorldStep, CallOf, Success
<1>3. others \in Nat /\ indexed \in 0..n /\ noted \in 0..indexed
  BY DEF SessionInv, TypesInv
<1>4. ValueKept'
  BY ValueAppend
<1>5. \A i \in 1..n : log[i].out.id \in NoteIds
  BY LogNotesTyped DEF SessionInv, PoolEntries, NoteRecords
<1>6. /\ \A i, j \in 1..n : log[i].out.id = log[j].out.id => i = j
      /\ \A i \in 1..n :
           LET id == log[i].out.id
           IN  /\ id[1] # 0 - 3
               /\ id[1] < 0 => id[2] < others
               /\ id[1] > 0 => \E j \in DOMAIN txs : /\ Success(j)
                                                     /\ CallOf(j).kind # "register"
                                                     /\ CallOf(j).step.out.id = id
               /\ log[i].ins \subseteq {note.id : note \in LogNotes}
      /\ \A i \in 1..n : log[i].out.id # e.out.id
  BY <1>1 DEF SessionInv, LogInv, FreshEntry
<1>7. \A i, j \in 1..(n + 1) : log'[i].out.id = log'[j].out.id => i = j
  BY <1>1, <1>6
<1>8. \A i \in 1..(n + 1) : log'[i].out.id[1] < 0 => log'[i].out.id[2] < others'
  <2>1. ASSUME NEW i \in 1..n, log[i].out.id[1] < 0 PROVE log[i].out.id[2] < others'
    <3>1. log[i].out.id[2] < others /\ log[i].out.id[2] \in Nat
      BY <1>5, <1>6, <2>1 DEF NoteIds
    <3> QED BY <1>3, <3>1
  <2> QED BY <1>1, <2>1
<1> HIDE DEF C, Ok
<1>9. \A i \in 1..(n + 1) : log'[i].out.id[1] > 0 =>
         \E j \in DOMAIN txs' : Ok(j) /\ C(j).kind # "register" /\ C(j).step.out.id = log'[i].out.id
  <2>1. ASSUME NEW i \in 1..n, log[i].out.id[1] > 0
        PROVE  \E j \in DOMAIN txs' : Ok(j) /\ C(j).kind # "register" /\ C(j).step.out.id = log[i].out.id
    BY <1>2, <1>6, <2>1
  <2>2. ASSUME e.out.id[1] > 0
        PROVE  \E j \in DOMAIN txs' : Ok(j) /\ C(j).kind # "register" /\ C(j).step.out.id = e.out.id
    BY <1>2, <2>2 DEF Ok
  <2> QED BY <1>1, <2>1, <2>2
<1>10. \A i \in 1..(n + 1) : log'[i].ins \subseteq {note.id : note \in LogNotes'}
  <2>1. e.ins \subseteq {note.id : note \in LogNotes}
    <3>1. PICK S \in SUBSET NotesAt(n) : e.ins = {note.id : note \in S}
      BY DEF FreshEntry
    <3>2. S \subseteq LogNotes
      BY <1>1 DEF NotesAt, LogNotes
    <3> QED BY <3>1, <3>2
  <2>2. {note.id : note \in LogNotes} \subseteq {note.id : note \in LogNotes'}
    BY <1>1
  <2> QED BY <1>1, <1>6, <2>1, <2>2
<1>11. ASSUME NEW j \in DOMAIN txs'
       PROVE  /\ C(j).step.out.owner = User
              /\ \E S \in SUBSET LogNotes' :
                    /\ C(j).step.ins = {note.id : note \in S}
                    /\ \A note \in S : note.owner = User /\ note.amount > 0
                    /\ C(j).step.ext = C(j).step.out.amount - Total(S)
              /\ Ok(j) /\ C(j).kind # "register" => C(j).step.out \in LogNotes'
  <2>1. Balanced(CallOf(j).step) /\ (Success(j) /\ CallOf(j).kind # "register" => CallOf(j).step.out \in LogNotes)
    BY <1>2 DEF SessionInv, LogInv
  <2>2. Ok(j) /\ C(j).kind # "register" => C(j).step.out \in LogNotes'
    BY <1>1, <1>2, <2>1 DEF Ok
  <2>3. C(j) = CallOf(j) /\ LogNotes \subseteq LogNotes'
    BY <1>1, <1>2
  <2> QED BY <2>1, <2>2, <2>3 DEF Balanced
<1>12. LogInv'
  <2>1. \A i, j \in DOMAIN log' : log'[i].out.id = log'[j].out.id => i = j
    BY <1>1, <1>7
  <2>2. \A i \in DOMAIN log' :
          /\ log'[i].out.id[1] # 0 - 3
          /\ log'[i].out.id[1] < 0 => log'[i].out.id[2] < others'
          /\ log'[i].out.id[1] > 0 => \E j \in DOMAIN txs' :
                Ok(j) /\ C(j).kind # "register" /\ C(j).step.out.id = log'[i].out.id
          /\ log'[i].ins \subseteq {note.id : note \in LogNotes'}
    BY <1>1, <1>6, <1>8, <1>9, <1>10
  <2> QED BY <1>11, <2>1, <2>2, Zenon DEF LogInv, CallOf, Success, Balanced, C, Ok
<1>13. indexed \in 0..Len(log') /\ noted \in 0..indexed
  BY <1>1, <1>3
<1> QED BY <1>1, <1>4, <1>12, <1>13

LEMMA LogSame ==
  ASSUME SessionInv, WorldStep, log' = log, others' \in {others, others + 1},
         \A j \in DOMAIN txs :
             txs'[j].status = "success" /\ CallOf(j).kind # "register" => Success(j)
  PROVE  LogInv' /\ ValueKept' /\ LogNotes' = LogNotes
<1> DEFINE C(i) == txs'[i].env.call
           Ok(i) == txs'[i].status = "success"
<1>1. /\ DOMAIN txs' = DOMAIN txs
      /\ \A j \in DOMAIN txs : C(j) = CallOf(j) /\ (Success(j) => Ok(j))
                               /\ (Ok(j) /\ C(j).kind # "register" => Success(j))
  BY DEF WorldStep, CallOf, Success
<1>2. LogNotes' = LogNotes
  BY DEF LogNotes
<1>3. ValueKept'
  BY DEF SessionInv, ValueKept, NotesAt, Spent
<1>4. \A i, j \in DOMAIN log' : log'[i].out.id = log'[j].out.id => i = j
  BY DEF SessionInv, LogInv
<1> HIDE DEF C, Ok
<1>5. ASSUME NEW i \in DOMAIN log'
      PROVE  /\ log'[i].out.id[1] # 0 - 3
             /\ log'[i].out.id[1] < 0 => log'[i].out.id[2] < others'
             /\ log'[i].out.id[1] > 0 => \E j \in DOMAIN txs' :
                  Ok(j) /\ C(j).kind # "register" /\ C(j).step.out.id = log'[i].out.id
             /\ log'[i].ins \subseteq {note.id : note \in LogNotes'}
  <2>1. LET id == log[i].out.id
        IN  /\ id[1] # 0 - 3
            /\ id[1] < 0 => id[2] < others
            /\ id[1] > 0 => \E j \in DOMAIN txs : /\ Success(j)
                                                  /\ CallOf(j).kind # "register"
                                                  /\ CallOf(j).step.out.id = id
            /\ log[i].ins \subseteq {note.id : note \in LogNotes}
    BY DEF SessionInv, LogInv
  <2>2. log[i].out.id[2] \in Nat /\ others \in Nat
    BY LogNotesTyped DEF SessionInv, TypesInv, PoolEntries, NoteRecords, NoteIds
  <2>3. log'[i].out.id[1] < 0 => log'[i].out.id[2] < others'
    <3> DEFINE id == log[i].out.id
    <3>1. (id[1] < 0 => id[2] < others) /\ id[2] \in Nat /\ others \in Nat
      BY <2>1, <2>2
    <3> HIDE DEF id
    <3>2. id[1] < 0 => id[2] < others'
      BY <3>1
    <3> QED BY <3>2 DEF id
  <2> QED BY <1>1, <1>2, <2>1, <2>3
<1>6. \A j \in DOMAIN txs' :
         /\ C(j).step.out.owner = User
         /\ \E S \in SUBSET LogNotes' :
               /\ C(j).step.ins = {note.id : note \in S}
               /\ \A note \in S : note.owner = User /\ note.amount > 0
               /\ C(j).step.ext = C(j).step.out.amount - Total(S)
         /\ Ok(j) /\ C(j).kind # "register" => C(j).step.out \in LogNotes'
  BY <1>1, <1>2 DEF SessionInv, LogInv, Balanced
<1>7. LogInv'
  BY <1>4, <1>5, <1>6, Zenon DEF LogInv, CallOf, Success, Balanced, C, Ok
<1> QED BY <1>2, <1>3, <1>7

\* A number is used up by at most one transaction, the one at hand.
LEMMA SequenceStep ==
  ASSUME SessionInv, WorldStep, sequence' \in {sequence, sequence + 1}, NEW i,
         \A k \in DOMAIN txs : k # i => txs'[k].status = txs[k].status,
         i \in DOMAIN txs /\ txs'[i].status \in {"success", "failed"} =>
             ~Applied(i) /\ txs[i].env.sequence = sequence + 1 /\ sequence' = sequence + 1
  PROVE  SequenceInv'
<1> DEFINE ap(k) == txs'[k].status \in {"success", "failed"}
           seq(k) == txs'[k].env.sequence
           R(k) == txs'[k].rivals
<1>1. sequence \in Nat /\ sess' = sess /\ DOMAIN txs' = DOMAIN txs
  BY DEF SessionInv, TypesInv, WorldStep
<1>2. \A k \in DOMAIN txs : /\ seq(k) = txs[k].env.sequence /\ seq(k) \in Nat /\ R(k) = txs[k].rivals
                            /\ seq(k) <= sequence + 1 /\ (Applied(k) => seq(k) <= sequence)
                            /\ \A r \in R(k) : r < k
  BY TxsTyped DEF SessionInv, SequenceInv, WorldStep
<1>3. \A k \in DOMAIN txs : k # i => (ap(k) <=> Applied(k)) /\ (txs'[k].status = "success" <=> Success(k))
  BY DEF Applied, Success
<1>4. i \in DOMAIN txs /\ ap(i) => /\ ~Applied(i) /\ seq(i) = sequence + 1 /\ sequence' = sequence + 1
  BY <1>2
<1> DEFINE suc(k) == txs'[k].status = "success"
<1>5. \A k \in DOMAIN txs : suc(k) => ap(k)
  OBVIOUS
<1> HIDE DEF seq, R, ap, suc
<1>6. ASSUME NEW Q, NEW m \in Nat, Behind(Q, m), m <= sequence + 1, NEW r \in Q
      PROVE  r \in DOMAIN txs' /\ seq(r) <= m /\ (suc(r) => seq(r) >= m)
  <2>1. /\ r \in DOMAIN txs /\ txs[r].env.sequence <= m
        /\ Success(r) => txs[r].env.sequence >= m
    BY <1>6 DEF Behind, Success
  <2>2. CASE r = i /\ suc(r)
    <3>1. seq(r) = sequence + 1
      BY <1>4, <1>5, <2>1, <2>2
    <3> QED BY <1>1, <1>2, <1>6, <2>1, <3>1
  <2>3. CASE ~(r = i /\ suc(r))
    <3>1. suc(r) => Success(r)
      BY <1>3, <2>1, <2>3 DEF suc
    <3> QED BY <1>1, <1>2, <2>1, <3>1
  <2> QED BY <2>2, <2>3
<1>7. ASSUME NEW k \in DOMAIN txs
      PROVE  /\ seq(k) <= sequence' + 1 /\ (ap(k) => seq(k) <= sequence')
             /\ \A r \in R(k) : /\ r < k /\ r \in DOMAIN txs' /\ seq(r) <= seq(k)
                                /\ suc(r) => seq(r) >= seq(k)
  <2>1. seq(k) <= sequence' + 1
    BY <1>1, <1>2
  <2>2. ap(k) => seq(k) <= sequence'
    <3>1. CASE k = i
      BY <1>1, <1>2, <1>4, <3>1
    <3>2. CASE k # i
      BY <1>1, <1>2, <1>3, <3>2
    <3> QED BY <3>1, <3>2
  <2>3. Behind(R(k), seq(k))
    BY <1>2 DEF SessionInv, SequenceInv
  <2>4. seq(k) \in Nat /\ seq(k) <= sequence + 1 /\ \A r \in R(k) : r < k
    BY <1>2
  <2>5. \A r \in R(k) : r \in DOMAIN txs' /\ seq(r) <= seq(k) /\ (suc(r) => seq(r) >= seq(k))
    BY <1>6, <2>3, <2>4
  <2> QED BY <2>1, <2>2, <2>4, <2>5
<1>8. \A j, k \in DOMAIN txs : ap(j) /\ ap(k) /\ seq(j) = seq(k) => j = k
  <2>1. ASSUME NEW j \in DOMAIN txs, NEW k \in DOMAIN txs, ap(j), ap(k), seq(j) = seq(k), j # k
        PROVE  FALSE
    <3>1. CASE j = i
      <4>1. seq(k) <= sequence /\ seq(j) = sequence + 1
        BY <1>2, <1>3, <1>4, <2>1, <3>1
      <4> QED BY <1>1, <1>2, <2>1, <4>1
    <3>2. CASE k = i
      <4>1. seq(j) <= sequence /\ seq(k) = sequence + 1
        BY <1>2, <1>3, <1>4, <2>1, <3>2
      <4> QED BY <1>1, <1>2, <2>1, <4>1
    <3>3. CASE j # i /\ k # i
      <4>1. Applied(j) /\ Applied(k) /\ txs[j].env.sequence = txs[k].env.sequence
        BY <1>2, <1>3, <2>1, <3>3
      <4> QED BY <2>1, <4>1 DEF SessionInv, SequenceInv
    <3> QED BY <3>1, <3>2, <3>3
  <2> QED BY <2>1
<1>9. sess.pc \in HasNumber =>
        /\ sess.number <= sequence' + 1
        /\ \A r \in sess.rivals : r \in DOMAIN txs' /\ seq(r) <= sess.number
                                  /\ (suc(r) => seq(r) >= sess.number)
  <2>1. SUFFICES ASSUME sess.pc \in HasNumber
                 PROVE  /\ sess.number <= sequence' + 1
                        /\ \A r \in sess.rivals : r \in DOMAIN txs' /\ seq(r) <= sess.number
                                                  /\ (suc(r) => seq(r) >= sess.number)
    OBVIOUS
  <2>2. sess.number \in Nat /\ sess.number <= sequence + 1 /\ Behind(sess.rivals, sess.number)
    BY <2>1 DEF SessionInv, TypesInv, SessTypeInv, SessRecords, SequenceInv
  <2>3. sess.number <= sequence' + 1
    BY <1>1, <2>2
  <2>4. \A r \in sess.rivals : r \in DOMAIN txs' /\ seq(r) <= sess.number
                               /\ (suc(r) => seq(r) >= sess.number)
    BY <1>6, <2>2
  <2> QED BY <2>3, <2>4
<1>10. sess.pc \in {"sign", "send"} => Prepared.tx.sequence = sess.number
  BY DEF SessionInv, SequenceInv
<1>11. Prepared' = Prepared
  BY <1>1 DEF Prepared
<1>12. \A k \in DOMAIN txs' :
          /\ seq(k) <= sequence' + 1 /\ (ap(k) => seq(k) <= sequence')
          /\ \A r \in R(k) : /\ r \in DOMAIN txs' /\ seq(r) <= seq(k)
                             /\ suc(r) => seq(r) >= seq(k)
          /\ \A r \in R(k) : r < k
  BY <1>1, <1>7
<1>13. \A j, k \in DOMAIN txs' : ap(j) /\ ap(k) /\ seq(j) = seq(k) => j = k
  BY <1>1, <1>8
<1>14. /\ sess'.pc \in HasNumber =>
            /\ sess'.number <= sequence' + 1
            /\ \A r \in sess'.rivals : /\ r \in DOMAIN txs' /\ seq(r) <= sess'.number
                                       /\ suc(r) => seq(r) >= sess'.number
       /\ sess'.pc \in {"sign", "send"} => Prepared'.tx.sequence = sess'.number
  BY <1>1, <1>9, <1>10, <1>11
<1> QED BY <1>12, <1>13, <1>14, Zenon DEF SequenceInv, Behind, Applied, seq, R, ap, suc

LEMMA WorldStepInv ==
  ASSUME SessionInv, WorldStep, SequenceInv', LogInv', ValueKept', LogNotes \subseteq LogNotes',
         log' \in Seq(PoolEntries), sequence' \in Nat, tip' \in Nat, others' \in Nat,
         indexed' \in 0..Len(log'), noted' \in 0..indexed'
  PROVE  SessionInv'
<1>1. ReqInv' /\ ProofInv' /\ SignInv' /\ SentInv' /\ RunningInv' /\ DoneInv'
  BY WorldFrame
<1>2. TypesInv'
  BY DEF SessionInv, TypesInv, SessTypeInv, WorldStep
<1> QED BY <1>1, <1>2 DEF SessionInv

LEMMA StatusFacts ==
  ASSUME TypesInv, NEW i \in DOMAIN txs, NEW s \in {"pending", "success", "failed", "dropped"},
         txs[i].status = "pending", UNCHANGED <<req, sess, ended>>,
         txs' = [txs EXCEPT ![i].status = s]
  PROVE  /\ WorldStep /\ txs'[i].status = s
         /\ \A k \in DOMAIN txs : k # i => txs'[k].status = txs[k].status
<1> DEFINE x == [txs[i] EXCEPT !.status = s]
<1>1. txs \in Seq(TxRecords) /\ txs[i] \in TxRecords /\ DOMAIN txs = 1..Len(txs) /\ Len(txs) \in Nat
  BY DEF TypesInv
<1>2. x \in TxRecords /\ x.env = txs[i].env /\ x.rivals = txs[i].rivals /\ x.status = s
  <2> DEFINE y == txs[i]
  <2>1. y \in TxRecords
    BY <1>1
  <2> HIDE DEF y
  <2>2. [y EXCEPT !.status = s] \in TxRecords /\ [y EXCEPT !.status = s].env = y.env
        /\ [y EXCEPT !.status = s].rivals = y.rivals /\ [y EXCEPT !.status = s].status = s
    BY <2>1 DEF TxRecords
  <2> QED BY <2>2 DEF y
<1>3. txs' = [txs EXCEPT ![i] = x]
  OBVIOUS
<1> HIDE DEF x
<1>4. txs' \in Seq(TxRecords) /\ Len(txs') = Len(txs) /\ DOMAIN txs' = DOMAIN txs /\ txs'[i] = x
      /\ \A k \in DOMAIN txs : k # i => txs'[k] = txs[k]
  BY <1>1, <1>2, <1>3
<1> QED BY <1>2, <1>4 DEF WorldStep

LEMMA QuietWorldInv ==
  ASSUME SessionInv, \/ CloseLedger \/ Store \/ \E i \in DOMAIN txs : Drop(i)
  PROVE  SessionInv'
<1>1. /\ log \in Seq(PoolEntries) /\ Len(log) \in Nat /\ sequence \in Nat /\ tip \in Nat
      /\ others \in Nat /\ indexed \in 0..Len(log) /\ noted \in 0..indexed
  BY DEF SessionInv, TypesInv
<1>2. CASE CloseLedger \/ Store
  <2>1. log' = log /\ sequence' = sequence /\ UNCHANGED <<txs, req, sess, ended>>
        /\ others' \in {others, others + 1} /\ tip' \in {tip, tip + 1}
        /\ indexed' \in 0..Len(log) /\ noted' \in 0..indexed'
    BY <1>1, <1>2 DEF CloseLedger, Store, IndexNext, ProcessNotes, chainVars
  <2>2. WorldStep
    BY <2>1, UnchangedTxs DEF SessionInv
  <2>3. LogInv' /\ ValueKept' /\ LogNotes' = LogNotes
    <3>1. \A j \in DOMAIN txs : txs'[j].status = "success" => Success(j)
      BY <2>1 DEF Success
    <3> QED BY <2>1, <2>2, <3>1, LogSame
  <2>4. SequenceInv'
    <3>1. 0 \notin DOMAIN txs /\ \A k \in DOMAIN txs : txs'[k].status = txs[k].status
      BY <2>1, TxsTyped DEF SessionInv
    <3> QED BY <2>1, <2>2, <3>1, SequenceStep
  <2> QED BY <1>1, <2>1, <2>2, <2>3, <2>4, WorldStepInv
<1>3. ASSUME NEW i \in DOMAIN txs, Drop(i) PROVE SessionInv'
  <2>1. log' = log /\ sequence' = sequence /\ others' = others /\ tip' = tip /\ indexed' = indexed /\ noted' = noted
        /\ UNCHANGED <<req, sess, ended>> /\ txs[i].status = "pending"
        /\ txs' = [txs EXCEPT ![i].status = "dropped"]
    BY <1>3 DEF Drop, Pending, chainVars
  <2>2. /\ WorldStep /\ txs'[i].status = "dropped"
        /\ \A k \in DOMAIN txs : k # i => txs'[k].status = txs[k].status
    BY <2>1, StatusFacts DEF SessionInv
  <2>3. LogInv' /\ ValueKept' /\ LogNotes' = LogNotes
    <3>1. \A j \in DOMAIN txs : txs'[j].status = "success" => Success(j)
      BY <2>2 DEF Success
    <3> QED BY <2>1, <2>2, <3>1, LogSame
  <2>4. SequenceInv'
    BY <2>1, <2>2, SequenceStep
  <2> QED BY <1>1, <2>1, <2>2, <2>3, <2>4, WorldStepInv
<1> QED BY <1>2, <1>3

\* Transactions that are not the client's: their notes have ids of their own.
LEMMA OtherTransactionInv ==
  ASSUME SessionInv, NEW S \in SUBSET NotesAt(Len(log)), NEW who \in {0 - 1, 0 - 2},
         NEW owner \in {User, "stranger"}, NEW amount \in Nat,
         OtherTransaction({x.id : x \in S}, Note(<<who, others>>, owner, amount)),
         sequence' \in {sequence, sequence + 1},
         0 = (IF owner = User THEN amount ELSE 0) - Total(S)
  PROVE  SessionInv'
<1> DEFINE out == Note(<<who, others>>, owner, amount)
           ins == {x.id : x \in S}
           e == [ins |-> ins, out |-> out, ext |-> 0]
<1>1. /\ others' = others + 1 /\ log' = Append(log, e) /\ tip' = tip + 1
      /\ UNCHANGED <<txs, indexed, noted, req, sess, ended>>
  BY DEF OtherTransaction
<1>2. /\ sequence \in Nat /\ tip \in Nat /\ others \in Nat /\ indexed \in 0..Len(log) /\ noted \in 0..indexed
  BY DEF SessionInv, TypesInv
<1>3. out \in NoteRecords /\ out.id = <<who, others>> /\ out.owner = owner /\ out.amount = amount
      /\ out.id[1] = who /\ out.id[2] = others /\ who < 0
  BY <1>2 DEF Note, NoteRecords, NoteIds
<1>4. ins \subseteq NoteIds
  <2>1. NotesAt(Len(log)) \subseteq LogNotes
    BY LogNotesTyped DEF SessionInv, NotesAt, LogNotes
  <2> QED BY <2>1, LogNotesTyped DEF SessionInv, NoteRecords
<1> HIDE DEF out, ins
<1>5. e \in PoolEntries /\ e.ins = ins /\ e.out = out /\ e.ext = 0
  BY <1>3, <1>4 DEF PoolEntries
<1> HIDE DEF e
<1>6. FreshEntry(e)
  <2>1. ASSUME NEW i \in DOMAIN log PROVE log[i].out.id # e.out.id
    <3>1. SUFFICES ASSUME log[i].out.id = out.id PROVE FALSE
      BY <1>5
    <3>2. log[i].out.id[2] < others
      BY <1>3, <3>1 DEF SessionInv, LogInv
    <3> QED BY <1>2, <1>3, <3>1, <3>2
  <2>2. e.ins = {note.id : note \in S} /\ e.ext = (IF e.out.owner = User THEN e.out.amount ELSE 0) - Total(S)
    BY <1>3, <1>5 DEF ins
  <2> QED BY <1>5, <2>1, <2>2 DEF FreshEntry
<1>7. WorldStep
  BY <1>1, UnchangedTxs DEF SessionInv
<1>8. \A k \in DOMAIN txs : txs'[k].status = txs[k].status
  BY <1>1
<1>9. /\ LogInv' /\ ValueKept' /\ LogNotes \subseteq LogNotes'
      /\ log' \in Seq(PoolEntries) /\ indexed \in 0..Len(log') /\ noted \in 0..indexed
  <2>1. others' \in {others, others + 1} /\ (e.out.id[1] < 0 => e.out.id[2] < others')
        /\ ~(e.out.id[1] > 0) /\ e.out.id[1] # 0 - 3
    BY <1>1, <1>2, <1>3, <1>5
  <2>2. \A j \in DOMAIN txs : txs'[j].status = "success" => Success(j)
    BY <1>8 DEF Success
  <2> QED BY <1>1, <1>6, <1>7, <2>1, <2>2, LogAppend
<1>10. SequenceInv'
  <2>1. 0 \notin DOMAIN txs
    BY TxsTyped DEF SessionInv
  <2> QED BY <1>7, <1>8, <2>1, SequenceStep
<1>11. sequence' \in Nat /\ tip' \in Nat /\ others' \in Nat /\ indexed' \in 0..Len(log') /\ noted' \in 0..indexed'
  BY <1>1, <1>2, <1>9
<1> QED BY <1>7, <1>9, <1>10, <1>11, WorldStepInv

LEMMA OthersInv ==
  ASSUME SessionInv, StrangerTransacts \/ \E note \in NotesAt(Len(log)) : OtherDeviceTransacts(note)
  PROVE  SessionInv'
<1>1. CASE StrangerTransacts
  <2>1. OtherTransaction({}, Note(<<0 - 1, others>>, "stranger", 0)) /\ sequence' = sequence
    BY <1>1 DEF StrangerTransacts
  <2>2. {} \in SUBSET NotesAt(Len(log)) /\ {x.id : x \in {}} = {}
    OBVIOUS
  <2>3. 0 = (IF "stranger" = User THEN 0 ELSE 0) - Total({})
    BY TotalEmpty
  <2>4. OtherTransaction({x.id : x \in {}}, Note(<<0 - 1, others>>, "stranger", 0))
    BY <2>1, <2>2
  <2> QED BY <2>1, <2>2, <2>3, <2>4, OtherTransactionInv
<1>2. ASSUME NEW note \in NotesAt(Len(log)), OtherDeviceTransacts(note)
      PROVE  SessionInv'
  <2> DEFINE a == note.amount
  <2>1. OtherTransaction({note.id}, Note(<<0 - 2, others>>, User, a)) /\ sequence' = sequence + 1
    BY <1>2 DEF OtherDeviceTransacts, NextSequence
  <2>2. note \in LogNotes
    BY LogNotesTyped DEF SessionInv, NotesAt, LogNotes
  <2>3. a \in Nat
    BY <2>2, LogNotesTyped DEF SessionInv
  <2>4. 0 = (IF User = User THEN a ELSE 0) - Total({note})
    <3>1. Total({note}) = a
      BY <2>3, TotalOne
    <3> QED BY <2>3, <3>1
  <2>5. {note} \in SUBSET NotesAt(Len(log)) /\ {x.id : x \in {note}} = {note.id}
    BY <1>2
  <2>6. OtherTransaction({x.id : x \in {note}}, Note(<<0 - 2, others>>, User, a))
    BY <2>1, <2>5
  <2> HIDE DEF a
  <2> QED BY <2>1, <2>3, <2>4, <2>5, <2>6, OtherTransactionInv
<1> QED BY <1>1, <1>2

LEMMA ApplyInv ==
  ASSUME SessionInv, NEW i \in DOMAIN txs, Apply(i)
  PROVE  SessionInv'
<1> DEFINE env == txs[i].env
           ok == Executes(env.call) /\ Authorised(env)
           st == IF ok THEN "success" ELSE "failed"
           e == env.call.step
<1>1. /\ txs[i].status = "pending" /\ env.sequence = sequence + 1
      /\ txs' = [txs EXCEPT ![i].status = st]
      /\ log' = IF ok /\ env.call.kind # "register" THEN Append(log, PoolEntry(e)) ELSE log
      /\ sequence' = sequence + 1 /\ tip' = tip + 1 /\ others' = others /\ indexed' = indexed /\ noted' = noted
      /\ UNCHANGED <<req, sess, ended>>
  BY DEF Apply, Pending, NextSequence
<1>2. /\ log \in Seq(PoolEntries) /\ Len(log) \in Nat /\ sequence \in Nat /\ tip \in Nat
      /\ others \in Nat /\ indexed \in 0..Len(log) /\ noted \in 0..indexed
  BY DEF SessionInv, TypesInv
<1>3. st \in {"success", "failed"} /\ (st = "success" <=> ok)
  OBVIOUS
<1>4. env.call = CallOf(i) /\ CallOf(i) \in Calls
  BY TxsTyped DEF SessionInv, CallOf
<1>5. ~Success(i) /\ ~Applied(i)
  BY <1>1 DEF Success, Applied
<1> HIDE DEF ok, st
<1>6. /\ WorldStep /\ txs'[i].status = st
      /\ \A k \in DOMAIN txs : k # i => txs'[k].status = txs[k].status
  BY <1>1, <1>3, StatusFacts DEF SessionInv
<1>7. SequenceInv'
  BY <1>1, <1>5, <1>6, SequenceStep
<1>8. CASE ok /\ env.call.kind # "register"
  <2>1. e \in PoolEntries /\ PoolEntry(e) = e
    <3>1. e \in PoolEntries
      BY <1>4 DEF Calls
    <3> HIDE DEF e
    <3> QED BY <3>1 DEF PoolEntries, PoolEntry
  <2>2. log' = Append(log, e)
    BY <1>1, <1>8, <2>1
  <2>3. e.ins \cap Spent(Len(log)) = {}
    BY <1>8 DEF ok, Executes
  <2>4. /\ e.out.id = <<CallOf(i).request, Num(i)>> /\ CallOf(i).request \in Nat
        /\ CallOf(i).request >= 1
    <3>1. CallOf(i).request \in 1..(Len(ended) + 1) /\ e.out.id = <<CallOf(i).request, Num(i)>>
      BY <1>4 DEF SessionInv, SentInv
    <3>2. Len(ended) \in Nat
      BY DEF SessionInv, TypesInv
    <3> QED BY <3>1, <3>2
  <2>5. ASSUME NEW k \in DOMAIN log PROVE log[k].out.id # e.out.id
    <3>1. SUFFICES ASSUME log[k].out.id = e.out.id PROVE FALSE
      OBVIOUS
    <3>2. log[k].out.id[1] > 0
      BY <2>4, <3>1
    <3>3. PICK j \in DOMAIN txs : Success(j) /\ CallOf(j).step.out.id = e.out.id
      BY <3>1, <3>2 DEF SessionInv, LogInv
    <3>4. CallOf(j).step.out.id = <<CallOf(j).request, Num(j)>>
      BY DEF SessionInv, SentInv
    <3>5. CallOf(j).request = CallOf(i).request /\ Num(j) = Num(i)
      BY <2>4, <3>3, <3>4
    <3>6. j = i
      BY <3>5 DEF SessionInv, SentInv
    <3> QED BY <1>5, <3>3, <3>6
  <2>6. FreshEntry(e)
    <3>1. Balanced(e)
      BY <1>4 DEF SessionInv, LogInv
    <3>2. PICK S \in SUBSET LogNotes :
            /\ e.ins = {note.id : note \in S}
            /\ \A note \in S : note.owner = User /\ note.amount > 0
            /\ e.ext = e.out.amount - Total(S)
      BY <3>1 DEF Balanced
    <3>3. e.out.owner = User
      BY <3>1 DEF Balanced
    <3>4. S \subseteq NotesAt(Len(log))
      <4>1. ASSUME NEW x \in S PROVE x \in NotesAt(Len(log))
        <5>1. PICK k \in DOMAIN log : x = log[k].out
          BY DEF LogNotes
        <5>2. k \in 1..Len(log)
          BY <1>2
        <5>3. x.owner = User /\ x.amount > 0 /\ x.id \notin Spent(Len(log))
          BY <2>3, <3>2
        <5> QED BY <5>1, <5>2, <5>3 DEF NotesAt
      <4> QED BY <4>1
    <3> QED BY <2>1, <2>5, <3>2, <3>3, <3>4 DEF FreshEntry
  <2>7. /\ LogInv' /\ ValueKept' /\ LogNotes \subseteq LogNotes'
        /\ log' \in Seq(PoolEntries) /\ indexed \in 0..Len(log') /\ noted \in 0..indexed
    <3>1. e.out.id[1] = CallOf(i).request /\ ~(e.out.id[1] < 0) /\ e.out.id[1] # 0 - 3
      BY <2>4
    <3>2. txs'[i].status = "success" /\ CallOf(i).kind # "register" /\ CallOf(i).step = e
      BY <1>3, <1>4, <1>6, <1>8
    <3>3. \A j \in DOMAIN txs :
             txs'[j].status = "success" /\ ~Success(j) /\ CallOf(j).kind # "register" =>
                 CallOf(j).step.out = e.out
      BY <1>6, <3>2 DEF Success
    <3> HIDE DEF e
    <3> QED BY <1>1, <1>6, <2>2, <2>6, <3>1, <3>2, <3>3, LogAppend
  <2> QED BY <1>1, <1>2, <1>6, <1>7, <2>7, WorldStepInv
<1>9. CASE ~(ok /\ env.call.kind # "register")
  <2>1. log' = log
    BY <1>1, <1>9
  <2>2. \A j \in DOMAIN txs :
             txs'[j].status = "success" /\ CallOf(j).kind # "register" => Success(j)
    BY <1>3, <1>4, <1>6, <1>9 DEF Success
  <2>3. LogInv' /\ ValueKept' /\ LogNotes' = LogNotes
    BY <1>1, <1>6, <2>1, <2>2, LogSame
  <2> QED BY <1>1, <1>2, <1>6, <1>7, <2>1, <2>3, WorldStepInv
<1> QED BY <1>8, <1>9

-----------------------------------------------------------------------------
(* The invariant.                                                          *)

\* The notes the user starts with are worth as much as was paid in for them.
LEMMA InitialValue ==
  ASSUME NEW N \in Nat
  PROVE  Total({Note(<<0, i>>, User, 1) : i \in 1..N}) = SumFunction([i \in 1..N |-> 1])
<1> DEFINE x(i) == Note(<<0, i>>, User, 1)
           U(k) == {x(i) : i \in 1..k}
           f == [i \in 1..N |-> 1]
           G == {k \in Nat : k <= N => Total(U(k)) = SumOver(f, 1..k)}
<1>1. \A i : x(i).id = <<0, i>> /\ x(i).amount = 1
  BY DEF Note
<1>2. \A i, j : x(i) = x(j) => i = j
  <2>1. ASSUME NEW i, NEW j, x(i) = x(j) PROVE i = j
    <3>1. <<0, i>> = <<0, j>>
      BY <1>1, <2>1
    <3> QED BY <3>1
  <2> QED BY <2>1
<1> HIDE DEF x
<1>3. 0 \in G
  <2>1. U(0) = {} /\ 1..0 = {}
    OBVIOUS
  <2>2. IsFiniteSet({})
    BY FS_EmptySet
  <2> HIDE DEF f, U
  <2>3. SumOver(f, {}) = 0
    BY <2>2, SumOverUnfold
  <2> QED BY <2>1, <2>3, TotalEmpty
<1>4. ASSUME NEW k \in Nat, k \in G PROVE k + 1 \in G
  <2>1. SUFFICES ASSUME k + 1 <= N PROVE Total(U(k + 1)) = SumOver(f, 1..(k + 1))
    OBVIOUS
  <2>2. Total(U(k)) = SumOver(f, 1..k)
    BY <1>4, <2>1
  <2>3. U(k + 1) = U(k) \cup {x(k + 1)} /\ x(k + 1) \notin U(k)
    <3>1. (\A i \in 1..(k + 1) : i \in 1..k \/ i = k + 1) /\ k + 1 \in 1..(k + 1)
          /\ \A i \in 1..k : i \in 1..(k + 1) /\ i # k + 1
      OBVIOUS
    <3> QED BY <1>2, <3>1
  <2>4. IsFiniteSet(U(k)) /\ \A y \in U(k) : y.amount \in Nat
    <3> DEFINE h == [i \in 1..k |-> x(i)]
    <3>1. U(k) = {h[i] : i \in 1..k}
      OBVIOUS
    <3>2. \A y \in U(k) : y.amount \in Nat
      BY <1>1
    <3> HIDE DEF h, U
    <3> QED BY <3>1, <3>2, FiniteImage
  <2>5. x(k + 1).amount = 1
    BY <1>1
  <2> DEFINE D == 1..(k + 1)
  <2>6. IsFiniteSet(D) /\ (\A i \in D : f[i] \in Int) /\ k + 1 \in D /\ f[k + 1] = 1
        /\ D \ {k + 1} = 1..k
    <3>1. IsFiniteSet(D)
      BY FS_Interval
    <3>2. \A i \in D : i \in 1..N
      BY <2>1
    <3>3. k + 1 \in D /\ D \ {k + 1} = 1..k
      OBVIOUS
    <3> QED BY <3>1, <3>2, <3>3
  <2> HIDE DEF f, U, D
  <2>7. Total(U(k) \cup {x(k + 1)}) = Total(U(k)) + x(k + 1).amount /\ Total(U(k)) \in Nat
    <3> DEFINE S == U(k)
               y == x(k + 1)
    <3>1. IsFiniteSet(S) /\ (\A z \in S : z.amount \in Nat) /\ y \notin S /\ y.amount \in Nat
      BY <2>3, <2>4, <2>5
    <3> HIDE DEF S, y
    <3>2. Total(S \cup {y}) = Total(S) + y.amount /\ Total(S) \in Nat
      BY <3>1, TotalAdd
    <3> QED BY <3>2 DEF S, y
  <2>8. SumOver(f, D) = f[k + 1] + SumOver(f, D \ {k + 1})
    BY <2>6, SumOverRemove
  <2>9. SumOver(f, D) = 1 + Total(U(k)) /\ Total(U(k + 1)) = Total(U(k)) + 1
    BY <2>2, <2>3, <2>5, <2>6, <2>7, <2>8
  <2>10. Total(U(k + 1)) = SumOver(f, D)
    BY <2>7, <2>9
  <2> QED BY <2>10 DEF D
<1> HIDE DEF G
<1>5. Nat \subseteq G
  BY <1>3, <1>4, Induct
<1>6. Total(U(N)) = SumOver(f, 1..N)
  BY <1>5 DEF G
<1>7. SumFunction(f) = SumOver(f, DOMAIN f) /\ DOMAIN f = 1..N
  <2>1. DOMAIN f = 1..N
    OBVIOUS
  <2> HIDE DEF f
  <2> QED BY <2>1, SumFunctionIsSumOver
<1> HIDE DEF f
<1>8. Total(U(N)) = SumFunction(f)
  BY <1>6, <1>7
<1> QED BY <1>8 DEF f, x

LEMMA InitInv ==
  ASSUME Init
  PROVE  SessionInv
<1> DEFINE N == InitialNotes
           x(i) == Note(<<0, i>>, User, 1)
           e(i) == [ins |-> {}, out |-> x(i), ext |-> 1]
<1>1. N \in Nat
  BY SessionAssumption
<1>2. /\ log = [i \in 1..N |-> e(i)] /\ sequence = 0 /\ tip = 1 /\ others = 0 /\ txs = <<>>
      /\ indexed = N /\ noted = N /\ req = NoRequest /\ sess = Rest /\ ended = <<>>
  BY DEF Init
<1>3. ASSUME NEW i \in 1..N
      PROVE  /\ x(i) \in NoteRecords /\ x(i).id = <<0, i>> /\ x(i).owner = User /\ x(i).amount = 1
             /\ x(i).id[1] = 0
  <2>1. i \in Nat
    BY <1>1
  <2> QED BY <2>1 DEF Note, NoteRecords, NoteIds
<1> HIDE DEF x
<1>4. ASSUME NEW i \in 1..N
      PROVE  e(i) \in PoolEntries /\ e(i).ins = {} /\ e(i).out = x(i) /\ e(i).ext = 1
  BY <1>3 DEF PoolEntries
<1> HIDE DEF e, N
<1>5. /\ log \in Seq(PoolEntries) /\ Len(log) = N /\ DOMAIN log = 1..N
      /\ \A i \in 1..N : log[i].out = x(i) /\ log[i].ins = {} /\ log[i].ext = 1
  <2>1. log = [i \in 1..N |-> log[i]] /\ \A i \in 1..N : log[i] = e(i)
    BY <1>2
  <2>2. \A i \in 1..N : log[i] \in PoolEntries
    BY <1>4, <2>1
  <2>3. log \in Seq(PoolEntries) /\ Len(log) = N /\ DOMAIN log = 1..N
    BY <1>1, <2>1, <2>2
  <2> QED BY <1>4, <2>1, <2>3
<1>6. sess.pc = "idle" /\ sess \in SessRecords /\ sess.signatures = <<>>
  BY <1>2, RestTyped
<1>7. TypesInv
  <2>1. indexed \in 0..Len(log) /\ noted \in 0..indexed /\ sequence \in Nat /\ tip \in Nat /\ others \in Nat
    BY <1>1, <1>2, <1>5
  <2>2. txs \in Seq(TxRecords)
        /\ ended \in Seq([kind : AllKinds, amount : Nat, result : {"done", "failed", "none"}])
    BY <1>2
  <2> QED BY <1>2, <1>5, <1>6, <2>1, <2>2, RestTyped DEF TypesInv, SessTypeInv
<1>8. DOMAIN txs = {} /\ DOMAIN ended = {}
  BY <1>2
<1>9. SequenceInv /\ SignInv /\ SentInv /\ RunningInv /\ DoneInv
  BY <1>6, <1>8, PcStrings DEF SequenceInv, SignInv, SentInv, RunningInv, DoneInv, Idle
<1>10. ReqInv /\ ProofInv
  BY <1>2, <1>6 DEF ReqInv, ProofInv, ProvesExistingTree, Idle
<1>11. LogInv
  <2>1. ASSUME NEW i \in 1..N, NEW j \in 1..N, log[i].out.id = log[j].out.id PROVE i = j
    <3>1. <<0, i>> = <<0, j>>
      BY <1>3, <1>5, <2>1
    <3> QED BY <3>1
  <2>2. \A i \in 1..N : ~(log[i].out.id[1] < 0) /\ ~(log[i].out.id[1] > 0) /\ log[i].ins = {}
                         /\ log[i].out.id[1] # 0 - 3
    BY <1>3, <1>5
  <2> QED BY <1>5, <1>8, <2>1, <2>2 DEF LogInv
<1>12. ValueKept
  <2>1. Spent(N) = {}
    BY <1>5 DEF Spent
  <2>2. NotesAt(Len(log)) = {x(i) : i \in 1..N}
    <3>1. \A j \in 1..N : /\ log[j].out.owner = User /\ log[j].out.amount > 0
                          /\ log[j].out.id \notin Spent(N)
      BY <1>3, <1>5, <2>1
    <3>2. NotesAt(N) = {log[i].out : i \in 1..N}
      BY <3>1 DEF NotesAt
    <3> QED BY <1>5, <3>2
  <2>3. [i \in DOMAIN log |-> log[i].ext] = [i \in 1..N |-> 1]
    BY <1>5
  <2>4. Total({x(i) : i \in 1..N}) = SumFunction([i \in 1..N |-> 1])
    BY <1>1, InitialValue DEF x
  <2> QED BY <2>2, <2>3, <2>4 DEF ValueKept
<1> QED BY <1>7, <1>9, <1>10, <1>11, <1>12 DEF SessionInv

LEMMA StutterInv ==
  ASSUME SessionInv, UNCHANGED vars
  PROVE  SessionInv'
<1>1. /\ log' = log /\ sequence' = sequence /\ tip' = tip /\ others' = others
      /\ indexed' = indexed /\ noted' = noted /\ UNCHANGED <<txs, req, sess, ended>>
  BY DEF vars, chainVars
<1>2. WorldStep
  BY <1>1, UnchangedTxs DEF SessionInv
<1>3. LogInv' /\ ValueKept' /\ LogNotes' = LogNotes
  <2>1. \A j \in DOMAIN txs : txs'[j].status = "success" => Success(j)
    BY <1>1 DEF Success
  <2> QED BY <1>1, <1>2, <2>1, LogSame
<1>4. SequenceInv'
  <2>1. 0 \notin DOMAIN txs /\ \A k \in DOMAIN txs : txs'[k].status = txs[k].status
    BY <1>1, TxsTyped DEF SessionInv
  <2> QED BY <1>1, <1>2, <2>1, SequenceStep
<1>5. /\ log' \in Seq(PoolEntries) /\ sequence' \in Nat /\ tip' \in Nat /\ others' \in Nat
      /\ indexed' \in 0..Len(log') /\ noted' \in 0..indexed'
  BY <1>1 DEF SessionInv, TypesInv
<1> QED BY <1>2, <1>3, <1>4, <1>5, WorldStepInv

LEMMA NextInv ==
  ASSUME SessionInv, [Next]_vars
  PROVE  SessionInv'
<1>1. CASE Requests
  BY <1>1, RequestsInv
<1>2. CASE Client
  <2>1. CASE ReadPoolState
    BY <2>1, ReadPoolStateInv
  <2>2. CASE ReadPoolRoot
    BY <2>2, ReadPoolRootInv
  <2>3. CASE GetNonMembershipProof \/ SyncWait \/ PingProver \/ Prove
    BY <2>3, SimpleStepsInv
  <2>4. CASE BuildTransactParams
    BY <2>4, BuildTransactParamsInv
  <2>5. CASE RegisterAtAsp \/ WorkerFails \/ RpcFails \/ SendRefused
    BY <2>5, FailuresInv
  <2>6. CASE ReadSequence
    BY <2>6, ReadSequenceInv
  <2>7. CASE Simulate
    BY <2>7, SimulateInv
  <2>8. CASE \E status \in {"pending", "dropped"} : SendAccepted(status)
    BY <2>8, SendAcceptedInv
  <2>9. CASE SendUnanswered
    BY <2>9, SendUnansweredInv
  <2>10. CASE ConfirmPoll
    BY <2>10, ConfirmPollInv
  <2> QED BY <1>2, <2>1, <2>2, <2>3, <2>4, <2>5, <2>6, <2>7, <2>8, <2>9, <2>10 DEF Client
<1>3. CASE WalletAnswers
  <2>1. CASE SignAuthEntry
    BY <2>1, SignAuthEntryInv
  <2>2. CASE SignTx
    BY <2>2, SignTxInv
  <2>3. CASE WalletRejects
    BY <2>3, FailuresInv
  <2>4. CASE \E key \in {User, "stranger"} : SignLocally(key)
    BY <2>4, SignLocallyInv
  <2> QED BY <1>3, <2>1, <2>2, <2>3, <2>4 DEF WalletAnswers
<1>4. CASE World \/ Store
  <2>1. CASE \E i \in DOMAIN txs : Apply(i)
    BY <2>1, ApplyInv
  <2>2. CASE CloseLedger \/ Store \/ \E i \in DOMAIN txs : Drop(i)
    BY <2>2, QuietWorldInv
  <2>3. CASE StrangerTransacts \/ \E note \in NotesAt(Len(log)) : OtherDeviceTransacts(note)
    BY <2>3, OthersInv
  <2> QED BY <1>4, <2>1, <2>2, <2>3 DEF World
<1>5. CASE Restart
  BY <1>5, FailuresInv
<1>6. CASE UNCHANGED vars
  BY <1>6, StutterInv
<1> QED BY <1>1, <1>2, <1>3, <1>4, <1>5, <1>6 DEF Next

LEMMA SessionInvariant == Spec => []SessionInv
<1>1. Init => SessionInv
  BY InitInv
<1>2. SessionInv /\ [Next]_vars => SessionInv'
  BY NextInv
<1> QED BY <1>1, <1>2, PTL DEF Spec

-----------------------------------------------------------------------------
(* Theorems.                                                               *)

LEMMA RetryFacts == SessionInv => RetryPaysOnce
<1> SUFFICES ASSUME SessionInv, NEW i \in DOMAIN txs, NEW j \in DOMAIN txs, j \in txs[i].rivals,
                    txs[i].status = "success", txs[j].status = "success"
             PROVE  FALSE
  BY DEF RetryPaysOnce
<1>1. Behind(txs[i].rivals, txs[i].env.sequence) /\ j < i
  BY DEF SessionInv, SequenceInv
<1>2. txs[j].env.sequence = txs[i].env.sequence
  <2>1. txs[i].env.sequence \in Nat /\ txs[j].env.sequence \in Nat
    BY TxsTyped DEF SessionInv
  <2>2. txs[j].env.sequence <= txs[i].env.sequence /\ txs[j].env.sequence >= txs[i].env.sequence
    BY <1>1 DEF Behind
  <2> QED BY <2>1, <2>2
<1>3. i = j
  BY <1>2 DEF SessionInv, SequenceInv, Applied
<1>4. i \in Nat
  BY TxsTyped DEF SessionInv
<1> QED BY <1>1, <1>3, <1>4

\* A request that is repeated while the outcome of an earlier one is open
\* never lands together with it, however late the network applies either: both
\* carry the account's next sequence number at a time when the earlier one had
\* not been applied (tx_prepare.rs next_sequence).
THEOREM RetriesPayOnce == Spec => []RetryPaysOnce
BY SessionInvariant, RetryFacts, PTL

\* What is sent was proved for a tree the pool had, and carries the signatures
\* of the user on the envelope and on every entry that asks for one, whether
\* the wallet or a local key signs (sign.rs, signer.rs, transact.rs).
THEOREM SentTransactionsAreSound == Spec => []SentIsSound
<1>1. SessionInv => SentIsSound
  BY DEF SessionInv, ProofInv, SignInv, Signed, SentIsSound, FullyAuthorised
<1> QED BY <1>1, SessionInvariant, PTL

LEMMA PaymentFacts ==
  ASSUME SessionInv, NEW n \in DOMAIN ended
  PROVE  /\ IsFiniteSet(Payments(n)) /\ Cardinality(Payments(n)) <= 1
         /\ ended[n].result = "done" => Cardinality(Payments(n)) = 1
         /\ \A i \in Payments(n) :
              /\ CallOf(i).step.ext \in {ended[n].amount, 0 - ended[n].amount}
              /\ Cardinality(Landed(n)) = Num(i)
<1> DEFINE P == Payments(n)
           L == Landed(n)
<1>1. \A i : i \in L <=> i \in DOMAIN txs /\ Success(i) /\ CallOf(i).request = n
  BY DEF Landed, Success, CallOf
<1>2. \A i : i \in P <=> i \in L /\ CallOf(i).last
  BY DEF Payments, CallOf
<1>3. \A i \in DOMAIN txs : Num(i) \in Nat
  BY TxsTyped DEF SessionInv, Num, Calls, PoolEntries, NoteRecords, NoteIds
<1>4. \A i, j \in DOMAIN txs : CallOf(i).request = CallOf(j).request =>
        (Num(i) = Num(j) => i = j) /\ (CallOf(i).last => Num(j) <= Num(i))
  BY DEF SessionInv, SentInv
<1> HIDE DEF P, L
<1>5. ASSUME NEW i \in P, NEW j \in P PROVE i = j
  <2>1. i \in DOMAIN txs /\ j \in DOMAIN txs /\ CallOf(i).request = CallOf(j).request
        /\ CallOf(i).last /\ CallOf(j).last
    BY <1>1, <1>2
  <2>2. Num(i) <= Num(j) /\ Num(j) <= Num(i) /\ Num(i) \in Nat /\ Num(j) \in Nat
    BY <1>3, <1>4, <2>1
  <2>3. Num(i) = Num(j)
    BY <2>2
  <2> QED BY <1>4, <2>1, <2>3
<1>6. /\ IsFiniteSet(P) /\ Cardinality(P) <= 1 /\ (P # {} => Cardinality(P) = 1)
  <2>1. CASE P = {}
    BY <2>1, FS_EmptySet
  <2>2. CASE P # {}
    <3>1. PICK i \in P : TRUE
      BY <2>2
    <3>2. P = {i}
      BY <1>5, <3>1
    <3>3. IsFiniteSet({i}) /\ Cardinality({i}) = 1
      BY FS_Singleton
    <3> QED BY <3>2, <3>3
  <2> QED BY <2>1, <2>2
<1>7. ended[n].result = "done" => P # {}
  BY <1>1, <1>2 DEF SessionInv, DoneInv
<1>8. ASSUME NEW i \in P
      PROVE  /\ CallOf(i).step.ext \in {ended[n].amount, 0 - ended[n].amount}
             /\ Cardinality(L) = Num(i)
  <2>1. i \in DOMAIN txs /\ Success(i) /\ CallOf(i).request = n /\ CallOf(i).last
    BY <1>1, <1>2
  <2>2. CallOf(i).step.ext \in {ended[n].amount, 0 - ended[n].amount}
    <3>1. Asked(n) = ended[n].amount
      BY DEF Asked, AskedIn
    <3> QED BY <2>1, <3>1 DEF SessionInv, SentInv
  <2> DEFINE s == Num(i)
             h == [k \in L |-> Num(k)]
             T == 1..s
  <2>3. s \in Nat /\ s >= 1
    BY <1>3, <2>1 DEF SessionInv, SentInv
  <2>4. ASSUME NEW k \in L PROVE h[k] \in T /\ h[k] = Num(k)
    <3>1. k \in DOMAIN txs /\ CallOf(k).request = n
      BY <1>1
    <3>2. Num(k) \in Nat /\ Num(k) >= 1 /\ Num(k) <= s
      BY <1>3, <1>4, <2>1, <3>1 DEF SessionInv, SentInv
    <3> QED BY <2>3, <3>2
  <2>5. \A k, l \in L : h[k] = h[l] => k = l
    BY <1>1, <1>4, <2>4
  <2>6. ASSUME NEW t \in T PROVE \E k \in L : h[k] = t
    <3>1. CASE t = s
      BY <1>1, <2>1, <2>4, <3>1
    <3>2. CASE t # s
      <4>1. t \in 1..(s - 1)
        BY <2>3, <3>2
      <4>2. HasLanded(n, t)
        BY <2>1, <4>1 DEF SessionInv, SentInv
      <4>3. PICK k \in DOMAIN txs : CallOf(k).request = n /\ Num(k) = t /\ Success(k)
        BY <4>2 DEF HasLanded
      <4> QED BY <1>1, <2>4, <4>3
    <3> QED BY <3>1, <3>2
  <2>7. h \in Bijection(L, T)
    <3>1. h \in [L -> T]
      BY <2>4
    <3> HIDE DEF h, T
    <3> QED BY <2>5, <2>6, <3>1 DEF Bijection, Injection, Surjection, IsInjective
  <2>8. IsFiniteSet(T) /\ Cardinality(T) = s
    BY <2>3, FS_Interval
  <2>9. IsFiniteSet(L)
    <3>1. L \subseteq DOMAIN txs
      BY <1>1
    <3>2. IsFiniteSet(DOMAIN txs)
      BY TxsTyped, FS_Interval DEF SessionInv
    <3> QED BY <3>1, <3>2, FS_Subset
  <2> HIDE DEF h, T, s
  <2>10. Cardinality(L) = Cardinality(T)
    <3>1. ExistsBijection(L, T)
      BY <2>7 DEF ExistsBijection
    <3> QED BY <2>8, <2>9, <3>1, FS_Bijection
  <2> QED BY <2>2, <2>8, <2>10 DEF s
<1> QED BY <1>6, <1>7, <1>8 DEF P, L

\* A request reported as done was paid exactly once and in full, after every
\* merge before it; and whatever fails, is retried or lands late, the user's
\* notes are worth what was paid in less what was paid out (execute_plan,
\* execute_transact, submit_tx).
THEOREM PaymentsAreKept == Spec => []PaymentsKept
<1>1. SessionInv => PaymentsKept
  <2> SUFFICES ASSUME SessionInv PROVE DoneIsPaid
    BY DEF SessionInv, PaymentsKept
  <2>1. ASSUME NEW n \in DOMAIN ended
        PROVE  /\ Cardinality(Payments(n)) <= 1
               /\ ended[n].result = "done" => Cardinality(Payments(n)) = 1
               /\ \A i \in Payments(n) :
                    /\ txs[i].env.call.step.ext \in {ended[n].amount, 0 - ended[n].amount}
                    /\ Cardinality(Landed(n)) = txs[i].env.call.step.out.id[2]
    BY PaymentFacts DEF CallOf, Num
  <2> QED BY <2>1, Zenon DEF DoneIsPaid
<1> QED BY <1>1, SessionInvariant, PTL
=============================================================================
