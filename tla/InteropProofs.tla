---------------------------- MODULE InteropProofs ----------------------------
(***************************************************************************)
(* Why SuccessIsShared and NobodyIsAccused hold for every pair of ends.    *)
(*                                                                         *)
(* What the sender says is a walk along a line of points; what is on its   *)
(* way to the receiver leads from where the receiver stands to where the   *)
(* sender stands.  Operators on plain values say which labels of the two   *)
(* ends and which messages go together (Dialogue); lemmas about them say   *)
(* what one step of an end does to it; and every action is such a step.    *)
(***************************************************************************)
EXTENDS Interop, TransferProofs

-----------------------------------------------------------------------------
(* Points and what leads from one to another.                              *)

\* Points before n units of the file: -4 before hello, -3 before the
\* manifest, -2 before the reply, -1 before a file; and those at its end:
Past     == -5   \* after file-end
Finished == -6   \* after done
Broken   == -7   \* after a cancel

\* Point r comes after point p.  After a cancel there may be another.
Later(p, r) ==
  /\ p # Finished
  /\ \/ r = Broken
     \/ /\ p # Broken
        /\ r = Finished \/ (p # Past /\ (r = Past \/ (r >= -4 /\ p < r)))

\* Message m leads from p to r, when c is the file being sent, W are the
\* files still wanted, and a length of c must be in L.
Hop(c, W, L, p, m, r) ==
  \/ p = -4 /\ m = Hello(Version) /\ r = -3
  \/ p = -3 /\ m = Manifest(Metas) /\ r = -2
  \/ p = -1 /\ IsNext(c, W) /\ m = FileStart(c) /\ r = 0
  \/ p = -1 /\ W = {} /\ m = Done /\ r = Finished
  \/ p \in Nat /\ r \in L /\ p < r /\ m = Chunk(Slice(c, p, r - p))
  \/ p = Size[c] /\ m = FileEnd(c, FileData(c, p)) /\ r = Past
  \/ p # Finished /\ m = Cancel /\ r = Broken

\* The messages of Q lead from p to q.
Trail(c, W, L, p, q, Q) ==
  \E w \in [0..Len(Q) -> Int] :
    /\ w[0] = p /\ w[Len(Q)] = q
    /\ \A k \in 1..Len(Q) : Hop(c, W, L, w[k-1], Q[k], w[k])
    /\ \A i, j \in 0..Len(Q) : i < j => Later(w[i], w[j])

-----------------------------------------------------------------------------
(* Labels.                                                                 *)

Stopped   == Ended \cup {"b-error", "b-over"}
Unmet     == {"init", "hello", "waitHello", "b-reply"}
Opening   == {"init", "hello", "waitHello", "manifest", "waitReply", "b-reply"}
Replying  == {"waitReply", "b-reply"}
Nexting   == {"nextFile", "b-next"}
InFile    == {"open", "loop", "read", "write", "fileEnd", "b-loop", "b-low", "b-read"}
Acking    == {"waitAck", "b-ack"}
Meeting   == {"init", "hello", "waitHello", "waitManifest", "b-manifest", "decide"}
Starting  == {"waitStart", "b-start"}
Chunking  == {"chunks", "b-chunks"}
Finishing == {"waitDone", "b-done"}

JsiSender       == Greeting \cup Filing \cup {"manifest", "waitReply", "nextFile", "waitAck"} \cup Ended
BrowserSender   == {"init", "b-reply", "b-next", "b-loop", "b-low", "b-read", "b-ack",
                    "b-error", "b-over", "closed"}
JsiReceiver     == Greeting \cup {"waitManifest", "decide", "waitStart", "chunks", "waitDone"} \cup Ended
BrowserReceiver == {"init", "b-manifest", "b-start", "b-chunks", "b-done",
                    "b-error", "b-over", "closed"}

\* Where a sender at label l stands that has sent n units, and where a
\* receiver at label k may stand that has u units.
SendAt(l, n) ==
  CASE l \in {"init", "hello"}         -> -4
    [] l \in {"waitHello", "manifest"} -> -3
    [] l \in Replying -> -2
    [] l \in Nexting  -> -1
    [] l \in Acking   -> Past
    [] OTHER          -> n
ReceiveAt(k, u) ==
  CASE k \in Greeting     -> {-4}
    [] k = "waitManifest" -> {-3}
    [] k = "b-manifest"   -> {-4, -3}
    [] k = "decide"       -> {-2}
    [] k \in Chunking     -> {u}
    [] OTHER              -> {-1}

-----------------------------------------------------------------------------
(* What goes together while both ends run.                                 *)

\* Whether the receiver's hello is on its way, B, to a sender at label l.
Hellos(l, k, B) ==
  \/ k \in {"init", "hello"} /\ B = <<>> /\ l \in Unmet
  \/ k \notin {"init", "hello"} /\ B = <<Hello(Version)>> /\ l \in Unmet
  \/ k \notin {"init", "hello"} /\ B = <<>> /\ l \in {"manifest"} \cup Replying

Between(l, k, F, n, u, c, W, L) ==
  \E p \in ReceiveAt(k, u) : Trail(c, W, L, p, SendAt(l, n), F)

\* The sender is at label l, has sent n units of c and has T to do; the
\* receiver is at k, has u units and wants W; F is on its way to the
\* receiver and B to the sender.
Opened(l, k, F, B, n, u, c, W, L) ==
  l \in Opening /\ k \in Meeting /\ Hellos(l, k, B) /\ Between(l, k, F, n, u, c, W, L)
Answered(l, k, F, B, W) ==
  /\ l \in Replying /\ k \in Starting /\ F = <<>>
  /\ \E ids \in SUBSET Files :
       /\ W = ResolveAccept(ids, NumFiles)
       /\ B = <<Accept(ids)>> \/ (l = "b-reply" /\ B = <<Hello(Version), Accept(ids)>>)
Filed(l, k, F, B, n, u, c, T, W, L) ==
  /\ l \in Nexting \cup InFile \cup Acking /\ k \in Starting \cup Chunking \cup Finishing
  /\ B = <<>> /\ W = T /\ Between(l, k, F, n, u, c, W, L)
Confirmed(l, k, F, B, c, T, W) ==
  /\ l \in Acking /\ k \in Starting \cup Finishing
  /\ F = <<>> /\ B = <<FileAck(c, "ok")>> /\ W = T \ {c}

Turn(l, k, F, B, n, u, c, T, W, L) ==
  \/ Opened(l, k, F, B, n, u, c, W, L)
  \/ Answered(l, k, F, B, W)
  \/ Filed(l, k, F, B, n, u, c, T, W, L)
  \/ Confirmed(l, k, F, B, c, T, W)

-----------------------------------------------------------------------------
(* What is still heard of an end that has stopped.                         *)

\* Only messages of Z; or one of M before them.
Rest(Z, Q)   == \A i \in 1..Len(Q) : Q[i] \in Z
One(Z, M, Q) == Rest(Z, Q) \/ (Q # <<>> /\ Head(Q) \in M /\ Rest(Z, Tail(Q)))

Replies == {Reject} \cup {Accept(ids) : ids \in SUBSET Files}

Echo(l, c, Z, B) ==
  CASE l \in Greeting    -> One(Z, {Hello(Version)}, B)
    [] l = "waitReply"   -> One(Z, Replies, B)
    [] l = "b-reply"     -> \/ One(Z, Replies, B)
                            \/ B # <<>> /\ Head(B) = Hello(Version) /\ One(Z, Replies, Tail(B))
    [] l \in Acking      -> One(Z, {FileAck(c, "ok")}, B)
    [] OTHER             -> Rest(Z, B)

\* e is the outcome of the sender.
Outstanding(l, k, e, F, u, c, W, L) ==
  \E p \in ReceiveAt(k, u), q \in Int :
    /\ Trail(c, W, L, p, q, F)
    /\ q = Finished => e = "nil"
    /\ q = Broken => e \notin {"none", "nil"} \/ l = "closed"

Dialogue(l, k, e, F, B, n, u, c, T, W, L, Z) ==
  /\ l \notin Stopped /\ k \notin Stopped => Turn(l, k, F, B, n, u, c, T, W, L)
  /\ l \notin Stopped /\ k \in Stopped => Echo(l, c, Z, B)
  /\ l \in Stopped /\ k \notin Stopped => Outstanding(l, k, e, F, u, c, W, L)

-----------------------------------------------------------------------------
(* The invariant.                                                          *)

Lives(s) == pc[s] \notin Stopped
Failed(s) == err[s] \notin {"none", "nil"}

Part      == IF Browser("rcv") THEN part ELSE dir[dest]
Units     == IF pc["rcv"] \in Chunking THEN Len(Part) ELSE 0
Changed   == \E id \in Files : disk[id] # Size[id]
Lengths   == IF Changed THEN Nat ELSE 0..Size[cur]
Farewells == IF Changed THEN {Cancel, ErrorMsg("protocol")} ELSE {Cancel}

Place(s) == IF s = "snd" THEN IF Browser(s) THEN BrowserSender ELSE JsiSender
                         ELSE IF Browser(s) THEN BrowserReceiver ELSE JsiReceiver
Placed == \A s \in Side : pc[s] \in Place(s)

Basis ==
  /\ Lines /\ \A s \in Side : pending[s] = <<>>
  /\ kind \in [Side -> {"jsi", "browser"}]
  /\ pc \in [Side -> Labels \cup Waits \cup Others]
  /\ err \in [Side -> Errors \cup {"left"}]
  /\ Link
  /\ accepted \in SUBSET Files /\ todo \in SUBSET accepted
  /\ cur \in Files /\ sent \in Nat /\ buf \in Nat /\ disk \in [Files -> Nat]
  /\ want \in SUBSET Files
  /\ dest \in Paths \cup {NoPath} /\ dir \in [Paths -> Content \cup {NoFile}]
  /\ part \in Content

Links ==
  \A s \in Side :
    /\ pump[s] = "off" => ~Lives(s)
    /\ chan[s] # "open" => At(s, "closed") \/ At(Peer(s), "closed")
    /\ chan[s] = "hook" => wire[s] = <<>> /\ At(Peer(s), "closed")
    /\ closed[s] => chan[s] = "closed"

Talk == Dialogue(pc["snd"], pc["rcv"], err["snd"], Coming("rcv"), Coming("snd"), sent,
                 Units, cur, todo, want, Lengths, Farewells)

SenderHolds ==
  /\ At("snd", "write") => buf # 0 /\ sent + buf \in Lengths
  /\ At("snd", "fileEnd") => sent = Size[cur]
  /\ err["snd"] = "nil" => todo = {}

ReceiverHolds ==
  /\ pc["rcv"] \in {"decide"} \cup Starting \cup Chunking \cup Finishing => meta = ById(Metas)
  /\ pc["rcv"] \in Starting \cup Chunking => want # {}
  /\ pc["rcv"] \in Finishing => want = {}
  /\ pc["rcv"] \in Chunking => /\ IsNext(cur, want)
                               /\ Part \in Content /\ Part = FileData(cur, Len(Part))
  /\ At("rcv", "chunks") => dest \in Paths /\ \A id \in SavedIds : saved[id] # dest

Lost == Browser("rcv") /\ Failed("rcv")
Stores ==
  /\ \A id \in SavedIds : /\ id \in Files /\ saved[id] \in Paths
                          /\ dir[saved[id]] = FileData(id, Size[id])
  /\ \A id \in DOMAIN results : id \in Files /\ results[id] = FileData(id, Size[id])
  /\ Lost \/ \A id \in Acked : Held(id)
  /\ Lives("snd") /\ Coming("snd") # <<>> /\ Head(Coming("snd")) = FileAck(cur, "ok")
       => Lost \/ Held(cur)

Verdicts ==
  /\ \A s \in Side : Lives(s) <=> err[s] = "none"
  /\ \A s \in Side : At(s, "failed") => Failed(s)
  /\ err["rcv"] = "nil" => err["snd"] = "nil"
  /\ \A s \in Side : Browser(s) /\ Failed(s) /\ err[s] \notin {"left", "local"}
                       => Failed(Peer(s)) \/ At(Peer(s), "closed")
  /\ Browser("rcv") => err["rcv"] # "local"
  /\ \A s \in Side :
       /\ err[s] \notin {"version", "hash-mismatch"}
       /\ ~Browser(s) /\ err[s] \in {"protocol", "peer-error"} => Changed

Interlock == Basis /\ Placed /\ Links /\ Talk /\ SenderHolds /\ ReceiverHolds /\ Stores /\ Verdicts

-----------------------------------------------------------------------------
(* Trails.                                                                 *)

LEMMA LaterTransitive ==
  \A p, q, r \in Int : Later(p, q) /\ Later(q, r) => Later(p, r)
BY DEF Later, Past, Finished, Broken

LEMMA HopLater ==
  ASSUME NEW c \in Files, NEW W, NEW L, L \subseteq Nat, NEW p \in Int, NEW m, NEW r,
         Hop(c, W, L, p, m, r)
  PROVE  r \in Int /\ Later(p, r)
<1>1. Size[c] \in Nat
  BY SizesAreNat
<1>2. \/ p = -4 /\ r = -3
      \/ p = -3 /\ r = -2
      \/ p = -1 /\ (r = 0 \/ r = Finished)
      \/ p \in Nat /\ r \in Nat /\ p < r
      \/ p = Size[c] /\ r = Past
      \/ p # Finished /\ r = Broken
  BY DEF Hop
<1>3. QED
  BY <1>1, <1>2 DEF Later, Past, Finished, Broken

LEMMA TrailEmpty ==
  ASSUME NEW c, NEW W, NEW L, NEW p \in Int, NEW q \in Int
  PROVE  Trail(c, W, L, p, q, <<>>) <=> p = q
<1>1. Len(<<>>) = 0
  BY EmptySeq
<1>2. ASSUME p = q PROVE Trail(c, W, L, p, q, <<>>)
  <2> DEFINE w == [k \in 0..0 |-> p]
  <2>1. w \in [0..Len(<<>>) -> Int] /\ w[0] = p /\ w[Len(<<>>)] = q
    BY <1>1, <1>2
  <2>2. 1..Len(<<>>) = {} /\ \A i, j \in 0..Len(<<>>) : ~(i < j)
    BY <1>1
  <2>3. QED
    BY <2>1, <2>2 DEF Trail
<1>3. ASSUME Trail(c, W, L, p, q, <<>>) PROVE p = q
  BY <1>1, <1>3 DEF Trail
<1>4. QED
  BY <1>2, <1>3

LEMMA TrailOrder ==
  ASSUME NEW c, NEW W, NEW L, NEW p \in Int, NEW q \in Int, NEW Q \in Seq(Message),
         Trail(c, W, L, p, q, Q)
  PROVE  (Q = <<>> /\ p = q) \/ (Q # <<>> /\ Later(p, q))
<1>1. Len(Q) \in Nat /\ (Len(Q) = 0 <=> Q = <<>>)
  BY LenProperties, EmptySeq
<1>2. PICK w \in [0..Len(Q) -> Int] :
        /\ w[0] = p /\ w[Len(Q)] = q
        /\ \A i, j \in 0..Len(Q) : i < j => Later(w[i], w[j])
  BY DEF Trail
<1>3. CASE Len(Q) = 0
  BY <1>1, <1>2, <1>3
<1>4. CASE Len(Q) > 0
  BY <1>1, <1>2, <1>4
<1>5. QED
  BY <1>1, <1>3, <1>4

LEMMA TrailOne ==
  ASSUME NEW c \in Files, NEW W, NEW L, L \subseteq Nat, NEW p \in Int, NEW m \in Message,
         NEW r, Hop(c, W, L, p, m, r)
  PROVE  r \in Int /\ Trail(c, W, L, p, r, <<m>>)
<1>1. r \in Int /\ Later(p, r)
  BY HopLater
<1> DEFINE Q == <<m>>
           w == [k \in 0..1 |-> IF k = 0 THEN p ELSE r]
<1>2. Len(Q) = 1 /\ Q[1] = m
  OBVIOUS
<1>3. w \in [0..1 -> Int] /\ w[0] = p /\ w[1] = r
  BY <1>1
<1> HIDE DEF Q, w
<1>4. \A k \in 1..1 : Hop(c, W, L, w[k-1], Q[k], w[k])
  <2>1. 1 - 1 = 0 /\ 1..1 = {1}
    OBVIOUS
  <2>2. Hop(c, W, L, w[1-1], Q[1], w[1])
    BY <1>2, <1>3, <2>1
  <2>3. QED
    BY <2>1, <2>2
<1>5. \A i, j \in 0..1 : i < j => Later(w[i], w[j])
  <2>1. \A i, j \in 0..1 : i < j => i = 0 /\ j = 1
    OBVIOUS
  <2>2. QED
    BY <1>1, <1>3, <2>1
<1>6. Trail(c, W, L, p, r, Q)
  BY <1>2, <1>3, <1>4, <1>5, Zenon DEF Trail
<1>7. QED
  BY <1>1, <1>6 DEF Q

LEMMA TrailConcat ==
  ASSUME NEW c, NEW W, NEW L, NEW p \in Int, NEW q \in Int, NEW r \in Int,
         NEW P \in Seq(Message), NEW Q \in Seq(Message),
         Trail(c, W, L, p, q, P), Trail(c, W, L, q, r, Q)
  PROVE  Trail(c, W, L, p, r, P \o Q)
<1> DEFINE a == Len(P)
           b == Len(Q)
           A == P \o Q
<1>1. a \in Nat /\ b \in Nat
  BY LenProperties
<1>2. /\ Len(A) = a + b
      /\ \A k \in 1..a+b : A[k] = IF k <= a THEN P[k] ELSE Q[k - a]
  BY ConcatProperties
<1>3. PICK v \in [0..a -> Int] :
        /\ v[0] = p /\ v[a] = q
        /\ \A k \in 1..a : Hop(c, W, L, v[k-1], P[k], v[k])
        /\ \A i, j \in 0..a : i < j => Later(v[i], v[j])
  BY DEF Trail
<1>4. PICK u \in [0..b -> Int] :
        /\ u[0] = q /\ u[b] = r
        /\ \A k \in 1..b : Hop(c, W, L, u[k-1], Q[k], u[k])
        /\ \A i, j \in 0..b : i < j => Later(u[i], u[j])
  BY DEF Trail
<1> DEFINE w == [k \in 0..a+b |-> IF k <= a THEN v[k] ELSE u[k - a]]
<1>5. w \in [0..a+b -> Int]
  BY <1>1, <1>3, <1>4
<1>6. /\ \A k \in 0..a : w[k] = v[k]
      /\ \A k \in a..a+b : k - a \in 0..b /\ w[k] = u[k - a]
  BY <1>1, <1>3, <1>4
<1> HIDE DEF w, a, b, A
<1>7. w[0] = p /\ w[a+b] = r
  <2>1. 0 \in 0..a /\ a + b \in a..a+b /\ (a + b) - a = b
    BY <1>1
  <2>2. QED
    BY <1>3, <1>4, <1>6, <2>1
<1>8. ASSUME NEW k \in 1..a+b PROVE Hop(c, W, L, w[k-1], A[k], w[k])
  <2>1. CASE k <= a
    <3>1. k \in 1..a /\ k - 1 \in 0..a /\ k \in 0..a
      BY <1>1, <2>1
    <3>2. w[k-1] = v[k-1] /\ w[k] = v[k] /\ A[k] = P[k]
      BY <1>2, <1>6, <2>1, <3>1
    <3>3. QED
      BY <1>3, <3>1, <3>2
  <2>2. CASE ~(k <= a)
    <3>1. k - a \in 1..b /\ k - 1 \in a..a+b /\ k \in a..a+b /\ (k - 1) - a = (k - a) - 1
      BY <1>1, <2>2
    <3>2. w[k-1] = u[(k - a) - 1] /\ w[k] = u[k - a] /\ A[k] = Q[k - a]
      BY <1>2, <1>6, <2>2, <3>1
    <3>3. Hop(c, W, L, u[(k - a) - 1], Q[k - a], u[k - a])
      BY <1>4, <3>1
    <3>4. QED
      BY <3>2, <3>3
  <2>3. QED
    BY <2>1, <2>2
<1>9. ASSUME NEW i \in 0..a+b, NEW j \in 0..a+b, i < j PROVE Later(w[i], w[j])
  <2>1. CASE j <= a
    <3>1. i \in 0..a /\ j \in 0..a
      BY <1>1, <1>9, <2>1
    <3>2. QED
      BY <1>3, <1>6, <1>9, <3>1
  <2>2. CASE a <= i
    <3>1. i \in a..a+b /\ j \in a..a+b /\ i - a < j - a
      BY <1>1, <1>9, <2>2
    <3>2. QED
      BY <1>4, <1>6, <3>1
  <2>3. CASE i < a /\ a < j
    <3>1. i \in 0..a /\ a \in 0..a /\ j \in a..a+b /\ 0 \in 0..b /\ 0 < j - a
      BY <1>1, <1>9, <2>3
    <3>2. Later(v[i], q) /\ w[i] = v[i]
      BY <1>3, <1>6, <2>3, <3>1
    <3>3. Later(q, u[j - a]) /\ w[j] = u[j - a] /\ j - a \in 0..b
      BY <1>4, <1>6, <3>1
    <3>4. v[i] \in Int /\ u[j - a] \in Int
      BY <1>3, <1>4, <3>1, <3>3
    <3>5. QED
      BY <3>2, <3>3, <3>4, LaterTransitive
  <2>4. QED
    BY <1>1, <2>1, <2>2, <2>3
<1>10. QED
  BY <1>2, <1>5, <1>7, <1>8, <1>9, Zenon DEF Trail, A

LEMMA TrailAppend ==
  ASSUME NEW c \in Files, NEW W, NEW L, L \subseteq Nat, NEW p \in Int, NEW q \in Int,
         NEW Q \in Seq(Message), NEW m \in Message, NEW r,
         Trail(c, W, L, p, q, Q), Hop(c, W, L, q, m, r)
  PROVE  r \in Int /\ Trail(c, W, L, p, r, Append(Q, m))
<1>1. r \in Int /\ Trail(c, W, L, q, r, <<m>>)
  BY TrailOne
<1>2. <<m>> \in Seq(Message) /\ Append(Q, m) = Q \o <<m>>
  BY AppendIsConcat
<1>3. Trail(c, W, L, p, r, Q \o <<m>>)
  BY <1>1, <1>2, TrailConcat
<1>4. QED
  BY <1>1, <1>2, <1>3

LEMMA TrailHead ==
  ASSUME NEW c, NEW W, NEW L, NEW p \in Int, NEW q \in Int,
         NEW Q \in Seq(Message), Q # <<>>, Trail(c, W, L, p, q, Q)
  PROVE  /\ Head(Q) \in Message /\ Tail(Q) \in Seq(Message)
         /\ \E r \in Int : Hop(c, W, L, p, Head(Q), r) /\ Trail(c, W, L, r, q, Tail(Q))
<1> DEFINE n == Len(Q) - 1
           T == Tail(Q)
<1>1. Len(Q) \in Nat \ {0} /\ n \in Nat
  BY LenProperties, EmptySeq
<1>2. /\ Head(Q) = Q[1] /\ Q[1] \in Message /\ T \in Seq(Message) /\ Len(T) = n
      /\ \A k \in 1..n : T[k] = Q[k + 1]
  BY <1>1, HeadTailProperties, ElementOfSeq
<1>3. PICK w \in [0..n+1 -> Int] :
        /\ w[0] = p /\ w[n+1] = q
        /\ \A k \in 1..n+1 : Hop(c, W, L, w[k-1], Q[k], w[k])
        /\ \A i, j \in 0..n+1 : i < j => Later(w[i], w[j])
  <2>1. Len(Q) = n + 1
    BY <1>1
  <2> QED BY <2>1, Zenon DEF Trail
<1> DEFINE v == [k \in 0..n |-> w[k+1]]
<1>4. v \in [0..n -> Int] /\ v[0] = w[1] /\ v[n] = q /\ \A k \in 0..n : v[k] = w[k+1]
  <2>1. 0 \in 0..n /\ n \in 0..n /\ 0 + 1 = 1 /\ \A k \in 0..n : k + 1 \in 0..n+1
    BY <1>1
  <2>2. w \in [0..n+1 -> Int] /\ w[n+1] = q
    BY <1>3
  <2>3. \A k \in 0..n : v[k] = w[k+1]
    OBVIOUS
  <2>4. v \in [0..n -> Int]
    BY <2>1, <2>2
  <2>5. v[0] = w[1] /\ v[n] = q
    BY <2>1, <2>2, <2>3
  <2> QED BY <2>3, <2>4, <2>5
<1> HIDE DEF v, n, T
<1>5. ASSUME NEW k \in 1..n PROVE Hop(c, W, L, v[k-1], T[k], v[k])
  <2>1. k - 1 \in 0..n /\ k \in 0..n /\ k + 1 \in 1..n+1 /\ (k + 1) - 1 = k /\ (k - 1) + 1 = k
    BY <1>1
  <2>2. Hop(c, W, L, w[(k+1)-1], Q[k+1], w[k+1])
    BY <1>3, <2>1
  <2>3. v[k-1] = w[(k+1)-1] /\ v[k] = w[k+1] /\ T[k] = Q[k+1]
    BY <1>2, <1>4, <2>1
  <2>4. QED
    BY <2>2, <2>3
<1>6. ASSUME NEW i \in 0..n, NEW j \in 0..n, i < j PROVE Later(v[i], v[j])
  <2>1. i + 1 \in 0..n+1 /\ j + 1 \in 0..n+1 /\ i + 1 < j + 1
    BY <1>1, <1>6
  <2>2. QED
    BY <1>3, <1>4, <2>1
<1>7. Hop(c, W, L, p, Head(Q), w[1]) /\ w[1] \in Int
  <2>1. 1 \in 1..n+1 /\ 1 \in 0..n+1 /\ 1 - 1 = 0
    BY <1>1
  <2>2. Hop(c, W, L, w[1-1], Q[1], w[1])
    BY <1>3, <2>1
  <2>3. w[1-1] = p
    BY <1>3, <2>1
  <2>4. QED
    BY <1>2, <1>3, <2>1, <2>2, <2>3
<1>8. Trail(c, W, L, w[1], q, T)
  BY <1>2, <1>4, <1>5, <1>6, Zenon DEF Trail
<1>9. QED
  BY <1>2, <1>7, <1>8 DEF T

LEMMA TrailPrefix ==
  ASSUME NEW c, NEW W, NEW L, NEW p \in Int, NEW q \in Int,
         NEW Q \in Seq(Message), Trail(c, W, L, p, q, Q),
         NEW P \in Seq(Message), Len(P) \in 0..Len(Q), \A k \in 1..Len(P) : P[k] = Q[k]
  PROVE  \E r \in Int : Trail(c, W, L, p, r, P) /\ (r = q \/ Later(r, q))
<1> DEFINE n == Len(P)
<1>1. Len(Q) \in Nat /\ n \in Nat /\ n <= Len(Q)
  BY LenProperties
<1>2. PICK w \in [0..Len(Q) -> Int] :
        /\ w[0] = p /\ w[Len(Q)] = q
        /\ \A k \in 1..Len(Q) : Hop(c, W, L, w[k-1], Q[k], w[k])
        /\ \A i, j \in 0..Len(Q) : i < j => Later(w[i], w[j])
  BY DEF Trail
<1> DEFINE v == [k \in 0..n |-> w[k]]
<1>3. 0 \in 0..n /\ n \in 0..n /\ n \in 0..Len(Q) /\ Len(Q) \in 0..Len(Q)
      /\ \A k \in 0..n : w[k] \in Int
  BY <1>1, <1>2
<1>4. v \in [0..n -> Int] /\ v[0] = p /\ v[n] \in Int /\ \A k \in 0..n : v[k] = w[k]
  BY <1>3, <1>2
<1> HIDE DEF v
<1>5. ASSUME NEW k \in 1..n PROVE Hop(c, W, L, v[k-1], P[k], v[k])
  <2>1. k \in 1..Len(Q) /\ k - 1 \in 0..n /\ k \in 0..n
    BY <1>1
  <2>2. Hop(c, W, L, w[k-1], Q[k], w[k])
    BY <1>2, <2>1
  <2>3. QED
    BY <1>4, <2>1, <2>2
<1>6. \A i, j \in 0..n : i < j => Later(v[i], v[j])
  <2>1. \A i \in 0..n : i \in 0..Len(Q)
    BY <1>1
  <2>2. QED
    BY <1>2, <1>4, <2>1
<1>7. Trail(c, W, L, p, v[n], P)
  BY <1>4, <1>5, <1>6, Zenon DEF Trail
<1>8. v[n] = q \/ Later(v[n], q)
  <2>1. v[n] = w[n] /\ (n = Len(Q) \/ n < Len(Q))
    BY <1>1, <1>3, <1>4
  <2>2. QED
    BY <1>2, <1>3, <2>1
<1>9. QED
  BY <1>4, <1>7, <1>8

\* A file may be longer than one thought.
LEMMA TrailMore ==
  ASSUME NEW c, NEW W, NEW L, NEW M, L \subseteq M, NEW p, NEW q,
         NEW Q \in Seq(Message), Trail(c, W, L, p, q, Q)
  PROVE  Trail(c, W, M, p, q, Q)
<1>1. \A x, m, y : Hop(c, W, L, x, m, y) => Hop(c, W, M, x, m, y)
  BY DEF Hop
<1>2. QED
  BY <1>1, Zenon DEF Trail

-----------------------------------------------------------------------------
(* Points.                                                                 *)

LEMMA SendPoints ==
  ASSUME NEW n
  PROVE  /\ \A l \in {"init", "hello"} : SendAt(l, n) = -4
         /\ \A l \in {"waitHello", "manifest"} : SendAt(l, n) = -3
         /\ \A l \in Replying : SendAt(l, n) = -2
         /\ \A l \in Nexting : SendAt(l, n) = -1
         /\ \A l \in InFile : SendAt(l, n) = n
         /\ \A l \in Acking : SendAt(l, n) = Past
BY DEF SendAt, Replying, Nexting, InFile, Acking

LEMMA SendAtTyped ==
  ASSUME NEW l, NEW n \in Nat
  PROVE  SendAt(l, n) \in Int /\ SendAt(l, n) \notin {Finished, Broken}
BY DEF SendAt, Past, Finished, Broken

LEMMA ReceivePoints ==
  ASSUME NEW u
  PROVE  /\ \A k \in Greeting : ReceiveAt(k, u) = {-4}
         /\ ReceiveAt("waitManifest", u) = {-3}
         /\ ReceiveAt("b-manifest", u) = {-4, -3}
         /\ ReceiveAt("decide", u) = {-2}
         /\ \A k \in Chunking : ReceiveAt(k, u) = {u}
         /\ \A k \in Starting \cup Finishing : ReceiveAt(k, u) = {-1}
BY DEF ReceiveAt, Greeting, Chunking, Starting, Finishing

LEMMA ReceiveAtTyped ==
  ASSUME NEW k, NEW u \in Nat, NEW p \in ReceiveAt(k, u)
  PROVE  p \in Int /\ p \notin {Past, Finished, Broken}
BY DEF ReceiveAt, Past, Finished, Broken

\* Where each message leads.
LEMMA HopFrom ==
  ASSUME NEW c \in Files, NEW W, NEW L, L \subseteq Nat, NEW p \in Int, NEW m, NEW r,
         Hop(c, W, L, p, m, r)
  PROVE  \/ m = Cancel /\ r = Broken /\ p # Finished
         \/ p = -4 /\ m = Hello(Version) /\ r = -3
         \/ p = -3 /\ m = Manifest(Metas) /\ r = -2
         \/ p = -1 /\ IsNext(c, W) /\ m = FileStart(c) /\ r = 0
         \/ p = -1 /\ W = {} /\ m = Done /\ r = Finished
         \/ p \in Nat /\ r \in L /\ r \in Nat /\ p < r /\ m = Chunk(Slice(c, p, r - p))
         \/ p \in Nat /\ p = Size[c] /\ m = FileEnd(c, FileData(c, p)) /\ r = Past
<1>1. Size[c] \in Nat
  BY SizesAreNat
<1>2. QED
  BY <1>1 DEF Hop

LEMMA Tags ==
  /\ Cancel.t = "cancel" /\ Hello(Version).t = "hello" /\ Hello(Version).v = Version
  /\ Manifest(Metas).t = "manifest" /\ Manifest(Metas).files = Metas
  /\ Done.t = "done" /\ Reject.t = "reject"
  /\ ErrorMsg("protocol").t = "error"
  /\ \A i : FileStart(i).t = "file-start" /\ FileStart(i).id = i
  /\ \A d : Chunk(d).t = "chunk" /\ Chunk(d).data = d
  /\ \A i, d : FileEnd(i, d).t = "file-end" /\ FileEnd(i, d).id = i /\ FileEnd(i, d).sha256 = d
  /\ \A i : /\ FileAck(i, "ok").t = "file-ack" /\ FileAck(i, "ok").id = i
            /\ FileAck(i, "ok").status = "ok"
  /\ \A ids : Accept(ids).t = "accept" /\ Accept(ids).ids = ids
BY DEF Cancel, Hello, Manifest, Done, Reject, ErrorMsg, FileStart, Chunk, FileEnd, FileAck, Accept

LEMMA FarewellsTyped ==
  /\ Cancel \in Message /\ ErrorMsg("protocol") \in Message
  /\ <<Cancel>> \in Seq(Message)
BY DEF Cancel, ErrorMsg, Message

\* Points at which the sender says nothing but a cancel.
Aside == {-2, Past, Broken}

LEMMA HopAside ==
  ASSUME NEW c \in Files, NEW W, NEW L, NEW p \in Aside, NEW m, NEW r,
         Hop(c, W, L, p, m, r)
  PROVE  m = Cancel /\ r = Broken
<1>1. Size[c] \in Nat
  BY SizesAreNat
<1>2. p \in Int /\ p < 0 /\ p # -4 /\ p # -3 /\ p # -1
  BY DEF Aside, Past, Broken
<1>3. QED
  BY <1>1, <1>2 DEF Hop

\* After a cancel there are only more of them, whatever else is the case.
LEMMA TrailBroken ==
  ASSUME NEW c \in Files, NEW W, NEW L, L \subseteq Nat, NEW q \in Int,
         NEW Q \in Seq(Message), Trail(c, W, L, Broken, q, Q),
         NEW d, NEW X, NEW M
  PROVE  q = Broken /\ Trail(d, X, M, Broken, Broken, Q)
<1>1. Len(Q) \in Nat
  BY LenProperties
<1>2. PICK w \in [0..Len(Q) -> Int] :
        /\ w[0] = Broken /\ w[Len(Q)] = q
        /\ \A k \in 1..Len(Q) : Hop(c, W, L, w[k-1], Q[k], w[k])
        /\ \A i, j \in 0..Len(Q) : i < j => Later(w[i], w[j])
  BY DEF Trail
<1>3. \A j \in 0..Len(Q) : w[j] = Broken
  <2>1. \A j \in 0..Len(Q) : j = 0 \/ Later(w[0], w[j])
    BY <1>1, <1>2
  <2>2. QED
    BY <1>2, <2>1 DEF Later
<1>4. q = Broken
  BY <1>1, <1>2, <1>3
<1>5. ASSUME NEW k \in 1..Len(Q) PROVE Hop(d, X, M, w[k-1], Q[k], w[k])
  <2>1. k - 1 \in 0..Len(Q) /\ k \in 0..Len(Q)
    BY <1>1
  <2>2. Hop(c, W, L, Broken, Q[k], Broken)
    BY <1>2, <1>3, <2>1
  <2>3. Q[k] = Cancel /\ Broken # Finished
    BY <2>2, HopAside DEF Aside, Broken, Finished
  <2>4. Hop(d, X, M, Broken, Q[k], Broken)
    BY <2>3 DEF Hop
  <2>5. QED
    BY <1>3, <2>1, <2>4
<1>6. Trail(d, X, M, Broken, Broken, Q)
  BY <1>2, <1>4, <1>5, Zenon DEF Trail
<1>7. QED
  BY <1>4, <1>6

\* While the receiver has the turn, and after the end of a file, only
\* cancels can be on the way, and they are so from any other point.
LEMMA TrailAside ==
  ASSUME NEW c \in Files, NEW W, NEW L, L \subseteq Nat, NEW p \in Aside,
         NEW q \in Int, NEW Q \in Seq(Message), Trail(c, W, L, p, q, Q),
         NEW d \in Files, NEW X, NEW M, M \subseteq Nat, NEW x \in Int, x # Finished
  PROVE  \/ Q = <<>> /\ Trail(d, X, M, x, x, Q)
         \/ Q # <<>> /\ Head(Q) = Cancel /\ q = Broken /\ Trail(d, X, M, x, Broken, Q)
<1>0. p \in Int /\ Broken \in Int
  BY DEF Aside, Past, Broken
<1>1. CASE Q = <<>>
  BY <1>0, <1>1, TrailEmpty
<1>2. CASE Q # <<>>
  <2>1. PICK r \in Int : Hop(c, W, L, p, Head(Q), r) /\ Trail(c, W, L, r, q, Tail(Q))
    BY <1>0, <1>2, TrailHead
  <2>2. Head(Q) \in Message /\ Tail(Q) \in Seq(Message)
    BY <1>2, HeadTailProperties
  <2>3. Head(Q) = Cancel /\ r = Broken
    BY <2>1, HopAside
  <2>4. q = Broken /\ Trail(d, X, M, Broken, Broken, Tail(Q))
    BY <2>1, <2>2, <2>3, TrailBroken
  <2>5. Trail(d, X, M, x, Broken, <<Cancel>>)
    <3>1. Hop(d, X, M, x, Cancel, Broken)
      BY DEF Hop
    <3>2. QED
      BY <3>1, FarewellsTyped, TrailOne
  <2>6. Trail(d, X, M, x, Broken, <<Cancel>> \o Tail(Q))
    BY <1>0, <2>2, <2>4, <2>5, FarewellsTyped, TrailConcat
  <2>7. Q = <<Cancel>> \o Tail(Q)
    BY <1>2, <2>3
  <2>8. QED
    BY <1>2, <2>3, <2>4, <2>6, <2>7
<1>3. QED
  BY <1>1, <1>2

-----------------------------------------------------------------------------
(* Steps of the sender in a dialogue.                                      *)

Fit(F, B, n, u, c, W, L) ==
  /\ F \in Seq(Message) /\ B \in Seq(Message) /\ n \in Nat /\ u \in Nat
  /\ c \in Files /\ W \in SUBSET Files /\ L \in SUBSET Nat

LEMMA Echoes ==
  ASSUME NEW c, NEW Z, NEW B
  PROVE  /\ \A l \in Greeting : Echo(l, c, Z, B) <=> One(Z, {Hello(Version)}, B)
         /\ Echo("waitReply", c, Z, B) <=> One(Z, Replies, B)
         /\ Echo("b-reply", c, Z, B) <=>
              \/ One(Z, Replies, B)
              \/ B # <<>> /\ Head(B) = Hello(Version) /\ One(Z, Replies, Tail(B))
         /\ \A l \in Acking : Echo(l, c, Z, B) <=> One(Z, {FileAck(c, "ok")}, B)
         /\ \A l \in {"manifest"} \cup Nexting \cup InFile : Echo(l, c, Z, B) <=> Rest(Z, B)
BY DEF Echo, Greeting, Acking, Nexting, InFile

\* The labels before and after a step that says something or nothing.
GoesOn(l, m) ==
  \/ l = "init" /\ m \in {"hello", "b-reply"}
  \/ l = "hello" /\ m = "waitHello"
  \/ l = "manifest" /\ m = "waitReply"
  \/ l \in InFile /\ m \in InFile \cup Acking

LEMMA BetweenOn ==
  ASSUME NEW F, NEW B, NEW n, NEW u, NEW c, NEW W, NEW L, Fit(F, B, n, u, c, W, L),
         NEW l, NEW k, Between(l, k, F, n, u, c, W, L),
         NEW Q \in Seq(Message), NEW q \in Int, Trail(c, W, L, SendAt(l, n), q, Q)
  PROVE  \E p \in ReceiveAt(k, u) : Trail(c, W, L, p, q, F \o Q)
<1>1. PICK p \in ReceiveAt(k, u) : Trail(c, W, L, p, SendAt(l, n), F)
  BY DEF Between
<1>2. p \in Int /\ SendAt(l, n) \in Int /\ F \in Seq(Message)
  BY ReceiveAtTyped, SendAtTyped DEF Fit
<1>3. Trail(c, W, L, p, q, F \o Q)
  BY <1>1, <1>2, TrailConcat
<1>4. QED
  BY <1>3

LEMMA SenderSaysOn ==
  ASSUME NEW F, NEW B, NEW n, NEW u, NEW c, NEW W, NEW L, Fit(F, B, n, u, c, W, L),
         NEW l, NEW k, NEW e, NEW T, NEW Z,
         Dialogue(l, k, e, F, B, n, u, c, T, W, L, Z),
         NEW m, NEW o \in Nat, GoesOn(l, m), NEW Q \in Seq(Message),
         Trail(c, W, L, SendAt(l, n), SendAt(m, o), Q)
  PROVE  Dialogue(m, k, e, F \o Q, B, o, u, c, T, W, L, Z)
<1>1. l \notin Stopped /\ m \notin Stopped
  BY DEF GoesOn, Stopped, Ended, InFile, Acking
<1>2. ASSUME k \notin Stopped PROVE Turn(m, k, F \o Q, B, o, u, c, T, W, L)
  <2>1. Turn(l, k, F, B, n, u, c, T, W, L)
    BY <1>1, <1>2 DEF Dialogue
  <2>2. Between(l, k, F, n, u, c, W, L) => Between(m, k, F \o Q, o, u, c, W, L)
    <3>1. SendAt(m, o) \in Int
      BY SendAtTyped
    <3>2. QED
      BY <3>1, BetweenOn DEF Between
  <2>3. CASE l \in InFile
    <3>1. l \notin Opening \cup Replying \cup Acking /\ m \in InFile \cup Acking
      BY <2>3 DEF GoesOn, InFile, Opening, Replying, Acking
    <3>2. Filed(l, k, F, B, n, u, c, T, W, L)
      BY <2>1, <3>1 DEF Turn, Opened, Answered, Confirmed
    <3>3. Filed(m, k, F \o Q, B, o, u, c, T, W, L)
      BY <2>2, <3>1, <3>2 DEF Filed
    <3>4. QED
      BY <3>3 DEF Turn
  <2>4. CASE l \notin InFile
    <3>1. /\ l \notin Replying \cup Nexting \cup InFile \cup Acking
          /\ m \in Opening /\ (l \in Unmet => m \in Unmet)
          /\ l \in {"manifest"} \cup Replying => m \in {"manifest"} \cup Replying
      BY <2>4 DEF GoesOn, Opening, Replying, Nexting, Acking, Unmet
    <3>2. Opened(l, k, F, B, n, u, c, W, L)
      BY <2>1, <2>4, <3>1 DEF Turn, Answered, Filed, Confirmed
    <3>3. Opened(m, k, F \o Q, B, o, u, c, W, L)
      BY <2>2, <3>1, <3>2 DEF Opened, Hellos
    <3>4. QED
      BY <3>3 DEF Turn
  <2>5. QED
    BY <2>3, <2>4
<1>3. ASSUME k \in Stopped PROVE Echo(m, c, Z, B)
  <2>1. Echo(l, c, Z, B)
    BY <1>1, <1>3 DEF Dialogue
  <2>2. CASE l \in {"init", "hello"}
    <3>1. l \in Greeting /\ (m \in Greeting \/ m = "b-reply")
      BY <2>2 DEF GoesOn, Greeting, InFile
    <3>2. One(Z, {Hello(Version)}, B)
      BY <2>1, <3>1, Echoes
    <3>3. QED
      BY <3>1, <3>2, Echoes DEF One
  <2>3. CASE l = "manifest"
    <3>1. m = "waitReply" /\ Rest(Z, B)
      BY <2>1, <2>3, Echoes DEF GoesOn, InFile
    <3>2. QED
      BY <3>1, Echoes DEF One
  <2>4. CASE l \in InFile
    <3>1. Rest(Z, B) /\ (m \in InFile \/ m \in Acking)
      BY <2>1, <2>4, Echoes DEF GoesOn, InFile
    <3>2. QED
      BY <3>1, Echoes DEF One
  <2>5. QED
    BY <2>2, <2>3, <2>4 DEF GoesOn
<1>4. QED
  BY <1>1, <1>2, <1>3 DEF Dialogue

\* Two sequences of few elements.
LEMMA Singles ==
  ASSUME NEW m \in Message
  PROVE  /\ <<m>> \in Seq(Message) /\ <<m>> # <<>> /\ Head(<<m>>) = m /\ Tail(<<m>>) = <<>>
         /\ <<>> \o <<m>> = <<m>>
         /\ \A d \in Message : /\ <<m, d>> # <<>> /\ Head(<<m, d>>) = m
                               /\ Tail(<<m, d>>) = <<d>>
OBVIOUS

LEMMA RestTail ==
  ASSUME NEW Z, NEW Q \in Seq(Message), Q # <<>>, Rest(Z, Q)
  PROVE  Head(Q) \in Z /\ Rest(Z, Tail(Q))
<1>1. /\ Len(Q) \in Nat \ {0} /\ Head(Q) = Q[1] /\ Len(Tail(Q)) = Len(Q) - 1
      /\ \A i \in 1..Len(Q)-1 : Tail(Q)[i] = Q[i + 1]
  BY HeadTailProperties, LenProperties, EmptySeq
<1>2. \A i \in 1..Len(Q)-1 : i + 1 \in 1..Len(Q)
  BY <1>1
<1>3. QED
  BY <1>1, <1>2 DEF Rest

\* The receiver stands where the sender expects it.
LEMMA NothingUnderWay ==
  ASSUME NEW F, NEW B, NEW n, NEW u, NEW c, NEW W, NEW L, Fit(F, B, n, u, c, W, L),
         NEW l \in Nexting, NEW k \in Starting \cup Chunking \cup Finishing,
         Between(l, k, F, n, u, c, W, L)
  PROVE  F = <<>> /\ k \notin Chunking
<1>1. PICK p \in ReceiveAt(k, u) : Trail(c, W, L, p, -1, F)
  BY SendPoints DEF Between
<1>2. p \in Int /\ F \in Seq(Message) /\ u \in Nat
  BY ReceiveAtTyped DEF Fit
<1>3. (F = <<>> /\ p = -1) \/ Later(p, -1)
  BY <1>1, <1>2, TrailOrder
<1>4. ~ \E x \in Nat : Later(x, -1)
  BY DEF Later, Finished, Broken, Past
<1>5. ~Later(-1, -1)
  BY DEF Later, Finished, Broken, Past
<1>6. k \notin Chunking
  <2>1. SUFFICES ASSUME k \in Chunking PROVE FALSE
    OBVIOUS
  <2>2. ReceiveAt(k, u) = {u}
    BY <2>1, ReceivePoints
  <2>3. p = u
    BY <1>1, <2>2
  <2>4. QED
    BY <1>2, <1>3, <1>4, <2>3
<1>7. p = -1
  <2>1. k \in Starting \cup Finishing
    BY <1>6
  <2>2. ReceiveAt(k, u) = {-1}
    BY <2>1, ReceivePoints
  <2>3. QED
    BY <1>1, <2>2
<1>8. QED
  BY <1>3, <1>5, <1>6, <1>7

LEMMA SenderTakesUp ==
  ASSUME NEW F, NEW B, NEW n, NEW u, NEW c, NEW W, NEW L, Fit(F, B, n, u, c, W, L),
         NEW l \in Nexting, NEW k, NEW e, NEW T, NEW Z,
         Dialogue(l, k, e, F, B, n, u, c, T, W, L, Z), k \in Finishing => W = {},
         NEW m \in InFile, NEW d \in Files, IsNext(d, T), NEW M \in SUBSET Nat
  PROVE  /\ Dialogue(m, k, e, F \o <<FileStart(d)>>, B, 0, u, d, T, W, M, Z)
         /\ k \notin Chunking
<1>1. l \notin Stopped /\ m \notin Stopped /\ l \notin Opening \cup Replying \cup Acking
  BY DEF Stopped, Ended, InFile, Nexting, Opening, Replying, Acking
<1>2. ASSUME k \notin Stopped
      PROVE  Turn(m, k, F \o <<FileStart(d)>>, B, 0, u, d, T, W, M) /\ k \notin Chunking
  <2>1. Filed(l, k, F, B, n, u, c, T, W, L)
    BY <1>1, <1>2 DEF Dialogue, Turn, Opened, Answered, Confirmed
  <2>2. F = <<>> /\ k \notin Chunking
    BY <2>1, NothingUnderWay DEF Filed
  <2>3. W = T /\ k \in Starting
    BY <2>1, <2>2 DEF Filed, IsNext
  <2>4. FileStart(d) \in Message /\ -1 \in Int
    BY FilesAreInts DEF FileStart, Message
  <2>5. Hop(d, W, M, -1, FileStart(d), 0)
    BY <2>3 DEF Hop
  <2>6. Trail(d, W, M, -1, 0, <<FileStart(d)>>)
    BY <2>4, <2>5, TrailOne
  <2>7. F \o <<FileStart(d)>> = <<FileStart(d)>>
    BY <2>2, <2>4, Singles
  <2>8. Between(m, k, F \o <<FileStart(d)>>, 0, u, d, W, M)
    <3>1. SendAt(m, 0) = 0
      BY SendPoints
    <3>2. ReceiveAt(k, u) = {-1}
      BY <2>3, ReceivePoints
    <3>3. QED
      BY <2>6, <2>7, <3>1, <3>2 DEF Between
  <2>9. Filed(m, k, F \o <<FileStart(d)>>, B, 0, u, d, T, W, M)
    BY <2>1, <2>8 DEF Filed
  <2>10. QED
    BY <2>2, <2>9 DEF Turn
<1>3. ASSUME k \in Stopped PROVE Echo(m, d, Z, B) /\ k \notin Chunking
  BY <1>1, <1>3, Echoes DEF Dialogue, Chunking, Stopped, Ended
<1>4. QED
  BY <1>1, <1>2, <1>3 DEF Dialogue

LEMMA SenderMeets ==
  ASSUME NEW F, NEW B, NEW n, NEW u, NEW c, NEW W, NEW L, Fit(F, B, n, u, c, W, L),
         NEW l, NEW k, NEW e, NEW T, NEW Z,
         Dialogue(l, k, e, F, B, n, u, c, T, W, L, Z),
         NEW m, (l = "waitHello" /\ m = "manifest") \/ (l = "b-reply" /\ m = l),
         B # <<>>, Head(B) = Hello(Version)
  PROVE  Dialogue(m, k, e, F, Tail(B), n, u, c, T, W, L, Z)
<1>1. /\ l \notin Stopped /\ m \notin Stopped
      /\ l \notin Nexting \cup InFile \cup Acking /\ l \in Opening /\ m \in Opening
      /\ m \in {"manifest"} \cup Replying /\ SendAt(m, n) = SendAt(l, n)
  BY SendPoints DEF Stopped, Ended, InFile, Nexting, Opening, Replying, Acking
<1>2. Hello(Version) \in Message
  BY DEF Hello, Version, Message
<1>3. ASSUME k \notin Stopped PROVE Turn(m, k, F, Tail(B), n, u, c, T, W, L)
  <2>1. Turn(l, k, F, B, n, u, c, T, W, L)
    BY <1>1, <1>3 DEF Dialogue
  <2>2. CASE Opened(l, k, F, B, n, u, c, W, L)
    <3>1. Tail(B) = <<>> /\ k \notin {"init", "hello"}
      BY <1>2, <2>2, Singles DEF Opened, Hellos
    <3>2. Opened(m, k, F, Tail(B), n, u, c, W, L)
      BY <1>1, <2>2, <3>1 DEF Opened, Hellos, Between
    <3>3. QED
      BY <3>2 DEF Turn
  <2>3. CASE Answered(l, k, F, B, W)
    <3>1. PICK ids \in SUBSET Files :
            /\ W = ResolveAccept(ids, NumFiles)
            /\ B = <<Accept(ids)>> \/ (l = "b-reply" /\ B = <<Hello(Version), Accept(ids)>>)
      BY <2>3 DEF Answered
    <3>2. Accept(ids) \in Message
      BY FilesAreInts DEF Accept, Message
    <3>3. l = "b-reply" /\ B = <<Hello(Version), Accept(ids)>>
      BY <3>1, <3>2, Singles, Tags
    <3>4. Tail(B) = <<Accept(ids)>>
      BY <1>2, <3>2, <3>3, Singles
    <3>5. Answered(m, k, F, Tail(B), W)
      BY <1>1, <2>3, <3>1, <3>3, <3>4 DEF Answered
    <3>6. QED
      BY <3>5 DEF Turn
  <2>4. QED
    BY <1>1, <2>1, <2>2, <2>3 DEF Turn, Filed, Confirmed
<1>4. ASSUME k \in Stopped PROVE Echo(m, c, Z, Tail(B))
  <2>1. Echo(l, c, Z, B) /\ B \in Seq(Message)
    BY <1>1, <1>4 DEF Dialogue, Fit
  <2>2. Rest(Z, B) => Rest(Z, Tail(B))
    BY <2>1, RestTail
  <2>3. CASE l = "waitHello"
    BY <2>1, <2>2, <2>3, Echoes DEF Greeting, One
  <2>4. CASE l = "b-reply"
    <3>1. Hello(Version) \notin Replies
      BY Tags DEF Replies
    <3>2. One(Z, Replies, Tail(B))
      BY <2>1, <2>2, <2>4, <3>1, Echoes DEF One
    <3>3. QED
      BY <2>4, <3>2, Echoes
  <2>5. QED
    BY <2>3, <2>4
<1>5. QED
  BY <1>1, <1>3, <1>4 DEF Dialogue

\* What a sender may hear.
LEMMA HeardBySender ==
  ASSUME NEW F, NEW B, NEW n, NEW u, NEW c, NEW W, NEW L, Fit(F, B, n, u, c, W, L),
         NEW l, NEW k, NEW e, NEW T, NEW Z,
         Dialogue(l, k, e, F, B, n, u, c, T, W, L, Z), l \notin Stopped, B # <<>>
  PROVE  \/ l \in Unmet /\ Head(B) = Hello(Version)
         \/ l \in Replying /\ \E ids \in SUBSET Files : Head(B) = Accept(ids)
         \/ l \in Acking /\ Head(B) = FileAck(c, "ok")
         \/ k \in Stopped /\ (Head(B) \in Z \/ (l \in Replying /\ Head(B) = Reject))
<1>1. CASE k \notin Stopped
  <2>1. Turn(l, k, F, B, n, u, c, T, W, L)
    BY <1>1 DEF Dialogue
  <2>2. Hello(Version) \in Message /\ FileAck(c, "ok") \in Message
    BY FilesAreInts DEF Hello, Version, FileAck, Message, Fit
  <2>3. CASE Opened(l, k, F, B, n, u, c, W, L)
    BY <2>2, <2>3, Singles DEF Opened, Hellos
  <2>4. CASE Answered(l, k, F, B, W)
    <3>1. PICK ids \in SUBSET Files :
            B = <<Accept(ids)>> \/ (l = "b-reply" /\ B = <<Hello(Version), Accept(ids)>>)
      BY <2>4 DEF Answered
    <3>2. Accept(ids) \in Message
      BY FilesAreInts DEF Accept, Message
    <3>3. l \in Replying
      BY <2>4 DEF Answered
    <3>4. CASE B = <<Accept(ids)>>
      BY <3>2, <3>3, <3>4, Singles
    <3>5. CASE l = "b-reply" /\ B = <<Hello(Version), Accept(ids)>>
      BY <2>2, <3>2, <3>5, Singles DEF Unmet
    <3>6. QED
      BY <3>1, <3>4, <3>5
  <2>5. CASE Confirmed(l, k, F, B, c, T, W)
    BY <2>2, <2>5, Singles DEF Confirmed
  <2>6. QED
    BY <2>1, <2>3, <2>4, <2>5 DEF Turn, Filed
<1>2. CASE k \in Stopped
  <2>1. Echo(l, c, Z, B) /\ B \in Seq(Message)
    BY <1>2 DEF Dialogue, Fit
  <2>2. Rest(Z, B) => Head(B) \in Z
    BY <2>1, RestTail
  <2>3. Replies = {Reject} \cup {Accept(ids) : ids \in SUBSET Files}
    BY DEF Replies
  <2>4. \A M : One(Z, M, B) => Head(B) \in Z \/ Head(B) \in M
    BY <2>2 DEF One
  <2>5. CASE l \in Greeting
    <3>1. One(Z, {Hello(Version)}, B) /\ l \in Unmet
      BY <2>1, <2>5, Echoes DEF Greeting, Unmet
    <3>2. QED
      BY <1>2, <2>4, <3>1
  <2>6. CASE l = "waitReply"
    <3>1. One(Z, Replies, B) /\ l \in Replying
      BY <2>1, <2>6, Echoes DEF Replying
    <3>2. QED
      BY <1>2, <2>3, <2>4, <3>1
  <2>7. CASE l = "b-reply"
    <3>1. (One(Z, Replies, B) \/ Head(B) = Hello(Version)) /\ l \in Replying /\ l \in Unmet
      BY <2>1, <2>7, Echoes DEF Replying, Unmet
    <3>2. QED
      BY <1>2, <2>3, <2>4, <3>1
  <2>8. CASE l \in Acking
    <3>1. One(Z, {FileAck(c, "ok")}, B)
      BY <2>1, <2>8, Echoes
    <3>2. QED
      BY <1>2, <2>4, <2>8, <3>1
  <2>9. CASE l \notin Greeting \cup {"waitReply", "b-reply"} \cup Acking
    <3>1. Rest(Z, B)
      BY <2>1, <2>9 DEF Echo
    <3>2. QED
      BY <1>2, <2>2, <3>1
  <2>10. QED
    BY <2>5, <2>6, <2>7, <2>8, <2>9
<1>3. QED
  BY <1>1, <1>2

\* A receiver that has answered stands before a file or before done.
LEMMA Standing ==
  ASSUME NEW n, NEW u, NEW c, NEW W, NEW L, NEW m \in Nexting, NEW k \in Starting \cup Finishing
  PROVE  Between(m, k, <<>>, n, u, c, W, L)
<1>1. SendAt(m, n) = -1
  BY SendPoints
<1>2. ReceiveAt(k, u) = {-1}
  BY ReceivePoints
<1>3. Trail(c, W, L, -1, -1, <<>>)
  BY TrailEmpty
<1>4. QED
  BY <1>1, <1>2, <1>3 DEF Between

LEMMA SenderIsAccepted ==
  ASSUME NEW F, NEW B, NEW n, NEW u, NEW c, NEW W, NEW L, Fit(F, B, n, u, c, W, L),
         NEW l \in Replying, NEW k, NEW e, NEW T, NEW Z,
         Dialogue(l, k, e, F, B, n, u, c, T, W, L, Z),
         NEW ids \in SUBSET Files, B # <<>>, Head(B) = Accept(ids), NEW m \in Nexting
  PROVE  Dialogue(m, k, e, F, Tail(B), n, u, c, ResolveAccept(ids, NumFiles), W, L, Z)
<1>1. /\ l \notin Stopped /\ m \notin Stopped
      /\ l \notin Nexting \cup InFile \cup Acking
  BY DEF Stopped, Ended, InFile, Nexting, Replying, Acking
<1>2. Accept(ids) \in Message /\ Hello(Version) \in Message /\ Accept(ids) # Hello(Version)
  BY FilesAreInts DEF Accept, Hello, Version, Message
<1>3. ASSUME k \notin Stopped
      PROVE  Turn(m, k, F, Tail(B), n, u, c, ResolveAccept(ids, NumFiles), W, L)
  <2>1. Turn(l, k, F, B, n, u, c, T, W, L)
    BY <1>1, <1>3 DEF Dialogue
  <2>2. ~Opened(l, k, F, B, n, u, c, W, L)
    BY <1>2, Singles DEF Opened, Hellos
  <2>3. Answered(l, k, F, B, W)
    BY <1>1, <2>1, <2>2 DEF Turn, Filed, Confirmed
  <2>4. PICK jds \in SUBSET Files :
          /\ W = ResolveAccept(jds, NumFiles)
          /\ B = <<Accept(jds)>> \/ (l = "b-reply" /\ B = <<Hello(Version), Accept(jds)>>)
    BY <2>3 DEF Answered
  <2>5. Accept(jds) \in Message
    BY FilesAreInts DEF Accept, Message
  <2>6. B = <<Accept(jds)>>
    BY <1>2, <2>4, <2>5, Singles
  <2>7. Accept(jds) = Accept(ids) /\ Tail(B) = <<>>
    BY <2>5, <2>6, Singles
  <2>8. jds = ids
    BY <2>7, Tags
  <2>9. F = <<>> /\ k \in Starting
    BY <2>3 DEF Answered
  <2>10. Between(m, k, F, n, u, c, W, L)
    BY <2>9, Standing
  <2>11. Filed(m, k, F, Tail(B), n, u, c, ResolveAccept(ids, NumFiles), W, L)
    BY <2>4, <2>7, <2>8, <2>9, <2>10 DEF Filed
  <2>12. QED
    BY <2>11 DEF Turn
<1>4. ASSUME k \in Stopped PROVE Echo(m, c, Z, Tail(B))
  <2>1. Echo(l, c, Z, B) /\ B \in Seq(Message)
    BY <1>1, <1>4 DEF Dialogue, Fit
  <2>2. One(Z, Replies, B)
    BY <1>2, <2>1, Echoes DEF Replying
  <2>3. Rest(Z, Tail(B))
    BY <2>1, <2>2, RestTail DEF One
  <2>4. QED
    BY <2>3, Echoes
<1>5. QED
  BY <1>1, <1>3, <1>4 DEF Dialogue

LEMMA SenderIsConfirmed ==
  ASSUME NEW F, NEW B, NEW n, NEW u, NEW c, NEW W, NEW L, Fit(F, B, n, u, c, W, L),
         NEW l \in Acking, NEW k, NEW e, NEW T, NEW Z,
         Dialogue(l, k, e, F, B, n, u, c, T, W, L, Z),
         B # <<>>, NEW m \in Nexting
  PROVE  Dialogue(m, k, e, F, Tail(B), n, u, c, T \ {c}, W, L, Z)
<1>1. /\ l \notin Stopped /\ m \notin Stopped /\ l \notin Opening \cup Replying
  BY DEF Stopped, Ended, Nexting, Replying, Opening, Acking
<1>2. FileAck(c, "ok") \in Message
  BY FilesAreInts DEF FileAck, Message, Fit
<1>3. ASSUME k \notin Stopped PROVE Turn(m, k, F, Tail(B), n, u, c, T \ {c}, W, L)
  <2>1. Confirmed(l, k, F, B, c, T, W)
    BY <1>1, <1>3 DEF Dialogue, Turn, Opened, Answered, Filed
  <2>2. Tail(B) = <<>> /\ F = <<>> /\ k \in Starting \cup Finishing /\ W = T \ {c}
    BY <1>2, <2>1, Singles DEF Confirmed
  <2>3. Between(m, k, F, n, u, c, W, L)
    BY <2>2, Standing
  <2>4. Filed(m, k, F, Tail(B), n, u, c, T \ {c}, W, L)
    BY <2>2, <2>3 DEF Filed
  <2>5. QED
    BY <2>4 DEF Turn
<1>4. ASSUME k \in Stopped PROVE Echo(m, c, Z, Tail(B))
  <2>1. One(Z, {FileAck(c, "ok")}, B) /\ B \in Seq(Message)
    BY <1>1, <1>4, Echoes DEF Dialogue, Fit
  <2>2. Rest(Z, Tail(B))
    BY <2>1, RestTail DEF One
  <2>3. QED
    BY <2>2, Echoes
<1>5. QED
  BY <1>1, <1>3, <1>4 DEF Dialogue

-----------------------------------------------------------------------------
(* The sender stops.                                                       *)

\* Nothing has been cancelled or finished while both ends run.
LEMMA TurnTrail ==
  ASSUME NEW F, NEW B, NEW n, NEW u, NEW c, NEW W, NEW L, Fit(F, B, n, u, c, W, L),
         NEW l, NEW k, NEW T, Turn(l, k, F, B, n, u, c, T, W, L)
  PROVE  \E p \in ReceiveAt(k, u), q \in Int :
            q \notin {Finished, Broken} /\ Trail(c, W, L, p, q, F)
<1>1. ASSUME Between(l, k, F, n, u, c, W, L)
      PROVE  \E p \in ReceiveAt(k, u), q \in Int :
               q \notin {Finished, Broken} /\ Trail(c, W, L, p, q, F)
  <2>1. SendAt(l, n) \in Int /\ SendAt(l, n) \notin {Finished, Broken}
    BY SendAtTyped DEF Fit
  <2>2. QED
    BY <1>1, <2>1 DEF Between
<1>2. ASSUME F = <<>>, k \in Starting \cup Finishing
      PROVE  \E p \in ReceiveAt(k, u), q \in Int :
               q \notin {Finished, Broken} /\ Trail(c, W, L, p, q, F)
  <2>1. ReceiveAt(k, u) = {-1}
    BY <1>2, ReceivePoints
  <2>2. -1 \in Int /\ -1 \notin {Finished, Broken} /\ Trail(c, W, L, -1, -1, F)
    BY <1>2, TrailEmpty DEF Finished, Broken
  <2>3. QED
    BY <2>1, <2>2
<1>3. QED
  BY <1>1, <1>2 DEF Turn, Opened, Answered, Filed, Confirmed

LEMMA SenderStops ==
  ASSUME NEW F, NEW B, NEW n, NEW u, NEW c, NEW W, NEW L, Fit(F, B, n, u, c, W, L),
         NEW l, l \notin Stopped, NEW k, NEW e, NEW T, NEW Z,
         Dialogue(l, k, e, F, B, n, u, c, T, W, L, Z),
         NEW m \in Stopped, NEW e2, NEW B2, NEW n2, NEW T2
  PROVE  Dialogue(m, k, e2, F, B2, n2, u, c, T2, W, L, Z)
<1>1. ASSUME k \notin Stopped PROVE Outstanding(m, k, e2, F, u, c, W, L)
  <2>1. Turn(l, k, F, B, n, u, c, T, W, L)
    BY <1>1 DEF Dialogue
  <2>2. QED
    BY <2>1, TurnTrail DEF Outstanding
<1>2. QED
  BY <1>1 DEF Dialogue

\* It stops before a file, whatever file that is.
LEMMA SenderStopsBetween ==
  ASSUME NEW F, NEW B, NEW n, NEW u, NEW c, NEW W, NEW L, Fit(F, B, n, u, c, W, L),
         NEW l \in Nexting, NEW k, NEW e, NEW T, NEW Z,
         Dialogue(l, k, e, F, B, n, u, c, T, W, L, Z),
         NEW m \in Stopped, NEW e2, NEW B2, NEW n2, NEW T2, NEW d, NEW M
  PROVE  /\ Dialogue(m, k, e2, F, B2, n2, u, d, T2, W, M, Z)
         /\ k \notin Chunking
<1>1. l \notin Stopped /\ l \notin Opening \cup Replying \cup Acking
  BY DEF Stopped, Ended, Nexting, Opening, Replying, Acking
<1>2. ASSUME k \notin Stopped
      PROVE  Outstanding(m, k, e2, F, u, d, W, M) /\ k \notin Chunking
  <2>1. Filed(l, k, F, B, n, u, c, T, W, L)
    BY <1>1, <1>2 DEF Dialogue, Turn, Opened, Answered, Confirmed
  <2>2. F = <<>> /\ k \in Starting \cup Finishing /\ k \notin Chunking
    BY <2>1, NothingUnderWay DEF Filed
  <2>3. ReceiveAt(k, u) = {-1}
    BY <2>2, ReceivePoints
  <2>4. -1 \in Int /\ -1 \notin {Finished, Broken} /\ Trail(d, W, M, -1, -1, F)
    BY <2>2, TrailEmpty DEF Finished, Broken
  <2>5. QED
    BY <2>2, <2>3, <2>4 DEF Outstanding
<1>3. ASSUME k \in Stopped PROVE k \notin Chunking
  BY <1>3 DEF Chunking, Stopped, Ended
<1>4. QED
  BY <1>2, <1>3 DEF Dialogue, Stopped

LEMMA SenderFinishes ==
  ASSUME NEW F, NEW B, NEW n, NEW u, NEW c, NEW W, NEW L, Fit(F, B, n, u, c, W, L),
         NEW l \in Nexting, NEW k, NEW e, NEW T, NEW Z,
         Dialogue(l, k, e, F, B, n, u, c, T, W, L, Z), T = {}, NEW m \in Stopped
  PROVE  Dialogue(m, k, "nil", F \o <<Done>>, B, n, u, c, T, W, L, Z)
<1>1. l \notin Stopped /\ l \notin Opening \cup Replying \cup Acking
  BY DEF Stopped, Ended, Nexting, Opening, Replying, Acking
<1>2. ASSUME k \notin Stopped PROVE Outstanding(m, k, "nil", F \o <<Done>>, u, c, W, L)
  <2>1. Filed(l, k, F, B, n, u, c, T, W, L)
    BY <1>1, <1>2 DEF Dialogue, Turn, Opened, Answered, Confirmed
  <2>2. F = <<>> /\ k \in Starting \cup Finishing /\ W = {}
    BY <2>1, NothingUnderWay DEF Filed
  <2>3. ReceiveAt(k, u) = {-1}
    BY <2>2, ReceivePoints
  <2>4. Done \in Message
    BY DEF Done, Message
  <2>5. Hop(c, W, L, -1, Done, Finished)
    BY <2>2 DEF Hop
  <2>6. c \in Files /\ L \subseteq Nat /\ -1 \in Int
    BY DEF Fit
  <2>7. Finished \in Int /\ Trail(c, W, L, -1, Finished, <<Done>>)
    BY <2>4, <2>5, <2>6, TrailOne
  <2>8. F \o <<Done>> = <<Done>>
    BY <2>2, <2>4, Singles
  <2>9. Finished # Broken
    BY DEF Finished, Broken
  <2>10. QED
    BY <2>3, <2>7, <2>8, <2>9 DEF Outstanding
<1>3. QED
  BY <1>2 DEF Dialogue

\* What a stopped sender does besides.
LEMMA SenderGoesOnStopped ==
  ASSUME NEW F, NEW B, NEW n, NEW u, NEW c, NEW W, NEW L,
         NEW l \in Stopped, NEW k, NEW e, NEW T, NEW Z,
         Dialogue(l, k, e, F, B, n, u, c, T, W, L, Z),
         NEW m \in Stopped, l = "closed" => m = "closed", NEW B2
  PROVE  Dialogue(m, k, e, F, B2, n, u, c, T, W, L, Z)
BY DEF Dialogue, Outstanding

LEMMA SenderCancels ==
  ASSUME NEW F, NEW B, NEW n, NEW u, NEW c, NEW W, NEW L, Fit(F, B, n, u, c, W, L),
         NEW l \in Stopped, NEW k, NEW e, NEW T, NEW Z,
         Dialogue(l, k, e, F, B, n, u, c, T, W, L, Z),
         e \notin {"none", "nil"}, NEW m \in Stopped
  PROVE  Dialogue(m, k, e, F \o <<Cancel>>, B, n, u, c, T, W, L, Z)
<1>1. ASSUME k \notin Stopped PROVE Outstanding(m, k, e, F \o <<Cancel>>, u, c, W, L)
  <2>1. PICK p \in ReceiveAt(k, u), q \in Int :
          Trail(c, W, L, p, q, F) /\ (q = Finished => e = "nil")
    BY <1>1 DEF Dialogue, Outstanding
  <2>2. q # Finished
    BY <2>1
  <2>3. p \in Int /\ c \in Files /\ L \subseteq Nat /\ F \in Seq(Message)
    BY ReceiveAtTyped DEF Fit
  <2>4. Hop(c, W, L, q, Cancel, Broken)
    BY <2>2 DEF Hop
  <2>5. Broken \in Int /\ Trail(c, W, L, q, Broken, <<Cancel>>)
    BY <2>3, <2>4, FarewellsTyped, TrailOne
  <2>6. Trail(c, W, L, p, Broken, F \o <<Cancel>>)
    BY <2>1, <2>3, <2>5, FarewellsTyped, TrailConcat
  <2>7. Broken # Finished
    BY DEF Broken, Finished
  <2>8. QED
    BY <2>5, <2>6, <2>7 DEF Outstanding
<1>2. QED
  BY <1>1 DEF Dialogue

-----------------------------------------------------------------------------
(* Steps of the receiver in a dialogue.                                    *)

\* What a receiver may hear; a cancel comes from a sender that has failed,
\* or whose channel has closed.
LEMMA HeardByReceiver ==
  ASSUME NEW F, NEW B, NEW n, NEW u, NEW c, NEW W, NEW L, Fit(F, B, n, u, c, W, L),
         NEW l, NEW k, NEW e, NEW T, NEW Z,
         Dialogue(l, k, e, F, B, n, u, c, T, W, L, Z), k \notin Stopped, F # <<>>
  PROVE  \E p \in ReceiveAt(k, u), r \in Int :
           /\ p \in Int /\ Hop(c, W, L, p, Head(F), r)
           /\ Head(F) = Cancel =>
                l \in Stopped /\ (e \notin {"none", "nil"} \/ l = "closed")
<1>1. PICK p \in ReceiveAt(k, u), q \in Int :
        /\ Trail(c, W, L, p, q, F)
        /\ q = Broken => l \in Stopped /\ (e \notin {"none", "nil"} \/ l = "closed")
  <2>1. CASE l \notin Stopped
    <3>1. Turn(l, k, F, B, n, u, c, T, W, L)
      BY <2>1 DEF Dialogue
    <3>2. QED
      BY <3>1, TurnTrail
  <2>2. CASE l \in Stopped
    BY <2>2 DEF Dialogue, Outstanding
  <2>3. QED
    BY <2>1, <2>2
<1>2. p \in Int /\ F \in Seq(Message) /\ c \in Files /\ L \subseteq Nat
  BY ReceiveAtTyped DEF Fit
<1>3. Tail(F) \in Seq(Message)
  BY <1>2, HeadTailProperties
<1>4. PICK r \in Int : Hop(c, W, L, p, Head(F), r) /\ Trail(c, W, L, r, q, Tail(F))
  BY <1>1, <1>2, TrailHead
<1>5. ASSUME Head(F) = Cancel
      PROVE  l \in Stopped /\ (e \notin {"none", "nil"} \/ l = "closed")
  <2>1. r = Broken
    <3>1. /\ Cancel.t # Hello(Version).t /\ Cancel.t # Manifest(Metas).t
          /\ Cancel.t # Done.t /\ Cancel.t # FileStart(c).t
          /\ \A d : Cancel.t # Chunk(d).t /\ Cancel.t # FileEnd(c, d).t
      BY Tags
    <3>2. QED
      BY <1>4, <1>5, <3>1 DEF Hop
  <2>2. q = Broken
    BY <1>2, <1>3, <1>4, <2>1, TrailBroken
  <2>3. QED
    BY <1>1, <2>2
<1>6. QED
  BY <1>2, <1>4, <1>5

LEMMA ReceiverOpens ==
  ASSUME NEW F, NEW B, NEW n, NEW u, NEW c, NEW W, NEW L, Fit(F, B, n, u, c, W, L),
         NEW l, NEW k \in {"init", "hello"}, NEW e, NEW T, NEW Z,
         Dialogue(l, k, e, F, B, n, u, c, T, W, L, Z),
         NEW j, NEW Q,
         \/ j = "hello" /\ Q = <<>>
         \/ j \in {"waitHello", "b-manifest"} /\ Q = <<Hello(Version)>>
  PROVE  Dialogue(l, j, e, F, B \o Q, n, u, c, T, W, L, Z)
<1>1. k \notin Stopped /\ j \notin Stopped /\ k \notin Starting \cup Chunking \cup Finishing
  BY DEF Stopped, Ended, Starting, Chunking, Finishing
<1>2. ReceiveAt(k, u) = {-4}
  BY ReceivePoints DEF Greeting
<1>3. {-4} \subseteq ReceiveAt(j, u)
  <2>1. j = "b-manifest" \/ j \in Greeting
    BY DEF Greeting
  <2>2. QED
    BY <2>1, ReceivePoints
<1>4. Hello(Version) \in Message
  BY DEF Hello, Version, Message
<1>5. ASSUME l \notin Stopped PROVE Turn(l, j, F, B \o Q, n, u, c, T, W, L)
  <2>1. Opened(l, k, F, B, n, u, c, W, L)
    BY <1>1, <1>5 DEF Dialogue, Turn, Answered, Filed, Confirmed
  <2>2. B = <<>> /\ l \in Unmet
    BY <2>1 DEF Opened, Hellos
  <2>3. B \o Q = Q
    BY <1>4, <2>2, Singles
  <2>4. Between(l, j, F, n, u, c, W, L)
    BY <1>2, <1>3, <2>1 DEF Opened, Between
  <2>5. j \in Meeting
    BY DEF Meeting
  <2>6. Opened(l, j, F, B \o Q, n, u, c, W, L)
    BY <2>1, <2>2, <2>3, <2>4, <2>5 DEF Opened, Hellos
  <2>7. QED
    BY <2>6 DEF Turn
<1>6. ASSUME l \in Stopped PROVE Outstanding(l, j, e, F, u, c, W, L)
  BY <1>1, <1>2, <1>3, <1>6 DEF Dialogue, Outstanding
<1>7. QED
  BY <1>1, <1>5, <1>6 DEF Dialogue

\* It hears a hello, a manifest, a file-start or a chunk.
LEMMA ReceiverHearsOn ==
  ASSUME NEW F, NEW B, NEW n, NEW u, NEW c, NEW W, NEW L, Fit(F, B, n, u, c, W, L),
         NEW l, NEW k, NEW e, NEW T, NEW Z,
         Dialogue(l, k, e, F, B, n, u, c, T, W, L, Z), F # <<>>,
         NEW j, NEW v \in Nat,
         \A p \in ReceiveAt(k, u), r \in Int :
           p \in Int /\ Hop(c, W, L, p, Head(F), r) => r \in ReceiveAt(j, v),
         \/ /\ k \in {"waitHello", "waitManifest", "b-manifest"}
            /\ j \in {"waitManifest", "b-manifest", "decide"}
         \/ k \in Starting \cup Chunking /\ j \in Chunking
  PROVE  Dialogue(l, j, e, Tail(F), B, n, v, c, T, W, L, Z)
<1>1. k \notin Stopped /\ j \notin Stopped
  BY DEF Stopped, Ended, Starting, Chunking
<1>2. ASSUME NEW p \in ReceiveAt(k, u), NEW q \in Int, Trail(c, W, L, p, q, F)
      PROVE  \E r \in ReceiveAt(j, v) : Trail(c, W, L, r, q, Tail(F))
  <2>1. p \in Int /\ F \in Seq(Message)
    BY ReceiveAtTyped DEF Fit
  <2>2. PICK r \in Int : Hop(c, W, L, p, Head(F), r) /\ Trail(c, W, L, r, q, Tail(F))
    BY <1>2, <2>1, TrailHead
  <2>3. QED
    BY <2>1, <2>2
<1>3. Between(l, k, F, n, u, c, W, L) => Between(l, j, Tail(F), n, v, c, W, L)
  <2>1. SendAt(l, n) \in Int
    BY SendAtTyped DEF Fit
  <2>2. QED
    BY <1>2, <2>1 DEF Between
<1>4. ASSUME l \notin Stopped PROVE Turn(l, j, Tail(F), B, n, v, c, T, W, L)
  <2>1. Turn(l, k, F, B, n, u, c, T, W, L)
    BY <1>1, <1>4 DEF Dialogue
  <2>2. CASE k \in {"waitHello", "waitManifest", "b-manifest"}
    <3>1. /\ k \notin Starting \cup Chunking \cup Finishing /\ j \in Meeting
          /\ j \notin {"init", "hello"} /\ k \notin {"init", "hello"}
      BY <2>2 DEF Starting, Chunking, Finishing, Meeting
    <3>2. Opened(l, j, Tail(F), B, n, v, c, W, L)
      BY <1>3, <2>1, <3>1 DEF Turn, Opened, Hellos, Answered, Filed, Confirmed
    <3>3. QED
      BY <3>2 DEF Turn
  <2>3. CASE k \in Starting \cup Chunking
    <3>1. k \notin Meeting /\ j \in Chunking
      BY <2>3 DEF Starting, Chunking, Meeting
    <3>2. Filed(l, j, Tail(F), B, n, v, c, T, W, L)
      BY <1>3, <2>1, <3>1 DEF Turn, Opened, Answered, Filed, Confirmed
    <3>3. QED
      BY <3>2 DEF Turn
  <2>4. QED
    BY <2>2, <2>3
<1>5. ASSUME l \in Stopped PROVE Outstanding(l, j, e, Tail(F), v, c, W, L)
  <2>1. Outstanding(l, k, e, F, u, c, W, L)
    BY <1>1, <1>5 DEF Dialogue
  <2>2. QED
    BY <1>2, <2>1 DEF Outstanding
<1>6. QED
  BY <1>1, <1>4, <1>5 DEF Dialogue

\* It has the manifest, hears G besides, and answers.
LEMMA Answering ==
  ASSUME NEW B, NEW n \in Nat, NEW u, NEW c, NEW W, NEW L, NEW l \in Opening, NEW k,
         k \notin {"init", "hello"}, Hellos(l, k, B),
         NEW G \in Seq(Message), Trail(c, W, L, -2, SendAt(l, n), G),
         NEW j \in Starting, NEW ids \in SUBSET Files
  PROVE  Answered(l, j, G, B \o <<Accept(ids)>>, ResolveAccept(ids, NumFiles))
<1>1. SendAt(l, n) \in Int /\ -2 \in Int
  BY SendAtTyped
<1>2. (G = <<>> /\ SendAt(l, n) = -2) \/ Later(-2, SendAt(l, n))
  BY <1>1, TrailOrder
<1>3. l \in Replying \/ SendAt(l, n) = -4 \/ SendAt(l, n) = -3
  <2>1. l \in {"init", "hello"} \/ l \in {"waitHello", "manifest"} \/ l \in Replying
    BY DEF Opening, Replying
  <2>2. QED
    BY <2>1, SendPoints
<1>4. ~Later(-2, -4) /\ ~Later(-2, -3) /\ ~Later(-2, -2)
  BY DEF Later, Past, Finished, Broken
<1>5. l \in Replying => SendAt(l, n) = -2
  BY SendPoints
<1>6. G = <<>> /\ l \in Replying
  BY <1>2, <1>3, <1>4, <1>5
<1>7. B = <<>> \/ (l = "b-reply" /\ B = <<Hello(Version)>>)
  BY <1>6 DEF Hellos, Unmet, Replying
<1>8. Accept(ids) \in Message /\ Hello(Version) \in Message
  BY FilesAreInts DEF Accept, Hello, Version, Message
<1>9. /\ <<>> \o <<Accept(ids)>> = <<Accept(ids)>>
      /\ <<Hello(Version)>> \o <<Accept(ids)>> = <<Hello(Version), Accept(ids)>>
  <2>1. <<Hello(Version)>> \in Seq(Message)
    BY <1>8
  <2>2. Append(<<Hello(Version)>>, Accept(ids)) = <<Hello(Version)>> \o <<Accept(ids)>>
    BY <1>8, <2>1, AppendIsConcat
  <2>3. QED
    BY <1>8, <2>2, Singles, SecondAnswer
<1>10. QED
  BY <1>6, <1>7, <1>9 DEF Answered

\* What a stopped sender has left may be taken up elsewhere.
LEMMA TakenUp ==
  ASSUME NEW c \in Files, NEW W, NEW L \in SUBSET Nat, NEW p \in Aside,
         NEW q \in Int, NEW G \in Seq(Message), Trail(c, W, L, p, q, G),
         NEW l, NEW e, q = Broken => e \notin {"none", "nil"} \/ l = "closed",
         NEW j \in Starting \cup Finishing, NEW v, NEW X
  PROVE  Outstanding(l, j, e, G, v, c, X, L)
<1>1. ReceiveAt(j, v) = {-1}
  BY ReceivePoints
<1>2. -1 \in Int /\ -1 # Finished /\ -1 # Broken /\ Broken \in Int /\ Broken # Finished
  BY DEF Finished, Broken
<1>3. \/ G = <<>> /\ Trail(c, X, L, -1, -1, G)
      \/ G # <<>> /\ Head(G) = Cancel /\ q = Broken /\ Trail(c, X, L, -1, Broken, G)
  BY <1>2, TrailAside
<1>4. QED
  BY <1>1, <1>2, <1>3 DEF Outstanding

LEMMA ReceiverAccepts ==
  ASSUME NEW F, NEW B, NEW n, NEW u, NEW c, NEW W, NEW L, Fit(F, B, n, u, c, W, L),
         NEW l, NEW e, NEW T, NEW Z,
         Dialogue(l, "decide", e, F, B, n, u, c, T, W, L, Z),
         NEW j \in Starting, NEW ids \in SUBSET Files, NEW v
  PROVE  Dialogue(l, j, e, F, B \o <<Accept(ids)>>, n, v, c, T,
                  ResolveAccept(ids, NumFiles), L, Z)
<1>1. "decide" \notin Stopped /\ j \notin Stopped
      /\ "decide" \notin Starting \cup Chunking \cup Finishing \cup {"init", "hello"}
  BY DEF Stopped, Ended, Starting, Chunking, Finishing
<1>2. ReceiveAt("decide", u) = {-2}
  BY ReceivePoints
<1>3. n \in Nat /\ F \in Seq(Message) /\ c \in Files /\ L \in SUBSET Nat
  BY DEF Fit
<1>4. ASSUME l \notin Stopped
      PROVE  Answered(l, j, F, B \o <<Accept(ids)>>, ResolveAccept(ids, NumFiles))
  <2>1. Opened(l, "decide", F, B, n, u, c, W, L)
    BY <1>1, <1>4 DEF Dialogue, Turn, Answered, Filed, Confirmed
  <2>2. /\ l \in Opening /\ Hellos(l, "decide", B)
        /\ Trail(c, W, L, -2, SendAt(l, n), F)
    BY <1>2, <2>1 DEF Opened, Between
  <2>3. QED
    BY <1>1, <1>3, <2>2, Answering
<1>5. ASSUME l \in Stopped
      PROVE  Outstanding(l, j, e, F, v, c, ResolveAccept(ids, NumFiles), L)
  <2>1. PICK q \in Int : /\ Trail(c, W, L, -2, q, F)
                         /\ q = Broken => e \notin {"none", "nil"} \/ l = "closed"
    BY <1>1, <1>2, <1>5 DEF Dialogue, Outstanding
  <2>2. -2 \in Aside
    BY DEF Aside
  <2>3. QED
    BY <1>3, <2>1, <2>2, TakenUp
<1>6. QED
  BY <1>1, <1>4, <1>5 DEF Dialogue, Turn

\* A browser accepts a manifest when it hears it.
LEMMA ReceiverTakesAll ==
  ASSUME NEW F, NEW B, NEW n, NEW u, NEW c, NEW W, NEW L, Fit(F, B, n, u, c, W, L),
         NEW l, NEW e, NEW T, NEW Z,
         Dialogue(l, "b-manifest", e, F, B, n, u, c, T, W, L, Z),
         F # <<>>, Head(F) = Manifest(Metas),
         NEW j \in Starting, NEW ids \in SUBSET Files, NEW v
  PROVE  Dialogue(l, j, e, Tail(F), B \o <<Accept(ids)>>, n, v, c, T,
                  ResolveAccept(ids, NumFiles), L, Z)
<1>1. "b-manifest" \notin Stopped /\ j \notin Stopped
      /\ "b-manifest" \notin Starting \cup Chunking \cup Finishing \cup {"init", "hello"}
  BY DEF Stopped, Ended, Starting, Chunking, Finishing
<1>2. n \in Nat /\ F \in Seq(Message) /\ c \in Files /\ L \in SUBSET Nat
  BY DEF Fit
<1>3. Tail(F) \in Seq(Message)
  BY <1>2, HeadTailProperties
<1>4. ASSUME NEW p \in ReceiveAt("b-manifest", u), NEW q \in Int, Trail(c, W, L, p, q, F)
      PROVE  Trail(c, W, L, -2, q, Tail(F))
  <2>1. p \in Int
    BY <1>2, ReceiveAtTyped DEF Fit
  <2>2. PICK r \in Int : Hop(c, W, L, p, Head(F), r) /\ Trail(c, W, L, r, q, Tail(F))
    BY <1>2, <1>4, <2>1, TrailHead
  <2>3. r = -2
    <3>1. /\ Manifest(Metas).t # Cancel.t /\ Manifest(Metas).t # Hello(Version).t
          /\ Manifest(Metas).t # Done.t /\ Manifest(Metas).t # FileStart(c).t
          /\ \A d : Manifest(Metas).t # Chunk(d).t
          /\ \A d : Manifest(Metas).t # FileEnd(c, d).t
      BY Tags
    <3>2. QED
      BY <2>2, <3>1 DEF Hop
  <2>4. QED
    BY <2>2, <2>3
<1>5. ASSUME l \notin Stopped
      PROVE  Answered(l, j, Tail(F), B \o <<Accept(ids)>>, ResolveAccept(ids, NumFiles))
  <2>1. Opened(l, "b-manifest", F, B, n, u, c, W, L)
    BY <1>1, <1>5 DEF Dialogue, Turn, Answered, Filed, Confirmed
  <2>2. SendAt(l, n) \in Int
    BY <1>2, SendAtTyped
  <2>3. /\ l \in Opening /\ Hellos(l, "b-manifest", B)
        /\ Trail(c, W, L, -2, SendAt(l, n), Tail(F))
    BY <1>4, <2>1, <2>2 DEF Opened, Between
  <2>4. QED
    BY <1>1, <1>2, <1>3, <2>3, Answering
<1>6. ASSUME l \in Stopped
      PROVE  Outstanding(l, j, e, Tail(F), v, c, ResolveAccept(ids, NumFiles), L)
  <2>1. PICK q \in Int : /\ Trail(c, W, L, -2, q, Tail(F))
                         /\ q = Broken => e \notin {"none", "nil"} \/ l = "closed"
    BY <1>1, <1>4, <1>6 DEF Dialogue, Outstanding
  <2>2. -2 \in Aside
    BY DEF Aside
  <2>3. QED
    BY <1>2, <1>3, <2>1, <2>2, TakenUp
<1>7. QED
  BY <1>1, <1>5, <1>6 DEF Dialogue, Turn

\* It acknowledges the file whose end it hears.
LEMMA ReceiverConfirms ==
  ASSUME NEW F, NEW B, NEW n, NEW u, NEW c, NEW W, NEW L, Fit(F, B, n, u, c, W, L),
         NEW l, NEW k \in Chunking, NEW e, NEW T, NEW Z,
         Dialogue(l, k, e, F, B, n, u, c, T, W, L, Z),
         F # <<>>, Head(F).t = "file-end",
         NEW j \in Starting \cup Finishing, NEW v
  PROVE  Dialogue(l, j, e, Tail(F), B \o <<FileAck(c, "ok")>>, n, v, c, T, W \ {c}, L, Z)
<1>1. k \notin Stopped /\ j \notin Stopped /\ k \notin Starting \cup Finishing \cup Meeting
  BY DEF Stopped, Ended, Starting, Chunking, Finishing, Meeting
<1>2. n \in Nat /\ F \in Seq(Message) /\ c \in Files /\ L \in SUBSET Nat
  BY DEF Fit
<1>3. Tail(F) \in Seq(Message) /\ Past \in Int
  BY <1>2, HeadTailProperties DEF Past
<1>4. ASSUME NEW p \in ReceiveAt(k, u), NEW q \in Int, Trail(c, W, L, p, q, F)
      PROVE  Trail(c, W, L, Past, q, Tail(F))
  <2>1. p \in Int
    BY <1>2, ReceiveAtTyped DEF Fit
  <2>2. PICK r \in Int : Hop(c, W, L, p, Head(F), r) /\ Trail(c, W, L, r, q, Tail(F))
    BY <1>2, <1>4, <2>1, TrailHead
  <2>3. r = Past
    <3>1. /\ Head(F) # Cancel /\ Head(F) # Hello(Version) /\ Head(F) # Manifest(Metas)
          /\ Head(F) # Done /\ Head(F) # FileStart(c) /\ \A d : Head(F) # Chunk(d)
      BY Tags
    <3>2. QED
      BY <2>2, <3>1 DEF Hop
  <2>4. QED
    BY <2>2, <2>3
<1>5. ASSUME l \notin Stopped
      PROVE  Confirmed(l, j, Tail(F), B \o <<FileAck(c, "ok")>>, c, T, W \ {c})
  <2>1. Filed(l, k, F, B, n, u, c, T, W, L)
    BY <1>1, <1>5 DEF Dialogue, Turn, Opened, Answered, Confirmed
  <2>2. SendAt(l, n) \in Int /\ SendAt(l, n) \notin {Finished, Broken}
    BY <1>2, SendAtTyped
  <2>3. Trail(c, W, L, Past, SendAt(l, n), Tail(F))
    BY <1>4, <2>1, <2>2 DEF Filed, Between
  <2>4. (Tail(F) = <<>> /\ SendAt(l, n) = Past) \/ Later(Past, SendAt(l, n))
    BY <1>3, <2>2, <2>3, TrailOrder
  <2>5. Tail(F) = <<>> /\ SendAt(l, n) = Past
    BY <2>2, <2>4 DEF Later
  <2>6. l \in Acking
    <3>1. l \in Nexting \/ l \in InFile \/ l \in Acking
      BY <2>1 DEF Filed
    <3>2. Past # -1 /\ Past # n
      BY <1>2 DEF Past
    <3>3. (l \in Nexting => SendAt(l, n) = -1) /\ (l \in InFile => SendAt(l, n) = n)
      BY SendPoints
    <3>4. QED
      BY <2>5, <3>1, <3>2, <3>3
  <2>7. FileAck(c, "ok") \in Message
    BY <1>2, FilesAreInts DEF FileAck, Message
  <2>8. B \o <<FileAck(c, "ok")>> = <<FileAck(c, "ok")>>
    BY <2>1, <2>7, Singles DEF Filed
  <2>9. QED
    BY <2>1, <2>5, <2>6, <2>8 DEF Filed, Confirmed
<1>6. ASSUME l \in Stopped PROVE Outstanding(l, j, e, Tail(F), v, c, W \ {c}, L)
  <2>1. PICK q \in Int : /\ Trail(c, W, L, Past, q, Tail(F))
                         /\ q = Broken => e \notin {"none", "nil"} \/ l = "closed"
    BY <1>1, <1>4, <1>6 DEF Dialogue, Outstanding
  <2>2. Past \in Aside
    BY DEF Aside
  <2>3. QED
    BY <1>2, <1>3, <2>1, <2>2, TakenUp
<1>7. QED
  BY <1>1, <1>5, <1>6 DEF Dialogue, Turn

\* It hears a done only from a sender that has succeeded.
LEMMA DoneIsTrue ==
  ASSUME NEW F, NEW B, NEW n, NEW u, NEW c, NEW W, NEW L, Fit(F, B, n, u, c, W, L),
         NEW l, NEW k, k \notin Stopped, NEW e, NEW T, NEW Z,
         Dialogue(l, k, e, F, B, n, u, c, T, W, L, Z),
         F # <<>>, Head(F) = Done
  PROVE  l \in Stopped /\ e = "nil"
<1>1. F \in Seq(Message) /\ c \in Files /\ L \subseteq Nat
  BY DEF Fit
<1>2. Tail(F) \in Seq(Message)
  BY <1>1, HeadTailProperties
<1>3. ASSUME NEW p \in ReceiveAt(k, u), NEW q \in Int, Trail(c, W, L, p, q, F)
      PROVE  q = Finished
  <2>1. p \in Int
    BY ReceiveAtTyped DEF Fit
  <2>2. PICK r \in Int : Hop(c, W, L, p, Head(F), r) /\ Trail(c, W, L, r, q, Tail(F))
    BY <1>1, <1>3, <2>1, TrailHead
  <2>3. r = Finished
    <3>1. /\ Done # Cancel /\ Done # Hello(Version) /\ Done # Manifest(Metas)
          /\ Done # FileStart(c) /\ \A d : Done # Chunk(d) /\ Done # FileEnd(c, d)
      BY Tags
    <3>2. QED
      BY <2>2, <3>1 DEF Hop
  <2>4. r = q \/ Later(r, q)
    BY <1>2, <2>2, TrailOrder
  <2>5. QED
    BY <2>3, <2>4 DEF Later
<1>4. ASSUME l \notin Stopped PROVE FALSE
  <2>1. Turn(l, k, F, B, n, u, c, T, W, L)
    BY <1>4 DEF Dialogue
  <2>2. QED
    BY <1>3, <2>1, TurnTrail
<1>5. QED
  BY <1>3, <1>4 DEF Dialogue, Outstanding

-----------------------------------------------------------------------------
(* What a receiver that has stopped leaves behind.                         *)

LEMMA RestMore ==
  ASSUME NEW Z, NEW Q \in Seq(Message), Rest(Z, Q), NEW m \in Message, m \in Z
  PROVE  Rest(Z, Q \o <<m>>)
<1>1. Len(Q) \in Nat /\ <<m>> \in Seq(Message) /\ Len(<<m>>) = 1 /\ <<m>>[1] = m
  BY LenProperties
<1>2. /\ Len(Q \o <<m>>) = Len(Q) + 1
      /\ \A k \in 1..Len(Q)+1 : (Q \o <<m>>)[k] = IF k <= Len(Q) THEN Q[k] ELSE <<m>>[k - Len(Q)]
  BY <1>1, ConcatProperties
<1>3. ASSUME NEW k \in 1..Len(Q)+1 PROVE (Q \o <<m>>)[k] \in Z
  <2>1. CASE k <= Len(Q)
    BY <1>1, <1>2, <2>1 DEF Rest
  <2>2. CASE ~(k <= Len(Q))
    <3>1. k - Len(Q) = 1
      BY <1>1, <2>2
    <3>2. QED
      BY <1>1, <1>2, <2>2, <3>1
  <2>3. QED
    BY <2>1, <2>2
<1>4. QED
  BY <1>2, <1>3 DEF Rest

LEMMA OneMore ==
  ASSUME NEW Z, NEW M, NEW Q \in Seq(Message), One(Z, M, Q), NEW m \in Message,
         m \in Z \/ (Q = <<>> /\ m \in M)
  PROVE  One(Z, M, Q \o <<m>>)
<1>1. <<m>> \in Seq(Message) /\ <<>> \o <<m>> = <<m>> /\ Len(<<>>) = 0
  BY Singles, EmptySeq
<1>2. CASE Q = <<>>
  <2>1. <<m>> # <<>> /\ Head(<<m>>) = m /\ Tail(<<m>>) = <<>>
    BY Singles
  <2>2. Rest(Z, <<>>)
    BY <1>1 DEF Rest
  <2>3. m \in Z => Rest(Z, <<m>>)
    BY <1>1 DEF Rest
  <2>4. QED
    BY <1>1, <1>2, <2>1, <2>2, <2>3 DEF One
<1>3. CASE Q # <<>>
  <2>1. /\ Q \o <<m>> # <<>> /\ Head(Q \o <<m>>) = Head(Q)
        /\ Tail(Q \o <<m>>) = Tail(Q) \o <<m>>
    BY <1>1, <1>3, HeadTailConcat
  <2>2. Tail(Q) \in Seq(Message)
    BY <1>3, HeadTailProperties
  <2>3. Rest(Z, Q) => Rest(Z, Q \o <<m>>)
    BY <1>3, RestMore
  <2>4. Rest(Z, Tail(Q)) => Rest(Z, Tail(Q) \o <<m>>)
    BY <1>3, <2>2, RestMore
  <2>5. QED
    BY <1>3, <2>1, <2>3, <2>4 DEF One
<1>4. QED
  BY <1>2, <1>3

LEMMA EchoMore ==
  ASSUME NEW l, NEW c, NEW Z, NEW B \in Seq(Message), Echo(l, c, Z, B),
         NEW m \in Message, m \in Z
  PROVE  Echo(l, c, Z, B \o <<m>>)
<1>1. <<m>> \in Seq(Message)
  BY Singles
<1>2. \A M : One(Z, M, B) => One(Z, M, B \o <<m>>)
  BY OneMore
<1>3. Rest(Z, B) => Rest(Z, B \o <<m>>)
  BY RestMore
<1>4. CASE l = "b-reply"
  <2>1. \/ One(Z, Replies, B)
        \/ B # <<>> /\ Head(B) = Hello(Version) /\ One(Z, Replies, Tail(B))
    BY <1>4, Echoes
  <2>2. ASSUME B # <<>>, Head(B) = Hello(Version), One(Z, Replies, Tail(B))
        PROVE  /\ B \o <<m>> # <<>> /\ Head(B \o <<m>>) = Hello(Version)
               /\ One(Z, Replies, Tail(B \o <<m>>))
    <3>1. /\ B \o <<m>> # <<>> /\ Head(B \o <<m>>) = Head(B)
          /\ Tail(B \o <<m>>) = Tail(B) \o <<m>>
      BY <1>1, <2>2, HeadTailConcat
    <3>2. Tail(B) \in Seq(Message)
      BY <2>2, HeadTailProperties
    <3>3. One(Z, Replies, Tail(B) \o <<m>>)
      BY <2>2, <3>2, OneMore
    <3>4. QED
      BY <2>2, <3>1, <3>3
  <2>3. QED
    BY <1>2, <1>4, <2>1, <2>2, Echoes
<1>5. CASE l # "b-reply"
  BY <1>2, <1>3, <1>5 DEF Echo
<1>6. QED
  BY <1>4, <1>5

LEMMA EmptyEcho ==
  ASSUME NEW l, NEW c, NEW Z
  PROVE  Echo(l, c, Z, <<>>)
<1>1. Rest(Z, <<>>)
  BY EmptySeq DEF Rest
<1>2. QED
  BY <1>1 DEF Echo, One

\* All a receiver has said while both ran may still be heard.
LEMMA TurnEcho ==
  ASSUME NEW F, NEW B, NEW n, NEW u, NEW c, NEW W, NEW L, Fit(F, B, n, u, c, W, L),
         NEW l, NEW k, NEW T, NEW Z, Turn(l, k, F, B, n, u, c, T, W, L)
  PROVE  Echo(l, c, Z, B)
<1>1. Hello(Version) \in Message /\ FileAck(c, "ok") \in Message
  BY FilesAreInts DEF Hello, Version, FileAck, Message, Fit
<1>2. Rest(Z, <<>>)
  BY EmptySeq DEF Rest
<1>3. \A m \in Message : \A M : m \in M => One(Z, M, <<m>>)
  BY <1>2, Singles DEF One
<1>4. CASE Opened(l, k, F, B, n, u, c, W, L)
  <2>1. B = <<>> \/ (B = <<Hello(Version)>> /\ l \in Unmet)
    BY <1>4 DEF Opened, Hellos
  <2>2. ASSUME B = <<Hello(Version)>>, l \in Greeting PROVE Echo(l, c, Z, B)
    BY <1>1, <1>3, <2>2, Echoes
  <2>3. ASSUME B = <<Hello(Version)>>, l = "b-reply" PROVE Echo(l, c, Z, B)
    <3>1. B # <<>> /\ Head(B) = Hello(Version) /\ Tail(B) = <<>>
      BY <1>1, <2>3, Singles
    <3>2. QED
      BY <1>2, <2>3, <3>1, Echoes DEF One
  <2>4. QED
    BY <2>1, <2>2, <2>3, EmptyEcho DEF Unmet, Greeting
<1>5. CASE Answered(l, k, F, B, W)
  <2>1. PICK ids \in SUBSET Files :
          B = <<Accept(ids)>> \/ (l = "b-reply" /\ B = <<Hello(Version), Accept(ids)>>)
    BY <1>5 DEF Answered
  <2>2. Accept(ids) \in Message /\ Accept(ids) \in Replies
    BY FilesAreInts DEF Accept, Message, Replies
  <2>3. One(Z, Replies, <<Accept(ids)>>)
    BY <1>3, <2>2
  <2>4. CASE B = <<Accept(ids)>>
    BY <1>5, <2>3, <2>4, Echoes DEF Answered, Replying
  <2>5. CASE l = "b-reply" /\ B = <<Hello(Version), Accept(ids)>>
    <3>1. B # <<>> /\ Head(B) = Hello(Version) /\ Tail(B) = <<Accept(ids)>>
      BY <1>1, <2>2, <2>5, Singles
    <3>2. QED
      BY <2>3, <2>5, <3>1, Echoes
  <2>6. QED
    BY <2>1, <2>4, <2>5
<1>6. CASE Filed(l, k, F, B, n, u, c, T, W, L)
  BY <1>6, EmptyEcho DEF Filed
<1>7. CASE Confirmed(l, k, F, B, c, T, W)
  <2>1. l \in Acking /\ B = <<FileAck(c, "ok")>>
    BY <1>7 DEF Confirmed
  <2>2. One(Z, {FileAck(c, "ok")}, B)
    BY <1>1, <1>3, <2>1
  <2>3. QED
    BY <2>1, <2>2, Echoes
<1>8. QED
  BY <1>4, <1>5, <1>6, <1>7 DEF Turn

LEMMA ReceiverStops ==
  ASSUME NEW F, NEW B, NEW n, NEW u, NEW c, NEW W, NEW L, Fit(F, B, n, u, c, W, L),
         NEW l, NEW k, k \notin Stopped, NEW e, NEW T, NEW Z,
         Dialogue(l, k, e, F, B, n, u, c, T, W, L, Z),
         NEW j \in Stopped, NEW F2, NEW v, NEW Q,
         \/ Q = <<>> \/ \E m \in Message : m \in Z /\ Q = <<m>>
         \/ k = "decide" /\ Q = <<Reject>>
  PROVE  Dialogue(l, j, e, F2, B \o Q, n, v, c, T, W, L, Z)
<1>1. B \in Seq(Message) /\ n \in Nat
  BY DEF Fit
<1>2. ASSUME l \notin Stopped PROVE Echo(l, c, Z, B \o Q)
  <2>1. Turn(l, k, F, B, n, u, c, T, W, L)
    BY <1>2 DEF Dialogue
  <2>2. Echo(l, c, Z, B)
    BY <2>1, TurnEcho
  <2>3. CASE Q = <<>>
    <3>1. B \o Q = B
      BY <1>1, <2>3, ConcatEmptySeq
    <3>2. QED
      BY <2>2, <3>1
  <2>4. CASE \E m \in Message : m \in Z /\ Q = <<m>>
    BY <1>1, <2>2, <2>4, EchoMore
  <2>5. CASE k = "decide" /\ Q = <<Reject>>
    <3>1. Opened(l, "decide", F, B, n, u, c, W, L)
      BY <2>1, <2>5 DEF Turn, Answered, Filed, Confirmed, Starting, Chunking, Finishing
    <3>2. /\ l \in Opening /\ Hellos(l, "decide", B)
          /\ Trail(c, W, L, -2, SendAt(l, n), F)
      BY <3>1, ReceivePoints DEF Opened, Between
    <3>3. /\ l \in Replying
          /\ B = <<>> \/ (l = "b-reply" /\ B = <<Hello(Version)>>)
      <4>1. {} \in SUBSET Files /\ "decide" \notin {"init", "hello"} /\ F \in Seq(Message)
            /\ "waitStart" \in Starting
        BY DEF Fit, Starting
      <4>2. Answered(l, "waitStart", F, B \o <<Accept({})>>, ResolveAccept({}, NumFiles))
        BY <1>1, <3>2, <4>1, Answering
      <4>3. l \in Replying
        BY <4>2 DEF Answered
      <4>4. QED
        BY <3>2, <4>3 DEF Hellos, Unmet, Replying
    <3>4. Reject \in Message /\ Reject \in Replies /\ Hello(Version) \in Message
      BY DEF Reject, Message, Replies, Hello, Version
    <3>5. One(Z, Replies, <<Reject>>)
      <4>1. Rest(Z, <<>>)
        BY EmptySeq DEF Rest
      <4>2. QED
        BY <3>4, <4>1, Singles DEF One
    <3>6. CASE B = <<>>
      <4>1. B \o Q = <<Reject>>
        BY <2>5, <3>4, <3>6, Singles
      <4>2. QED
        BY <3>3, <3>5, <4>1, Echoes DEF Replying
    <3>7. CASE l = "b-reply" /\ B = <<Hello(Version)>>
      <4>1. <<Hello(Version)>> # <<>> /\ Head(<<Hello(Version)>>) = Hello(Version)
            /\ Tail(<<Hello(Version)>>) = <<>> /\ <<>> \o <<Reject>> = <<Reject>>
            /\ <<Reject>> \in Seq(Message)
        BY <3>4, Singles
      <4>2. /\ B \o Q # <<>> /\ Head(B \o Q) = Hello(Version) /\ Tail(B \o Q) = <<Reject>>
        BY <1>1, <2>5, <3>7, <4>1, HeadTailConcat
      <4>3. QED
        BY <3>5, <3>7, <4>2, Echoes
    <3>8. QED
      BY <3>3, <3>6, <3>7
  <2>6. QED
    BY <2>3, <2>4, <2>5
<1>3. QED
  BY <1>2 DEF Dialogue

\* What a stopped receiver does besides.
LEMMA ReceiverGoesOnStopped ==
  ASSUME NEW F, NEW B, NEW n, NEW u, NEW c, NEW W, NEW L, Fit(F, B, n, u, c, W, L),
         NEW l, NEW k \in Stopped, NEW e, NEW T, NEW Z,
         Dialogue(l, k, e, F, B, n, u, c, T, W, L, Z),
         NEW j \in Stopped, NEW F2, NEW v, NEW Q,
         Q = <<>> \/ \E m \in Message : m \in Z /\ Q = <<m>>
  PROVE  Dialogue(l, j, e, F2, B \o Q, n, v, c, T, W, L, Z)
<1>1. B \in Seq(Message)
  BY DEF Fit
<1>2. ASSUME l \notin Stopped PROVE Echo(l, c, Z, B \o Q)
  <2>1. Echo(l, c, Z, B)
    BY <1>2 DEF Dialogue
  <2>2. CASE Q = <<>>
    <3>1. B \o Q = B
      BY <1>1, <2>2, ConcatEmptySeq
    <3>2. QED
      BY <2>1, <3>1
  <2>3. CASE \E m \in Message : m \in Z /\ Q = <<m>>
    BY <1>1, <2>1, <2>3, EchoMore
  <2>4. QED
    BY <2>2, <2>3
<1>3. QED
  BY <1>2 DEF Dialogue

-----------------------------------------------------------------------------
(* What the network and other programs do to a dialogue.                   *)

Prefix(P, Q) == Len(P) \in 0..Len(Q) /\ \A k \in 1..Len(P) : P[k] = Q[k]

LEMMA PrefixTail ==
  ASSUME NEW Q \in Seq(Message), NEW P \in Seq(Message), Prefix(P, Q), P # <<>>
  PROVE  /\ Q # <<>> /\ Head(P) = Head(Q) /\ Prefix(Tail(P), Tail(Q))
         /\ Tail(P) \in Seq(Message) /\ Tail(Q) \in Seq(Message)
<1>1. Len(P) \in Nat \ {0} /\ Len(Q) \in Nat \ {0} /\ Q # <<>> /\ Len(P) <= Len(Q)
  BY LenProperties, EmptySeq DEF Prefix
<1>2. /\ Head(P) = P[1] /\ Tail(P) \in Seq(Message) /\ Len(Tail(P)) = Len(P) - 1
      /\ \A k \in 1..Len(P)-1 : Tail(P)[k] = P[k + 1]
  BY HeadTailProperties
<1>3. /\ Head(Q) = Q[1] /\ Tail(Q) \in Seq(Message) /\ Len(Tail(Q)) = Len(Q) - 1
      /\ \A k \in 1..Len(Q)-1 : Tail(Q)[k] = Q[k + 1]
  BY <1>1, HeadTailProperties
<1>4. P[1] = Q[1]
  BY <1>1 DEF Prefix
<1>5. \A k \in 1..Len(P)-1 : Tail(P)[k] = Tail(Q)[k]
  <2> SUFFICES ASSUME NEW k \in 1..Len(P)-1 PROVE Tail(P)[k] = Tail(Q)[k]
    OBVIOUS
  <2>1. k + 1 \in 1..Len(P) /\ k \in 1..Len(Q)-1
    BY <1>1
  <2>2. P[k + 1] = Q[k + 1]
    BY <2>1 DEF Prefix
  <2>3. QED
    BY <1>2, <1>3, <2>1, <2>2
<1>6. Len(Tail(P)) \in 0..Len(Tail(Q))
  BY <1>1, <1>2, <1>3
<1>7. QED
  BY <1>1, <1>2, <1>3, <1>4, <1>5, <1>6 DEF Prefix

LEMMA RestPrefix ==
  ASSUME NEW Z, NEW Q \in Seq(Message), NEW P \in Seq(Message), Prefix(P, Q), Rest(Z, Q)
  PROVE  Rest(Z, P)
<1>1. Len(P) \in Nat /\ Len(Q) \in Nat
  BY LenProperties
<1>2. QED
  BY <1>1 DEF Prefix, Rest

LEMMA OnePrefix ==
  ASSUME NEW Z, NEW M, NEW Q \in Seq(Message), NEW P \in Seq(Message), Prefix(P, Q),
         One(Z, M, Q)
  PROVE  One(Z, M, P)
<1>1. CASE P = <<>>
  BY <1>1, EmptySeq DEF One, Rest
<1>2. CASE P # <<>>
  <2>1. /\ Q # <<>> /\ Head(P) = Head(Q) /\ Prefix(Tail(P), Tail(Q))
        /\ Tail(P) \in Seq(Message) /\ Tail(Q) \in Seq(Message)
    BY <1>2, PrefixTail
  <2>2. Rest(Z, Q) => Rest(Z, P)
    BY RestPrefix
  <2>3. Rest(Z, Tail(Q)) => Rest(Z, Tail(P))
    BY <2>1, RestPrefix
  <2>4. QED
    BY <1>2, <2>1, <2>2, <2>3 DEF One
<1>3. QED
  BY <1>1, <1>2

LEMMA EchoPrefix ==
  ASSUME NEW l, NEW c, NEW Z, NEW B \in Seq(Message), Echo(l, c, Z, B),
         NEW P \in Seq(Message), Prefix(P, B)
  PROVE  Echo(l, c, Z, P)
<1>1. \A M : One(Z, M, B) => One(Z, M, P)
  BY OnePrefix
<1>2. Rest(Z, B) => Rest(Z, P)
  BY RestPrefix
<1>3. CASE l = "b-reply"
  <2>1. CASE P = <<>>
    BY <2>1, EmptyEcho
  <2>2. CASE P # <<>>
    <3>1. /\ Head(P) = Head(B) /\ Prefix(Tail(P), Tail(B))
          /\ Tail(P) \in Seq(Message) /\ Tail(B) \in Seq(Message)
      BY <2>2, PrefixTail
    <3>2. One(Z, Replies, Tail(B)) => One(Z, Replies, Tail(P))
      BY <3>1, OnePrefix
    <3>3. QED
      BY <1>1, <1>3, <2>2, <3>1, <3>2, Echoes
  <2>3. QED
    BY <2>1, <2>2
<1>4. CASE l # "b-reply"
  BY <1>1, <1>2, <1>4 DEF Echo
<1>5. QED
  BY <1>3, <1>4

\* The end of what a closed sender said may be lost.
LEMMA SenderCutOff ==
  ASSUME NEW F, NEW B, NEW n, NEW u, NEW c, NEW W, NEW L, Fit(F, B, n, u, c, W, L),
         NEW k, NEW e, NEW T, NEW Z,
         Dialogue("closed", k, e, F, B, n, u, c, T, W, L, Z),
         NEW P \in Seq(Message), Prefix(P, F)
  PROVE  Dialogue("closed", k, e, P, B, n, u, c, T, W, L, Z)
<1>1. "closed" \in Stopped
  BY DEF Stopped, Ended
<1>2. ASSUME k \notin Stopped PROVE Outstanding("closed", k, e, P, u, c, W, L)
  <2>1. PICK p \in ReceiveAt(k, u), q \in Int :
          Trail(c, W, L, p, q, F) /\ (q = Finished => e = "nil")
    BY <1>1, <1>2 DEF Dialogue, Outstanding
  <2>2. p \in Int /\ F \in Seq(Message)
    BY ReceiveAtTyped DEF Fit
  <2>3. PICK r \in Int : Trail(c, W, L, p, r, P) /\ (r = q \/ Later(r, q))
    BY <2>1, <2>2, TrailPrefix DEF Prefix
  <2>4. r = Finished => q = Finished
    BY <2>3 DEF Later
  <2>5. QED
    BY <2>1, <2>3, <2>4 DEF Outstanding
<1>3. QED
  BY <1>1, <1>2 DEF Dialogue

\* A browser that waits takes the close of the channel for a cancel.
LEMMA SenderCloses ==
  ASSUME NEW B, NEW n, NEW u, NEW c, NEW W, NEW L, Fit(<<>>, B, n, u, c, W, L),
         NEW k, NEW e, NEW T, NEW Z,
         Dialogue("closed", k, e, <<>>, B, n, u, c, T, W, L, Z)
  PROVE  Dialogue("closed", k, e, <<Cancel>>, B, n, u, c, T, W, L, Z)
<1>1. "closed" \in Stopped
  BY DEF Stopped, Ended
<1>2. ASSUME k \notin Stopped PROVE Outstanding("closed", k, e, <<Cancel>>, u, c, W, L)
  <2>1. PICK p \in ReceiveAt(k, u) : TRUE
    BY <1>1, <1>2 DEF Dialogue, Outstanding
  <2>2. p \in Int /\ p # Finished /\ c \in Files /\ L \subseteq Nat
    BY ReceiveAtTyped DEF Fit
  <2>3. Hop(c, W, L, p, Cancel, Broken)
    BY <2>2 DEF Hop
  <2>4. Broken \in Int /\ Trail(c, W, L, p, Broken, <<Cancel>>)
    BY <2>2, <2>3, FarewellsTyped, TrailOne
  <2>5. Broken # Finished
    BY DEF Broken, Finished
  <2>6. QED
    BY <2>4, <2>5 DEF Outstanding
<1>3. QED
  BY <1>1, <1>2 DEF Dialogue

LEMMA ReceiverCutOff ==
  ASSUME NEW F, NEW B, NEW n, NEW u, NEW c, NEW W, NEW L, Fit(F, B, n, u, c, W, L),
         NEW l, NEW k \in Stopped, NEW e, NEW T, NEW Z,
         Dialogue(l, k, e, F, B, n, u, c, T, W, L, Z),
         NEW P \in Seq(Message), Prefix(P, B)
  PROVE  Dialogue(l, k, e, F, P, n, u, c, T, W, L, Z)
BY EchoPrefix DEF Dialogue, Fit

\* Lengths that have changed allow for more.
LEMMA DialogueGrows ==
  ASSUME NEW F, NEW B, NEW n, NEW u, NEW c, NEW W, NEW L, Fit(F, B, n, u, c, W, L),
         NEW l, NEW k, NEW e, NEW T, NEW Z,
         Dialogue(l, k, e, F, B, n, u, c, T, W, L, Z),
         NEW M, L \subseteq M, NEW Y, Z \subseteq Y
  PROVE  Dialogue(l, k, e, F, B, n, u, c, T, W, M, Y)
<1>1. \A p, q : Trail(c, W, L, p, q, F) => Trail(c, W, M, p, q, F)
  BY TrailMore DEF Fit
<1>2. Between(l, k, F, n, u, c, W, L) => Between(l, k, F, n, u, c, W, M)
  BY <1>1 DEF Between
<1>3. Turn(l, k, F, B, n, u, c, T, W, L) => Turn(l, k, F, B, n, u, c, T, W, M)
  BY <1>2 DEF Turn, Opened, Filed
<1>4. Outstanding(l, k, e, F, u, c, W, L) => Outstanding(l, k, e, F, u, c, W, M)
  BY <1>1 DEF Outstanding
<1>5. \A Q : Rest(Z, Q) => Rest(Y, Q)
  BY DEF Rest
<1>6. \A N, Q : One(Z, N, Q) => One(Y, N, Q)
  BY <1>5 DEF One
<1>7. Echo(l, c, Z, B) => Echo(l, c, Y, B)
  BY <1>5, <1>6 DEF Echo
<1>8. QED
  BY <1>3, <1>4, <1>7 DEF Dialogue

-----------------------------------------------------------------------------
(* A step of one end.                                                      *)

\* Side s takes a message if h, says Q, goes to l, and its outcome is e.
Move(s, h, Q, l, e) ==
  /\ pc[s] # "closed" /\ (pc[s] \in Stopped => l \in Stopped) /\ l \in Place(s)
  /\ pc' = [pc EXCEPT ![s] = l] /\ err' = [err EXCEPT ![s] = e]
  /\ IF h THEN inbox[s] # <<>> /\ inbox' = [inbox EXCEPT ![s] = Tail(@)] ELSE inbox' = inbox
  /\ wire' = [wire EXCEPT ![Peer(s)] = @ \o Q]
  /\ UNCHANGED <<pending, kind, disk, ctx, closed>>
  /\ pump' = pump \/ pump' = [pump EXCEPT ![s] = IF l \in Stopped THEN "off" ELSE "on"]
  /\ chan' = chan \/ (l = "closed" /\ chan' = [chan EXCEPT ![s] = "closed"])

\* What a side that stops may say of the other.
Justly(s, e) ==
  /\ e \notin {"version", "hash-mismatch"}
  /\ Browser(s) /\ e \notin {"nil", "left", "local"} => Failed(Peer(s)) \/ At(Peer(s), "closed")
  /\ ~Browser(s) /\ e \in {"protocol", "peer-error"} => Changed
  /\ s = "rcv" => (e = "nil" => err["snd"] = "nil") /\ (Browser(s) => e # "local")

Ending(s, l, e) ==
  /\ e \in Errors \cup {"left"} /\ (l \in Stopped <=> e # "none")
  /\ l = "failed" => e # "nil"
  /\ IF err[s] # "none" THEN e = err[s] ELSE e # "none" => Justly(s, e)

LEMMA ConcatThree ==
  ASSUME NEW P \in Seq(Message), NEW Q \in Seq(Message), NEW R \in Seq(Message)
  PROVE  P \o (Q \o R) = (P \o Q) \o R
BY ConcatAssociative

LEMMA MoveLines ==
  ASSUME Basis, NEW s \in Side, NEW h \in BOOLEAN, NEW Q \in Seq(Message),
         NEW l, NEW e, Move(s, h, Q, l, e)
  PROVE  /\ Lines' /\ \A t \in Side : pending'[t] = <<>>
         /\ Coming(s)' = IF h THEN Tail(Coming(s)) ELSE Coming(s)
         /\ h => Coming(s) # <<>> /\ NextMsg(s) = Head(Coming(s))
         /\ Coming(Peer(s))' = Coming(Peer(s)) \o Q
<1>1. Lines /\ Peer(s) \in Side /\ Peer(s) # s /\ pending[s] = <<>>
  BY PeerSide DEF Basis
<1>2. /\ inbox \in [Side -> Seq(Message)] /\ wire \in [Side -> Seq(Message)]
      /\ pending' = pending
  BY <1>1 DEF Lines, Move
<1>3. /\ inbox[s] \in Seq(Message) /\ inbox[Peer(s)] \in Seq(Message)
      /\ wire[s] \in Seq(Message) /\ wire[Peer(s)] \in Seq(Message)
  BY <1>1, <1>2
<1>4. /\ inbox'[s] = (IF h THEN Tail(inbox[s]) ELSE inbox[s]) /\ inbox'[Peer(s)] = inbox[Peer(s)]
      /\ inbox' \in [Side -> Seq(Message)]
  <2>1. CASE h
    <3>1. inbox[s] # <<>> /\ inbox' = [inbox EXCEPT ![s] = Tail(@)]
      BY <2>1 DEF Move
    <3>2. Tail(inbox[s]) \in Seq(Message)
      BY <3>1, <1>3, HeadTailProperties
    <3> QED BY <3>1, <3>2, <2>1, <1>1, <1>2
  <2>2. CASE ~h
    BY <2>2, <1>2 DEF Move
  <2> QED BY <2>1, <2>2
<1>5. /\ wire'[s] = wire[s] /\ wire'[Peer(s)] = wire[Peer(s)] \o Q
      /\ wire' \in [Side -> Seq(Message)]
  <2>1. wire' = [wire EXCEPT ![Peer(s)] = @ \o Q]
    BY DEF Move
  <2>2. wire[Peer(s)] \o Q \in Seq(Message)
    BY <1>3, ConcatProperties
  <2> QED BY <2>1, <2>2, <1>1, <1>2
<1>6. Coming(s)' = IF h THEN Tail(Coming(s)) ELSE Coming(s)
  <2>1. CASE h
    <3>1. inbox[s] # <<>>
      BY <2>1 DEF Move
    <3>2. Tail(inbox[s] \o wire[s]) = Tail(inbox[s]) \o wire[s]
      BY <3>1, <1>3, HeadTailConcat
    <3>3. inbox'[s] \o wire'[s] = Tail(inbox[s]) \o wire[s]
      BY <2>1, <1>4, <1>5
    <3> QED BY <2>1, <3>2, <3>3 DEF Coming
  <2>2. CASE ~h
    BY <2>2, <1>4, <1>5 DEF Coming
  <2> QED BY <2>1, <2>2
<1>7. h => Coming(s) # <<>> /\ NextMsg(s) = Head(Coming(s))
  <2>1. ASSUME h
        PROVE  inbox[s] # <<>> /\ inbox[s] \in Seq(Message) /\ wire[s] \in Seq(Message)
    BY <2>1, <1>3 DEF Move
  <2>2. ASSUME h
        PROVE  inbox[s] \o wire[s] # <<>> /\ Head(inbox[s] \o wire[s]) = Head(inbox[s])
    BY <2>1, <2>2, HeadTailConcat
  <2>3. NextMsg(s) = Head(inbox[s])
    BY <1>1 DEF NextMsg
  <2> QED BY <2>2, <2>3 DEF Coming
<1>8. Coming(Peer(s))' = Coming(Peer(s)) \o Q
  <2>1. inbox[Peer(s)] \o (wire[Peer(s)] \o Q) = (inbox[Peer(s)] \o wire[Peer(s)]) \o Q
    <3>1. PICK a \in Seq(Message) : a = inbox[Peer(s)]
      BY <1>3
    <3>2. PICK b \in Seq(Message) : b = wire[Peer(s)]
      BY <1>3
    <3>3. a \o (b \o Q) = (a \o b) \o Q
      BY ConcatThree
    <3> QED BY <3>1, <3>2, <3>3, Zenon
  <2>2. inbox'[Peer(s)] \o wire'[Peer(s)] = inbox[Peer(s)] \o (wire[Peer(s)] \o Q)
    BY <1>4, <1>5
  <2>3. Coming(Peer(s))' = inbox'[Peer(s)] \o wire'[Peer(s)]
    BY <1>1 DEF Coming, Peer
  <2> QED BY <2>1, <2>2, <2>3 DEF Coming
<1>9. Lines' /\ \A t \in Side : pending'[t] = <<>>
  BY <1>1, <1>2, <1>4, <1>5 DEF Lines, Basis
<1> QED BY <1>6, <1>7, <1>8, <1>9

LEMMA MoveLinks ==
  ASSUME Basis, Placed, Links, NEW s \in Side, NEW h, NEW Q, NEW l,
         NEW e \in Errors \cup {"left"}, Move(s, h, Q, l, e)
  PROVE  /\ pc' \in [Side -> Labels \cup Waits \cup Others] /\ pc'[s] = l
         /\ pc'[Peer(s)] = pc[Peer(s)]
         /\ err' \in [Side -> Errors \cup {"left"}] /\ err'[s] = e
         /\ err'[Peer(s)] = err[Peer(s)]
         /\ Link' /\ Placed' /\ Links'
<1>1. Peer(s) \in Side /\ Peer(s) # s /\ Peer(Peer(s)) = s /\ \A t \in Side : t = s \/ t = Peer(s)
  BY DEF Side, Peer
<1>2. kind' = kind
  BY DEF Move
<1>3. \A t \in Side : Place(t)' = Place(t)
  BY <1>2 DEF Place, Browser
<1>4. \A t \in Side : Place(t) \subseteq Labels \cup Waits \cup Others
  BY DEF Place, BrowserSender, JsiSender, BrowserReceiver, JsiReceiver, Greeting, Filing,
     Ended, Labels, Waits, Others
<1>5. l \in Place(s) /\ pc' = [pc EXCEPT ![s] = l] /\ pc \in [Side -> Labels \cup Waits \cup Others]
  BY DEF Move, Basis
<1>6. /\ pc' \in [Side -> Labels \cup Waits \cup Others] /\ pc'[s] = l
      /\ pc'[Peer(s)] = pc[Peer(s)]
  BY <1>1, <1>4, <1>5
<1>7. /\ err' \in [Side -> Errors \cup {"left"}] /\ err'[s] = e
      /\ err'[Peer(s)] = err[Peer(s)]
  BY <1>1 DEF Move, Basis
<1>8. Placed'
  BY <1>1, <1>3, <1>5, <1>6 DEF Placed
<1>9. /\ pump' \in [Side -> {"none", "on", "off"}] /\ pump'[Peer(s)] = pump[Peer(s)]
      /\ pump'[s] = "off" => pump[s] = "off" \/ l \in Stopped
  <2>1. pump \in [Side -> {"none", "on", "off"}]
    BY DEF Basis, Link
  <2>2. pump' = pump \/ pump' = [pump EXCEPT ![s] = IF l \in Stopped THEN "off" ELSE "on"]
    BY DEF Move
  <2> QED BY <2>1, <2>2, <1>1
<1>10. /\ chan' \in [Side -> {"open", "hook", "closed"}] /\ chan'[Peer(s)] = chan[Peer(s)]
       /\ chan'[s] = chan[s] \/ (l = "closed" /\ chan'[s] = "closed")
  <2>1. chan \in [Side -> {"open", "hook", "closed"}]
    BY DEF Basis, Link
  <2>2. chan' = chan \/ (l = "closed" /\ chan' = [chan EXCEPT ![s] = "closed"])
    BY DEF Move
  <2> QED BY <2>1, <2>2, <1>1
<1>11. Link'
  BY <1>9, <1>10 DEF Link, Move, Basis
<1>12. ASSUME NEW t \in Side
       PROVE  /\ (pump[t] = "off" => ~Lives(t))'
              /\ (chan[t] # "open" => At(t, "closed") \/ At(Peer(t), "closed"))'
              /\ (chan[t] = "hook" => wire[t] = <<>> /\ At(Peer(t), "closed"))'
              /\ (closed[t] => chan[t] = "closed")'
  <2>1. /\ pc[s] # "closed" /\ (pc[s] \in Stopped => l \in Stopped)
        /\ closed' = closed
    BY DEF Move
  <2>2. /\ pump[t] = "off" => ~Lives(t)
        /\ chan[t] # "open" => At(t, "closed") \/ At(Peer(t), "closed")
        /\ chan[t] = "hook" => wire[t] = <<>> /\ At(Peer(t), "closed")
        /\ closed[t] => chan[t] = "closed"
    BY DEF Links
  <2>3. wire'[s] = wire[s]
    BY <1>1 DEF Move, Basis, Lines
  <2>4. CASE t = s
    <3>1. (pump[t] = "off" => ~Lives(t))'
      BY <2>1, <2>2, <2>4, <1>6, <1>9 DEF Lives
    <3>2. (chan[t] # "open" => At(t, "closed") \/ At(Peer(t), "closed"))'
      BY <2>1, <2>2, <2>4, <1>6, <1>10 DEF At
    <3>3. (chan[t] = "hook" => wire[t] = <<>> /\ At(Peer(t), "closed"))'
      BY <2>1, <2>2, <2>3, <2>4, <1>6, <1>10 DEF At
    <3>4. (closed[t] => chan[t] = "closed")'
      BY <2>1, <2>2, <2>4, <1>10
    <3> QED BY <3>1, <3>2, <3>3, <3>4
  <2>5. CASE t = Peer(s)
    <3>1. (pump[t] = "off" => ~Lives(t))'
      BY <2>1, <2>2, <2>5, <1>6, <1>9 DEF Lives
    <3>2. (chan[t] # "open" => At(t, "closed") \/ At(Peer(t), "closed"))'
      BY <2>1, <2>2, <2>5, <1>1, <1>6, <1>10 DEF At
    <3>3. (chan[t] = "hook" => wire[t] = <<>> /\ At(Peer(t), "closed"))'
      BY <2>1, <2>2, <2>5, <1>1, <1>6, <1>10 DEF At
    <3>4. (closed[t] => chan[t] = "closed")'
      BY <2>1, <2>2, <2>5, <1>10
    <3> QED BY <3>1, <3>2, <3>3, <3>4
  <2> QED BY <2>4, <2>5, <1>1
<1>13. Links'
  BY <1>12 DEF Links
<1> QED BY <1>6, <1>7, <1>8, <1>11, <1>13

LEMMA MoveVerdicts ==
  ASSUME Basis, Placed, Links, Verdicts, NEW s \in Side, NEW h, NEW Q, NEW l, NEW e,
         Move(s, h, Q, l, e), Ending(s, l, e)
  PROVE  Verdicts'
<1>1. Peer(s) \in Side /\ Peer(s) # s /\ Peer(Peer(s)) = s /\ \A t \in Side : t = s \/ t = Peer(s)
  BY DEF Side, Peer
<1>2. /\ pc'[s] = l /\ pc'[Peer(s)] = pc[Peer(s)] /\ err'[s] = e /\ err'[Peer(s)] = err[Peer(s)]
      /\ pc[s] # "closed"
  BY MoveLinks DEF Ending, Move
<1>3. (\A t \in Side : Browser(t)' = Browser(t)) /\ Changed' = Changed
  BY DEF Browser, Changed, Move
<1>4. err[s] # "none" => e = err[s]
  BY DEF Ending
<1>5. \A t \in Side : (Lives(t) <=> err[t] = "none")'
  BY <1>1, <1>2 DEF Lives, Ending, Verdicts
<1>6. \A t \in Side : (At(t, "failed") => Failed(t))'
  <2>1. l = "failed" => e \notin {"none", "nil"}
    BY DEF Ending, Stopped, Ended
  <2> QED BY <2>1, <1>1, <1>2 DEF At, Failed, Verdicts
<1>7. (err["rcv"] = "nil" => err["snd"] = "nil")'
  <2>1. CASE s = "snd"
    BY <2>1, <1>2, <1>4 DEF Verdicts, Peer
  <2>2. CASE s = "rcv"
    <3>1. CASE err[s] # "none"
      BY <3>1, <2>2, <1>2, <1>4 DEF Verdicts, Peer
    <3>2. CASE err[s] = "none"
      BY <3>2, <2>2, <1>2 DEF Ending, Justly, Peer
    <3> QED BY <3>1, <3>2
  <2> QED BY <2>1, <2>2 DEF Side
<1>8. ASSUME NEW t \in Side
      PROVE  (Browser(t) /\ Failed(t) /\ err[t] \notin {"left", "local"}
                => Failed(Peer(t)) \/ At(Peer(t), "closed"))'
  <2>1. Browser(t) /\ Failed(t) /\ err[t] \notin {"left", "local"}
          => Failed(Peer(t)) \/ At(Peer(t), "closed")
    BY DEF Verdicts
  <2>2. CASE t = Peer(s)
    BY <2>1, <2>2, <1>1, <1>2, <1>3, <1>4 DEF Failed, At
  <2>3. CASE t = s /\ err[s] # "none"
    BY <2>1, <2>3, <1>1, <1>2, <1>3, <1>4 DEF Failed, At
  <2>4. CASE t = s /\ err[s] = "none"
    BY <2>4, <1>1, <1>2, <1>3 DEF Failed, At, Ending, Justly
  <2> QED BY <2>2, <2>3, <2>4, <1>1
<1>9. (Browser("rcv") => err["rcv"] # "local")'
  <2>1. CASE s = "snd"
    BY <2>1, <1>2, <1>3 DEF Verdicts, Peer, Side
  <2>2. CASE s = "rcv" /\ err[s] # "none"
    BY <2>2, <1>2, <1>3, <1>4 DEF Verdicts, Side
  <2>3. CASE s = "rcv" /\ err[s] = "none"
    BY <2>3, <1>2, <1>3 DEF Ending, Justly, Side
  <2> QED BY <2>1, <2>2, <2>3 DEF Side
<1>10. ASSUME NEW t \in Side
       PROVE  /\ (err[t] \notin {"version", "hash-mismatch"})'
              /\ (~Browser(t) /\ err[t] \in {"protocol", "peer-error"} => Changed)'
  <2>1. CASE t = Peer(s)
    BY <2>1, <1>2, <1>3 DEF Verdicts
  <2>2. CASE t = s /\ err[s] # "none"
    BY <2>2, <1>2, <1>3, <1>4 DEF Verdicts
  <2>3. CASE t = s /\ err[s] = "none" /\ e # "none"
    BY <2>3, <1>2, <1>3 DEF Ending, Justly
  <2>4. CASE t = s /\ err[s] = "none" /\ e = "none"
    BY <2>4, <1>2, <1>3
  <2> QED BY <2>1, <2>2, <2>3, <2>4, <1>1
<1> QED BY <1>5, <1>6, <1>7, <1>8, <1>9, <1>10 DEF Verdicts

LEMMA UnitsTyped ==
  ASSUME ReceiverHolds
  PROVE  Units \in Nat
<1>1. CASE pc["rcv"] \in Chunking
  <2>1. Part \in Content
    BY <1>1 DEF ReceiverHolds
  <2> QED BY <1>1, <2>1 DEF Units, Content
<1>2. CASE pc["rcv"] \notin Chunking
  BY <1>2 DEF Units
<1> QED BY <1>1, <1>2

LEMMA LengthsTyped ==
  ASSUME cur \in Files
  PROVE  Lengths \in SUBSET Nat
<1>1. Size[cur] \in Nat
  BY SizesAreNat
<1> QED BY <1>1 DEF Lengths

LEMMA Fits ==
  ASSUME Basis, ReceiverHolds
  PROVE  Fit(Coming("rcv"), Coming("snd"), sent, Units, cur, want, Lengths)
BY UnitsTyped, LengthsTyped, ComingTyped DEF Basis, Fit, Side

-----------------------------------------------------------------------------
(* A step of an end keeps the invariant.                                   *)

\* Everything the receiver has to itself.
Receives == <<rcvVars, part, results>>

LEMMA SenderKeepsReceiver ==
  ASSUME Basis, ReceiverHolds, UNCHANGED Receives, kind' = kind,
         pc'["rcv"] = pc["rcv"], cur' = cur \/ pc["rcv"] \notin Chunking
  PROVE  ReceiverHolds' /\ Units' = Units
<1>1. /\ Browser("rcv")' = Browser("rcv") /\ meta' = meta /\ want' = want /\ dest' = dest
      /\ dir' = dir /\ saved' = saved /\ part' = part
  BY DEF Browser, Receives, rcvVars
<1>2. Part' = Part
  BY <1>1 DEF Part
<1>3. Units' = Units
  BY <1>2 DEF Units
<1>4. (pc["rcv"] \in Chunking => /\ IsNext(cur, want)
                                 /\ Part \in Content /\ Part = FileData(cur, Len(Part)))'
  BY <1>1, <1>2 DEF ReceiverHolds
<1>5. (At("rcv", "chunks") => dest \in Paths /\ \A id \in SavedIds : saved[id] # dest)'
  BY <1>1 DEF ReceiverHolds, At, SavedIds
<1> QED BY <1>1, <1>3, <1>4, <1>5 DEF ReceiverHolds

\* A sender that does not wait for an ack hears none.
LEMMA NoAck ==
  ASSUME NEW F, NEW B, NEW n, NEW u, NEW c, NEW W, NEW L, Fit(F, B, n, u, c, W, L),
         NEW l, NEW k, NEW e, NEW T, NEW Z, Z \subseteq {Cancel, ErrorMsg("protocol")},
         Dialogue(l, k, e, F, B, n, u, c, T, W, L, Z),
         l \notin Stopped, l \notin Acking, B # <<>>
  PROVE  Head(B).t # "file-ack"
<1>1. \/ l \in Unmet /\ Head(B) = Hello(Version)
      \/ l \in Replying /\ \E ids \in SUBSET Files : Head(B) = Accept(ids)
      \/ l \in Acking /\ Head(B) = FileAck(c, "ok")
      \/ k \in Stopped /\ (Head(B) \in Z \/ (l \in Replying /\ Head(B) = Reject))
  BY HeardBySender
<1> QED BY <1>1, Tags

LEMMA SenderMoveKeeps ==
  ASSUME Interlock, NEW h \in BOOLEAN, NEW Q \in Seq(Message), NEW l, NEW e,
         Move("snd", h, Q, l, e), Ending("snd", l, e), UNCHANGED Receives,
         accepted' \in SUBSET Files, todo' \in SUBSET accepted', cur' \in Files,
         sent' \in Nat, buf' \in Nat,
         cur' = cur \/ pc["rcv"] \notin Chunking,
         l \in Acking => ~h /\ cur' = cur,
         Dialogue(l, pc["rcv"], e, Coming("rcv") \o Q,
                  IF h THEN Tail(Coming("snd")) ELSE Coming("snd"), sent', Units, cur',
                  todo', want, Lengths', Farewells),
         \A id \in accepted' \ todo' :
           id \in Acked \/ (id = cur /\ h /\ Lives("snd") /\ Head(Coming("snd")) = FileAck(cur, "ok")),
         SenderHolds'
  PROVE  Interlock'
<1>1. Basis /\ Placed /\ Links /\ Talk /\ SenderHolds /\ ReceiverHolds /\ Stores /\ Verdicts
  BY DEF Interlock
<1>2. Peer("snd") = "rcv" /\ "snd" \in Side /\ "rcv" \in Side
  BY DEF Peer, Side
<1>3. e \in Errors \cup {"left"}
  BY DEF Ending
<1>4. /\ Lines' /\ \A t \in Side : pending'[t] = <<>>
      /\ Coming("snd")' = IF h THEN Tail(Coming("snd")) ELSE Coming("snd")
      /\ h => Coming("snd") # <<>>
      /\ Coming("rcv")' = Coming("rcv") \o Q
  <2>1. /\ Lines' /\ \A t \in Side : pending'[t] = <<>>
        /\ Coming("snd")' = IF h THEN Tail(Coming("snd")) ELSE Coming("snd")
        /\ h => Coming("snd") # <<>>
        /\ Coming(Peer("snd"))' = Coming(Peer("snd")) \o Q
    BY <1>1, <1>2, MoveLines
  <2> QED BY <2>1 DEF Peer
<1>5. /\ pc' \in [Side -> Labels \cup Waits \cup Others] /\ pc'["snd"] = l
      /\ pc'["rcv"] = pc["rcv"]
      /\ err' \in [Side -> Errors \cup {"left"}] /\ err'["snd"] = e
      /\ err'["rcv"] = err["rcv"]
      /\ Link' /\ Placed' /\ Links'
  BY <1>1, <1>2, <1>3, MoveLinks
<1>6. Verdicts'
  BY <1>1, <1>2, MoveVerdicts
<1>7. kind' = kind /\ disk' = disk /\ (pc["snd"] \in Stopped => l \in Stopped)
  BY DEF Move
<1>8. ReceiverHolds' /\ Units' = Units
  BY <1>1, <1>5, <1>7, SenderKeepsReceiver
<1>9. /\ want' = want /\ dest' = dest /\ dir' = dir /\ saved' = saved
      /\ part' = part /\ results' = results
  BY DEF Receives, rcvVars
<1>10. Basis'
  <2>1. /\ (kind \in [Side -> {"jsi", "browser"}])' /\ (disk \in [Files -> Nat])'
        /\ (want \in SUBSET Files)'
        /\ (dest \in Paths \cup {NoPath})' /\ (dir \in [Paths -> Content \cup {NoFile}])'
        /\ (part \in Content)'
    BY <1>1, <1>7, <1>9 DEF Basis
  <2> QED BY <2>1, <1>4, <1>5 DEF Basis
<1>11. Farewells' = Farewells /\ Farewells \subseteq {Cancel, ErrorMsg("protocol")}
  BY <1>7 DEF Farewells, Changed
<1>12. Talk'
  <2>1. (Talk)' = Dialogue(pc'["snd"], pc'["rcv"], err'["snd"], Coming("rcv")', Coming("snd")',
                           sent', Units', cur', todo', want', Lengths', Farewells')
    BY DEF Talk
  <2> QED BY <2>1, <1>4, <1>5, <1>8, <1>9, <1>11
<1>13. Lost' = Lost /\ \A id : Held(id)' <=> Held(id)
  BY <1>5, <1>7, <1>9 DEF Lost, Held, Browser, Failed, SavedIds
<1>14. (\A id \in SavedIds : /\ id \in Files /\ saved[id] \in Paths
                             /\ dir[saved[id]] = FileData(id, Size[id]))'
  BY <1>1, <1>9 DEF Stores, SavedIds
<1>15. (\A id \in DOMAIN results : id \in Files /\ results[id] = FileData(id, Size[id]))'
  BY <1>1, <1>9 DEF Stores
<1>16. (Lost \/ \A id \in Acked : Held(id))'
  <2>1. Lost \/ \A id \in Acked : Held(id)
    BY <1>1 DEF Stores
  <2>2. Lives("snd") /\ Coming("snd") # <<>> /\ Head(Coming("snd")) = FileAck(cur, "ok")
          => Lost \/ Held(cur)
    BY <1>1 DEF Stores
  <2>3. Lost \/ \A id \in accepted' \ todo' : Held(id)
    BY <2>1, <2>2, <1>4
  <2> QED BY <2>3, <1>13 DEF Acked
<1>17. (Lives("snd") /\ Coming("snd") # <<>> /\ Head(Coming("snd")) = FileAck(cur, "ok")
          => Lost \/ Held(cur))'
  <2>1. SUFFICES ASSUME Lives("snd")', Coming("snd")' # <<>>,
                        Head(Coming("snd")') = FileAck(cur', "ok")
                 PROVE  Lost' \/ Held(cur)'
    OBVIOUS
  <2>2. l \notin Stopped /\ pc["snd"] \notin Stopped
    BY <2>1, <1>5, <1>7 DEF Lives
  <2>3. CASE l \in Acking
    <3>1. cur' = cur /\ Coming("snd")' = Coming("snd")
      BY <2>3, <1>4
    <3>2. Lost \/ Held(cur)
      BY <3>1, <2>1, <2>2, <1>1 DEF Stores, Lives
    <3> QED BY <3>1, <3>2, <1>13
  <2>4. CASE l \notin Acking
    <3>1. Fit(Coming("rcv")', Coming("snd")', sent', Units', cur', want', Lengths')
      <4>1. Units' \in Nat
        BY <1>1, <1>8, UnitsTyped
      <4>2. Lengths' \in SUBSET Nat
        BY SizesAreNat DEF Lengths, Changed
      <4>3. /\ wire'["snd"] \in Seq(Message) /\ inbox'["snd"] \in Seq(Message)
            /\ wire'["rcv"] \in Seq(Message) /\ inbox'["rcv"] \in Seq(Message)
        BY <1>2, <1>4 DEF Lines
      <4>4. Coming("snd")' \in Seq(Message) /\ Coming("rcv")' \in Seq(Message)
        BY <4>3, ConcatProperties DEF Coming
      <4>5. want' \in SUBSET Files
        BY <1>1, <1>9 DEF Basis
      <4> QED BY <4>1, <4>2, <4>4, <4>5 DEF Fit
    <3>2. Dialogue(pc'["snd"], pc'["rcv"], err'["snd"], Coming("rcv")', Coming("snd")',
                   sent', Units', cur', todo', want', Lengths', Farewells')
      BY <1>12 DEF Talk
    <3>3. Head(Coming("snd")').t # "file-ack"
      BY <3>1, <3>2, <2>1, <2>2, <2>4, <1>5, <1>11, NoAck
    <3> QED BY <3>3, <2>1, Tags
  <2> QED BY <2>3, <2>4
<1>18. Stores'
  BY <1>14, <1>15, <1>16, <1>17 DEF Stores
<1> QED BY <1>5, <1>6, <1>8, <1>10, <1>12, <1>18 DEF Interlock

LEMMA ReceiverMoveKeeps ==
  ASSUME Interlock, NEW h \in BOOLEAN, NEW Q \in Seq(Message), NEW l, NEW e,
         Move("rcv", h, Q, l, e), Ending("rcv", l, e), UNCHANGED sndVars,
         want' \in SUBSET Files, dest' \in Paths \cup {NoPath},
         dir' \in [Paths -> Content \cup {NoFile}], part' \in Content,
         Dialogue(pc["snd"], l, err["snd"], IF h THEN Tail(Coming("rcv")) ELSE Coming("rcv"),
                  Coming("snd") \o Q, sent, Units', cur, todo, want', Lengths, Farewells),
         ReceiverHolds',
         Lost' \/ \A id : Held(id) => Held(id)',
         Q = <<>> \/ \E m \in Message : Q = <<m>> /\ (m = FileAck(cur, "ok") => Lost' \/ Held(cur)'),
         \A id \in SavedIds' : /\ id \in Files /\ saved'[id] \in Paths
                               /\ dir'[saved'[id]] = FileData(id, Size[id]),
         \A id \in DOMAIN results' : id \in Files /\ results'[id] = FileData(id, Size[id])
  PROVE  Interlock'
<1>1. Basis /\ Placed /\ Links /\ Talk /\ SenderHolds /\ ReceiverHolds /\ Stores /\ Verdicts
  BY DEF Interlock
<1>2. Peer("rcv") = "snd" /\ "snd" \in Side /\ "rcv" \in Side
  BY DEF Peer, Side
<1>3. e \in Errors \cup {"left"}
  BY DEF Ending
<1>4. /\ Lines' /\ \A t \in Side : pending'[t] = <<>>
      /\ Coming("rcv")' = IF h THEN Tail(Coming("rcv")) ELSE Coming("rcv")
      /\ Coming("snd")' = Coming("snd") \o Q
  <2>1. /\ Lines' /\ \A t \in Side : pending'[t] = <<>>
        /\ Coming("rcv")' = IF h THEN Tail(Coming("rcv")) ELSE Coming("rcv")
        /\ Coming(Peer("rcv"))' = Coming(Peer("rcv")) \o Q
    BY <1>1, <1>2, MoveLines
  <2> QED BY <2>1 DEF Peer
<1>5. /\ pc' \in [Side -> Labels \cup Waits \cup Others] /\ pc'["rcv"] = l
      /\ pc'["snd"] = pc["snd"]
      /\ err' \in [Side -> Errors \cup {"left"}] /\ err'["rcv"] = e
      /\ err'["snd"] = err["snd"]
      /\ Link' /\ Placed' /\ Links'
  BY <1>1, <1>2, <1>3, MoveLinks
<1>6. Verdicts'
  BY <1>1, <1>2, MoveVerdicts
<1>7. /\ kind' = kind /\ disk' = disk
      /\ accepted' = accepted /\ todo' = todo /\ cur' = cur /\ sent' = sent /\ buf' = buf
  BY DEF Move, sndVars
<1>8. Farewells' = Farewells /\ Lengths' = Lengths
  BY <1>7 DEF Farewells, Lengths, Changed
<1>9. SenderHolds'
  BY <1>1, <1>5, <1>7, <1>8 DEF SenderHolds, At
<1>10. Basis'
  <2>1. /\ (kind \in [Side -> {"jsi", "browser"}])'
        /\ (accepted \in SUBSET Files /\ todo \in SUBSET accepted)'
        /\ (cur \in Files /\ sent \in Nat /\ buf \in Nat /\ disk \in [Files -> Nat])'
    BY <1>1, <1>7 DEF Basis
  <2> QED BY <2>1, <1>4, <1>5 DEF Basis
<1>12. Talk'
  <2>1. (Talk)' = Dialogue(pc'["snd"], pc'["rcv"], err'["snd"], Coming("rcv")', Coming("snd")',
                           sent', Units', cur', todo', want', Lengths', Farewells')
    BY DEF Talk
  <2> QED BY <2>1, <1>4, <1>5, <1>7, <1>8
<1>16. (Lost \/ \A id \in Acked : Held(id))'
  <2>1. Lost \/ \A id \in Acked : Held(id)
    BY <1>1 DEF Stores
  <2>2. Lost => Lost'
    BY <1>1, <1>5, <1>7 DEF Lost, Failed, Browser, Ending
  <2> QED BY <2>1, <2>2, <1>7 DEF Acked
<1>17. (Lives("snd") /\ Coming("snd") # <<>> /\ Head(Coming("snd")) = FileAck(cur, "ok")
          => Lost \/ Held(cur))'
  <2>1. SUFFICES ASSUME Lives("snd")', Coming("snd")' # <<>>,
                        Head(Coming("snd")') = FileAck(cur, "ok")
                 PROVE  Lost' \/ Held(cur)'
    BY <1>7
  <2>2. Coming("snd") \in Seq(Message)
    BY <1>1, <1>2, ComingTyped DEF Basis
  <2>3. CASE Coming("snd") # <<>>
    <3>1. Head(Coming("snd")') = Head(Coming("snd"))
      BY <2>2, <2>3, <1>4, HeadTailConcat
    <3>2. Lost \/ Held(cur)
      BY <3>1, <2>1, <2>3, <1>1, <1>5 DEF Stores, Lives
    <3>3. Lost => Lost'
      BY <1>1, <1>5, <1>7 DEF Lost, Failed, Browser, Ending
    <3> QED BY <3>2, <3>3, <1>7 DEF Held
  <2>4. CASE Coming("snd") = <<>>
    <3>1. Coming("snd")' = Q
      BY <2>4, <1>4, ConcatEmptySeq
    <3>2. PICK m \in Message : Q = <<m>> /\ (m = FileAck(cur, "ok") => Lost' \/ Held(cur)')
      BY <3>1, <2>1
    <3>3. m = FileAck(cur, "ok")
      BY <3>1, <3>2, <2>1, Singles
    <3> QED BY <3>2, <3>3
  <2> QED BY <2>3, <2>4
<1>18. Stores'
  <2>1. (\A id \in SavedIds : /\ id \in Files /\ saved[id] \in Paths
                             /\ dir[saved[id]] = FileData(id, Size[id]))'
    OBVIOUS
  <2>2. (\A id \in DOMAIN results : id \in Files /\ results[id] = FileData(id, Size[id]))'
    OBVIOUS
  <2> QED BY <2>1, <2>2, <1>16, <1>17 DEF Stores
<1> QED BY <1>5, <1>6, <1>9, <1>10, <1>12, <1>18 DEF Interlock

-----------------------------------------------------------------------------
(* How the building blocks of the code make a move.                        *)

Hears(s, h)    == IF h THEN Consume(s) ELSE NoInput
Says(s, Q)     == \/ Q = <<>> /\ UNCHANGED wire
                  \/ \E m \in Message : Q = <<m>> /\ Post(s, m)
                  \/ wire' = [wire EXCEPT ![Peer(s)] = @ \o Q]
Turns(s, l, e) == /\ pc' = [pc EXCEPT ![s] = l]
                  /\ err' = [err EXCEPT ![s] = e] \/ (UNCHANGED err /\ e = err[s])

LEMMA OutcomeOpen ==
  ASSUME Interlock, NEW s \in Side
  PROVE  Lives(s) <=> err[s] = "none"
BY DEF Interlock, Verdicts

LEMMA MakesMove ==
  ASSUME Interlock, NEW s \in Side, NEW h \in BOOLEAN, NEW Q, NEW l \in Place(s), NEW e,
         pc[s] # "closed", pc[s] \in Stopped => l \in Stopped,
         Hears(s, h), Says(s, Q), Turns(s, l, e), UNCHANGED <<kind, disk, ctx, closed>>,
         pump' = pump \/ pump' = [pump EXCEPT ![s] = IF l \in Stopped THEN "off" ELSE "on"],
         chan' = chan \/ (l = "closed" /\ chan' = [chan EXCEPT ![s] = "closed"])
  PROVE  Move(s, h, Q, l, e)
<1>1. /\ wire \in [Side -> Seq(Message)] /\ inbox \in [Side -> Seq(Message)]
      /\ pending[s] = <<>> /\ err \in [Side -> Errors \cup {"left"}]
      /\ Peer(s) \in Side
  BY PeerSide DEF Interlock, Basis, Lines
<1>2. wire[Peer(s)] \in Seq(Message)
  BY <1>1
<1>3. wire' = [wire EXCEPT ![Peer(s)] = @ \o Q]
  <2>1. CASE Q = <<>> /\ UNCHANGED wire
    <3>1. wire[Peer(s)] \o Q = wire[Peer(s)]
      BY <2>1, <1>2, ConcatEmptySeq
    <3> QED BY <3>1, <2>1, <1>1
  <2>2. ASSUME NEW m \in Message, Q = <<m>>, Post(s, m)
        PROVE  wire' = [wire EXCEPT ![Peer(s)] = @ \o Q]
    <3>1. wire[Peer(s)] \o Q = Append(wire[Peer(s)], m)
      BY <2>2, <1>2, AppendIsConcat
    <3> QED BY <3>1, <2>2, <1>1 DEF Post
  <2> QED BY <2>1, <2>2 DEF Says
<1>4. err' = [err EXCEPT ![s] = e]
  BY <1>1 DEF Turns
<1>5. pending' = pending
  BY <1>1 DEF Hears, Consume, NoInput
<1>6. IF h THEN inbox[s] # <<>> /\ inbox' = [inbox EXCEPT ![s] = Tail(@)] ELSE inbox' = inbox
  BY <1>1 DEF Hears, Consume, NoInput, HasNext
<1> QED BY <1>3, <1>4, <1>5, <1>6 DEF Move, Turns

-----------------------------------------------------------------------------
(* Steps of the sender.                                                    *)

LEMMA SenderPlaces ==
  /\ Browser("snd") => Place("snd") = BrowserSender
  /\ ~Browser("snd") => Place("snd") = JsiSender
  /\ Browser("rcv") => Place("rcv") = BrowserReceiver
  /\ ~Browser("rcv") => Place("rcv") = JsiReceiver
BY DEF Place

\* It stops without a word.
LEMMA SenderLeavesOff ==
  ASSUME Interlock, Lives("snd"), NEW h \in BOOLEAN, NEW l \in Stopped, NEW e,
         e \in (Errors \cup {"left"}) \ {"none", "nil"},
         Move("snd", h, <<>>, l, e), Justly("snd", e), UNCHANGED <<Receives, accepted, todo, cur>>,
         sent' \in Nat, buf' \in Nat
  PROVE  Interlock'
<1>1. Basis /\ ReceiverHolds /\ Talk
  BY DEF Interlock
<1>2. err["snd"] = "none"
  BY OutcomeOpen DEF Side
<1>3. Ending("snd", l, e)
  BY <1>2 DEF Ending
<1>4. pc["snd"] \notin Stopped
  BY DEF Lives
<1>5. Coming("rcv") \o <<>> = Coming("rcv")
  BY <1>1, ComingTyped, ConcatEmptySeq DEF Basis, Side
<1>6. Dialogue(pc["snd"], pc["rcv"], err["snd"], Coming("rcv"), Coming("snd"), sent,
               Units, cur, todo, want, Lengths, Farewells)
  BY <1>1 DEF Talk
<1>7. cur' = cur /\ todo' = todo /\ accepted' = accepted /\ disk' = disk
  BY DEF Move
<1>8. Lengths' = Lengths
  BY <1>7 DEF Lengths, Changed
<1>9. Dialogue(l, pc["rcv"], e, Coming("rcv"),
               IF h THEN Tail(Coming("snd")) ELSE Coming("snd"), sent', Units, cur,
               todo, want, Lengths, Farewells)
  <2>1. Fit(Coming("rcv"), Coming("snd"), sent, Units, cur, want, Lengths)
    BY <1>1, Fits
  <2> QED BY <2>1, <1>4, <1>6, SenderStops
<1>10. pc'["snd"] = l /\ err'["snd"] = e
  BY DEF Move, Basis, Interlock, Side
<1>11. SenderHolds'
  BY <1>10 DEF SenderHolds, At, Stopped, Ended
<1>12. l \notin Acking /\ <<>> \in Seq(Message) /\ "snd" \in Side
  BY DEF Acking, Stopped, Ended, Side
<1>13. accepted \in SUBSET Files /\ todo \in SUBSET accepted /\ cur \in Files
  BY <1>1 DEF Basis
<1>14. UNCHANGED Receives
  OBVIOUS
<1> QED BY <1>3, <1>5, <1>7, <1>8, <1>9, <1>11, <1>12, <1>13, <1>14, SenderMoveKeeps DEF Acked

\* It goes on, saying what leads from where it stands to where it will.
LEMMA SenderGoesOn ==
  ASSUME Interlock, NEW l, GoesOn(pc["snd"], l), NEW Q \in Seq(Message),
         Move("snd", FALSE, Q, l, "none"), UNCHANGED <<Receives, accepted, todo, cur>>,
         sent' \in Nat, buf' \in Nat,
         Trail(cur, want, Lengths, SendAt(pc["snd"], sent), SendAt(l, sent'), Q),
         l = "write" => buf' # 0 /\ sent' + buf' \in Lengths,
         l = "fileEnd" => sent' = Size[cur]
  PROVE  Interlock'
<1>1. Basis /\ ReceiverHolds /\ Talk
  BY DEF Interlock
<1>4. pc["snd"] \notin Stopped /\ l \notin Stopped
  BY DEF GoesOn, Stopped, InFile, Acking, Ended
<1>2. err["snd"] = "none"
  BY <1>4, OutcomeOpen DEF Side, Lives
<1>3. Ending("snd", l, "none")
  BY <1>2, <1>4 DEF Ending, Errors
<1>6. Dialogue(pc["snd"], pc["rcv"], err["snd"], Coming("rcv"), Coming("snd"), sent,
               Units, cur, todo, want, Lengths, Farewells)
  BY <1>1 DEF Talk
<1>7. cur' = cur /\ todo' = todo /\ accepted' = accepted /\ disk' = disk
  BY DEF Move
<1>8. Lengths' = Lengths
  BY <1>7 DEF Lengths, Changed
<1>9. Dialogue(l, pc["rcv"], "none", Coming("rcv") \o Q, Coming("snd"), sent', Units, cur,
               todo, want, Lengths, Farewells)
  <2>1. Fit(Coming("rcv"), Coming("snd"), sent, Units, cur, want, Lengths)
    BY <1>1, Fits
  <2> QED BY <2>1, <1>2, <1>6, SenderSaysOn
<1>10. pc'["snd"] = l /\ err'["snd"] = "none"
  BY DEF Move, Basis, Interlock, Side
<1>11. SenderHolds'
  BY <1>7, <1>8, <1>10 DEF SenderHolds, At
<1>12. "snd" \in Side /\ FALSE \in BOOLEAN
  BY DEF Side
<1>13. accepted \in SUBSET Files /\ todo \in SUBSET accepted /\ cur \in Files
  BY <1>1 DEF Basis
<1>14. UNCHANGED Receives
  OBVIOUS
<1> QED BY <1>3, <1>7, <1>8, <1>9, <1>11, <1>12, <1>13, <1>14, SenderMoveKeeps DEF Acked

LEMMA Taken ==
  ASSUME Interlock, NEW s \in Side, Consume(s)
  PROVE  Coming(s) # <<>> /\ NextMsg(s) = Head(Coming(s))
<1>1. pending[s] = <<>> /\ inbox[s] \in Seq(Message) /\ wire[s] \in Seq(Message)
  BY DEF Interlock, Basis, Lines
<1>2. inbox[s] # <<>> /\ NextMsg(s) = Head(inbox[s])
  BY <1>1 DEF Consume, HasNext, NextMsg
<1> QED BY <1>1, <1>2, HeadTailConcat DEF Coming

\* While the sender runs, a receiver that has stopped has failed.
LEMMA ReceiverGone ==
  ASSUME Interlock, Lives("snd"), ~Lives("rcv")
  PROVE  Failed("rcv")
BY DEF Interlock, Verdicts, Failed, Side

LEMMA FarewellsSaid ==
  ASSUME NEW m \in Farewells
  PROVE  /\ m.t \in {"cancel", "error"} /\ m # FileAck(cur, "ok") /\ m \in Message
         /\ m.t = "error" => Changed
BY Tags, FarewellsTyped DEF Farewells

LEMMA WhatSenderHears ==
  ASSUME Interlock, Lives("snd"), Consume("snd")
  PROVE  /\ Coming("snd") # <<>> /\ NextMsg("snd") = Head(Coming("snd"))
         /\ \/ pc["snd"] \in Unmet /\ NextMsg("snd") = Hello(Version)
            \/ pc["snd"] \in Replying /\ \E ids \in SUBSET Files : NextMsg("snd") = Accept(ids)
            \/ pc["snd"] \in Acking /\ NextMsg("snd") = FileAck(cur, "ok")
            \/ Failed("rcv") /\ NextMsg("snd") \in Farewells
            \/ Failed("rcv") /\ pc["snd"] \in Replying /\ NextMsg("snd") = Reject
<1>1. Coming("snd") # <<>> /\ NextMsg("snd") = Head(Coming("snd"))
  BY Taken DEF Side
<1>2. Basis /\ ReceiverHolds /\ Talk
  BY DEF Interlock
<1>3. Fit(Coming("rcv"), Coming("snd"), sent, Units, cur, want, Lengths)
  BY <1>2, Fits
<1>4. Dialogue(pc["snd"], pc["rcv"], err["snd"], Coming("rcv"), Coming("snd"), sent,
               Units, cur, todo, want, Lengths, Farewells)
  BY <1>2 DEF Talk
<1>5. pc["snd"] \notin Stopped
  BY DEF Lives
<1>6. \/ pc["snd"] \in Unmet /\ Head(Coming("snd")) = Hello(Version)
      \/ pc["snd"] \in Replying /\ \E ids \in SUBSET Files : Head(Coming("snd")) = Accept(ids)
      \/ pc["snd"] \in Acking /\ Head(Coming("snd")) = FileAck(cur, "ok")
      \/ /\ pc["rcv"] \in Stopped
         /\ \/ Head(Coming("snd")) \in Farewells
            \/ pc["snd"] \in Replying /\ Head(Coming("snd")) = Reject
  BY <1>1, <1>3, <1>4, <1>5, HeardBySender
<1>7. pc["rcv"] \in Stopped => Failed("rcv")
  BY ReceiverGone DEF Lives
<1> QED BY <1>1, <1>6, <1>7

-----------------------------------------------------------------------------
(* A jsi program that sends.                                               *)

JsiSends == UNCHANGED <<rcvVars, kind, part, results>>

LEMMA SenderFails ==
  ASSUME Interlock, ~Browser("snd"), Lives("snd"), NEW h \in BOOLEAN,
         NEW e \in Errors \ {"none", "nil", "version", "hash-mismatch"},
         FailWith("snd", e), Hears("snd", h), UNCHANGED <<wire, linkVars, disk>>,
         e \in {"protocol", "peer-error"} => Changed,
         JsiSends, UNCHANGED <<accepted, todo, cur>>, sent' \in Nat, buf' \in Nat
  PROVE  Interlock'
<1>1. "failed" \in Place("snd") /\ "failed" \in Stopped
  BY DEF Place, JsiSender, Stopped, Ended
<1>2. pc["snd"] \notin Stopped /\ pc["snd"] # "closed" /\ "snd" \in Side
  BY DEF Lives, Stopped, Ended, Side
<1>3. Turns("snd", "failed", e) /\ Says("snd", <<>>)
  BY DEF FailWith, Turns, Says
<1>4. UNCHANGED <<kind, disk, ctx, closed, pump, chan>>
  BY DEF linkVars, JsiSends
<1>5. Move("snd", h, <<>>, "failed", e)
  BY <1>1, <1>2, <1>3, <1>4, MakesMove
<1>6. Justly("snd", e)
  BY DEF Justly
<1>7. UNCHANGED <<Receives, accepted, todo, cur>>
  BY DEF Receives, JsiSends
<1>8. e \in (Errors \cup {"left"}) \ {"none", "nil"}
  OBVIOUS
<1> QED BY <1>1, <1>5, <1>6, <1>7, <1>8, SenderLeavesOff

LEMMA SenderWaitFails ==
  ASSUME Interlock, ~Browser("snd"), Lives("snd"), WaitFails("snd"), UNCHANGED <<linkVars, disk>>,
         JsiSends, UNCHANGED <<accepted, todo, cur>>, sent' \in Nat, buf' \in Nat
  PROVE  Interlock'
<1>1. Hears("snd", FALSE) /\ wire' = wire
  BY DEF WaitFails, Hears
<1>2. FailWith("snd", "ctx") \/ FailWith("snd", "peer-closed")
  BY DEF WaitFails
<1>3. FALSE \in BOOLEAN /\ {"ctx", "peer-closed"} \subseteq Errors
  BY DEF Errors
<1> QED BY <1>1, <1>2, <1>3, SenderFails

LEMMA SenderTakesTerminal ==
  ASSUME Interlock, ~Browser("snd"), Lives("snd"), TakeTerminal("snd"), UNCHANGED <<linkVars, disk>>,
         JsiSends, UNCHANGED <<accepted, todo, cur>>, sent' \in Nat, buf' \in Nat
  PROVE  Interlock'
<1>1. Consume("snd") /\ NextMsg("snd").t \in {"cancel", "error"} /\ wire' = wire
  BY DEF TakeTerminal, Take
<1>2. Hears("snd", TRUE)
  BY <1>1 DEF Hears
<1>3. NextMsg("snd").t = "error" => Changed
  BY <1>1, WhatSenderHears, FarewellsSaid, Tags
<1>4. CASE NextMsg("snd").t = "cancel"
  <2>1. FailWith("snd", "peer-cancel")
    BY <1>4 DEF TakeTerminal
  <2>2. TRUE \in BOOLEAN /\ "peer-cancel" \in Errors
    BY DEF Errors
  <2> QED BY <2>1, <2>2, <1>1, <1>2, SenderFails
<1>5. CASE NextMsg("snd").t = "error"
  <2>1. FailWith("snd", "peer-error")
    BY <1>5 DEF TakeTerminal
  <2>2. TRUE \in BOOLEAN /\ "peer-error" \in Errors
    BY DEF Errors
  <2> QED BY <2>1, <2>2, <1>1, <1>2, <1>3, <1>5, SenderFails
<1> QED BY <1>1, <1>4, <1>5

\* What it waits for is all it hears besides.
LEMMA SenderWaitsOn ==
  ASSUME Interlock, ~Browser("snd"), Lives("snd"), NEW expected, WaitOther("snd", expected),
         pc["snd"] \in Unmet => "hello" \in expected,
         pc["snd"] \in Replying => {"accept", "reject"} \subseteq expected,
         pc["snd"] \in Acking => "file-ack" \in expected,
         UNCHANGED <<linkVars, disk>>,
         JsiSends, UNCHANGED <<accepted, todo, cur>>, sent' \in Nat, buf' \in Nat
  PROVE  Interlock'
<1>1. ~TakeUnknown("snd") /\ ~TakeUnexpected("snd", expected)
  BY WhatSenderHears, FarewellsSaid, Tags DEF TakeUnknown, TakeUnexpected, Take
<1>2. WaitFails("snd") \/ TakeTerminal("snd")
  BY <1>1 DEF WaitOther
<1> QED BY <1>2, SenderWaitFails, SenderTakesTerminal

-----------------------------------------------------------------------------
(* What a sender is told, and how it takes up, finishes and leaves.        *)

LEMMA Grounded ==
  ASSUME Interlock
  PROVE  /\ Basis /\ Placed /\ Links /\ Talk /\ SenderHolds /\ ReceiverHolds /\ Stores /\ Verdicts
         /\ Fit(Coming("rcv"), Coming("snd"), sent, Units, cur, want, Lengths)
         /\ Dialogue(pc["snd"], pc["rcv"], err["snd"], Coming("rcv"), Coming("snd"), sent,
                     Units, cur, todo, want, Lengths, Farewells)
         /\ Coming("rcv") \o <<>> = Coming("rcv") /\ Coming("snd") \o <<>> = Coming("snd")
         /\ "snd" \in Side /\ "rcv" \in Side /\ <<>> \in Seq(Message)
<1>1. Basis /\ Placed /\ Links /\ Talk /\ SenderHolds /\ ReceiverHolds /\ Stores /\ Verdicts
  BY DEF Interlock
<1>2. Fit(Coming("rcv"), Coming("snd"), sent, Units, cur, want, Lengths)
  BY <1>1, Fits
<1>3. Coming("rcv") \in Seq(Message) /\ Coming("snd") \in Seq(Message)
  BY <1>2 DEF Fit
<1>4. Coming("rcv") \o <<>> = Coming("rcv") /\ Coming("snd") \o <<>> = Coming("snd")
  BY <1>3, ConcatEmptySeq
<1>5. "snd" \in Side /\ "rcv" \in Side /\ <<>> \in Seq(Message)
  BY DEF Side
<1> QED BY <1>1, <1>2, <1>4, <1>5 DEF Talk

LEMMA MovedTo ==
  ASSUME Interlock, NEW s \in Side, NEW h, NEW Q, NEW l, NEW e, Move(s, h, Q, l, e)
  PROVE  pc'[s] = l /\ err'[s] = e /\ disk' = disk
BY DEF Interlock, Basis, Move

LEMMA SenderIsMet ==
  ASSUME Interlock, NEW m,
         (pc["snd"] = "waitHello" /\ m = "manifest") \/ (pc["snd"] = "b-reply" /\ m = "b-reply"),
         Move("snd", TRUE, <<>>, m, "none"), Coming("snd") # <<>>,
         Head(Coming("snd")) = Hello(Version), UNCHANGED <<Receives, accepted, todo, cur, sent, buf>>
  PROVE  Interlock'
<1>1. Basis /\ Fit(Coming("rcv"), Coming("snd"), sent, Units, cur, want, Lengths)
  BY Grounded
<1>2. Dialogue(pc["snd"], pc["rcv"], err["snd"], Coming("rcv"), Coming("snd"), sent,
               Units, cur, todo, want, Lengths, Farewells)
  BY Grounded
<1>3. pc["snd"] \notin Stopped /\ m \notin Stopped /\ m \notin Acking
      /\ m # "write" /\ m # "fileEnd"
  BY DEF Stopped, Ended, Acking
<1>4. err["snd"] = "none"
  BY <1>3, OutcomeOpen DEF Side, Lives
<1>5. Ending("snd", m, "none")
  BY <1>3, <1>4 DEF Ending, Errors
<1>6. Dialogue(m, pc["rcv"], "none", Coming("rcv"), Tail(Coming("snd")), sent,
               Units, cur, todo, want, Lengths, Farewells)
  BY <1>1, <1>2, <1>4, SenderMeets
<1>7. pc'["snd"] = m /\ err'["snd"] = "none" /\ disk' = disk
  BY Grounded, MovedTo
<1>8. Lengths' = Lengths
  BY <1>7 DEF Lengths, Changed
<1>9. SenderHolds'
  BY <1>3, <1>7 DEF SenderHolds, At
<1>10. /\ accepted \in SUBSET Files /\ todo \in SUBSET accepted /\ cur \in Files
       /\ sent \in Nat /\ buf \in Nat
  BY <1>1 DEF Basis
<1>11. UNCHANGED Receives /\ accepted' = accepted /\ todo' = todo /\ cur' = cur
       /\ sent' = sent /\ buf' = buf
  OBVIOUS
<1>12. \A id \in accepted' \ todo' : id \in Acked
  BY <1>11 DEF Acked
<1> QED BY <1>3, <1>5, <1>6, <1>8, <1>9, <1>10, <1>11, <1>12, Grounded, SenderMoveKeeps

LEMMA SenderGetsReply ==
  ASSUME Interlock, pc["snd"] \in Replying, NEW m \in Nexting,
         Move("snd", TRUE, <<>>, m, "none"), Coming("snd") # <<>>,
         NEW ids \in SUBSET Files, Head(Coming("snd")) = Accept(ids),
         accepted' = ResolveAccept(ids, NumFiles), todo' = accepted',
         UNCHANGED <<Receives, cur, sent, buf>>
  PROVE  Interlock'
<1>1. Basis /\ Fit(Coming("rcv"), Coming("snd"), sent, Units, cur, want, Lengths)
  BY Grounded
<1>2. Dialogue(pc["snd"], pc["rcv"], err["snd"], Coming("rcv"), Coming("snd"), sent,
               Units, cur, todo, want, Lengths, Farewells)
  BY Grounded
<1>3. pc["snd"] \notin Stopped /\ m \notin Stopped /\ m \notin Acking
      /\ m # "write" /\ m # "fileEnd"
  BY DEF Stopped, Ended, Acking, Replying, Nexting
<1>4. err["snd"] = "none"
  BY <1>3, OutcomeOpen DEF Side, Lives
<1>5. Ending("snd", m, "none")
  BY <1>3, <1>4 DEF Ending, Errors
<1>6. Dialogue(m, pc["rcv"], "none", Coming("rcv"), Tail(Coming("snd")), sent,
               Units, cur, todo', want, Lengths, Farewells)
  BY <1>1, <1>2, <1>4, SenderIsAccepted
<1>7. pc'["snd"] = m /\ err'["snd"] = "none" /\ disk' = disk
  BY Grounded, MovedTo
<1>8. Lengths' = Lengths
  BY <1>7 DEF Lengths, Changed
<1>9. SenderHolds'
  BY <1>3, <1>7 DEF SenderHolds, At
<1>10. /\ accepted' \in SUBSET Files /\ todo' \in SUBSET accepted' /\ cur \in Files
       /\ sent \in Nat /\ buf \in Nat
  BY <1>1 DEF Basis, ResolveAccept, Files
<1>11. UNCHANGED Receives /\ cur' = cur /\ sent' = sent /\ buf' = buf
  OBVIOUS
<1>12. \A id \in accepted' \ todo' : id \in Acked
  OBVIOUS
<1> QED BY <1>3, <1>5, <1>6, <1>8, <1>9, <1>10, <1>11, <1>12, Grounded, SenderMoveKeeps

LEMMA SenderGetsAck ==
  ASSUME Interlock, pc["snd"] \in Acking, NEW m \in Nexting,
         Move("snd", TRUE, <<>>, m, "none"), Coming("snd") # <<>>,
         Head(Coming("snd")) = FileAck(cur, "ok"), todo' = todo \ {cur},
         UNCHANGED <<Receives, accepted, cur, sent, buf>>
  PROVE  Interlock'
<1>1. Basis /\ Fit(Coming("rcv"), Coming("snd"), sent, Units, cur, want, Lengths)
  BY Grounded
<1>2. Dialogue(pc["snd"], pc["rcv"], err["snd"], Coming("rcv"), Coming("snd"), sent,
               Units, cur, todo, want, Lengths, Farewells)
  BY Grounded
<1>3. pc["snd"] \notin Stopped /\ m \notin Stopped /\ m \notin Acking
      /\ m # "write" /\ m # "fileEnd"
  BY DEF Stopped, Ended, Acking, Nexting
<1>4. err["snd"] = "none" /\ Lives("snd")
  BY <1>3, OutcomeOpen DEF Side, Lives
<1>5. Ending("snd", m, "none")
  BY <1>3, <1>4 DEF Ending, Errors
<1>6. Dialogue(m, pc["rcv"], "none", Coming("rcv"), Tail(Coming("snd")), sent,
               Units, cur, todo', want, Lengths, Farewells)
  BY <1>1, <1>2, <1>4, SenderIsConfirmed
<1>7. pc'["snd"] = m /\ err'["snd"] = "none" /\ disk' = disk
  BY Grounded, MovedTo
<1>8. Lengths' = Lengths
  BY <1>7 DEF Lengths, Changed
<1>9. SenderHolds'
  BY <1>3, <1>7 DEF SenderHolds, At
<1>10. /\ accepted' \in SUBSET Files /\ todo' \in SUBSET accepted' /\ cur \in Files
       /\ sent \in Nat /\ buf \in Nat
  BY <1>1 DEF Basis
<1>11. UNCHANGED Receives /\ cur' = cur /\ sent' = sent /\ buf' = buf
  OBVIOUS
<1>12. \A id \in accepted' \ todo' :
         id \in Acked \/ (id = cur /\ TRUE /\ Lives("snd") /\ Head(Coming("snd")) = FileAck(cur, "ok"))
  BY <1>4 DEF Acked
<1> QED BY <1>3, <1>5, <1>6, <1>8, <1>9, <1>10, <1>11, <1>12, Grounded, SenderMoveKeeps

LEMMA SenderTakesFile ==
  ASSUME Interlock, pc["snd"] \in Nexting, NEW m \in InFile \ {"write", "fileEnd"},
         NEW d \in Files, IsNext(d, todo), Move("snd", FALSE, <<FileStart(d)>>, m, "none"),
         FileStart(d) \in Message,
         cur' = d, sent' = 0, buf' \in Nat, UNCHANGED <<Receives, accepted, todo>>
  PROVE  Interlock'
<1>1. Basis /\ Fit(Coming("rcv"), Coming("snd"), sent, Units, cur, want, Lengths) /\ ReceiverHolds
  BY Grounded
<1>2. Dialogue(pc["snd"], pc["rcv"], err["snd"], Coming("rcv"), Coming("snd"), sent,
               Units, cur, todo, want, Lengths, Farewells)
  BY Grounded
<1>3. pc["snd"] \notin Stopped /\ m \notin Stopped /\ m \notin Acking
      /\ m # "write" /\ m # "fileEnd"
  BY DEF Stopped, Ended, Acking, InFile, Nexting
<1>4. err["snd"] = "none"
  BY <1>3, OutcomeOpen DEF Side, Lives
<1>5. Ending("snd", m, "none")
  BY <1>3, <1>4 DEF Ending, Errors
<1>6. Lengths' \in SUBSET Nat
  BY SizesAreNat DEF Lengths, Changed
<1>7. /\ Dialogue(m, pc["rcv"], "none", Coming("rcv") \o <<FileStart(d)>>, Coming("snd"), 0,
                  Units, d, todo, want, Lengths', Farewells)
      /\ pc["rcv"] \notin Chunking
  <2>1. pc["rcv"] \in Finishing => want = {}
    BY <1>1 DEF ReceiverHolds
  <2>2. m \in InFile
    OBVIOUS
  <2>3. \A M \in SUBSET Nat :
          /\ Dialogue(m, pc["rcv"], "none", Coming("rcv") \o <<FileStart(d)>>, Coming("snd"), 0,
                      Units, d, todo, want, M, Farewells)
          /\ pc["rcv"] \notin Chunking
    BY <1>1, <1>2, <1>4, <2>1, <2>2, SenderTakesUp
  <2> QED BY <2>3, <1>6
<1>8. pc'["snd"] = m /\ err'["snd"] = "none"
  BY Grounded, MovedTo
<1>9. SenderHolds'
  BY <1>3, <1>8 DEF SenderHolds, At
<1>10. accepted \in SUBSET Files /\ todo \in SUBSET accepted /\ 0 \in Nat
  BY <1>1 DEF Basis
<1>11. UNCHANGED Receives /\ accepted' = accepted /\ todo' = todo /\ cur' = d /\ sent' = 0
  OBVIOUS
<1>12. \A id \in accepted' \ todo' : id \in Acked
  BY <1>11 DEF Acked
<1>13. <<FileStart(d)>> \in Seq(Message) /\ FALSE \in BOOLEAN
  OBVIOUS
<1> QED BY <1>3, <1>5, <1>7, <1>9, <1>10, <1>11, <1>12, <1>13, SenderMoveKeeps

LEMMA SenderStopsBefore ==
  ASSUME Interlock, pc["snd"] \in Nexting, NEW l \in Stopped,
         NEW e \in (Errors \cup {"left"}) \ {"none", "nil"}, Justly("snd", e),
         Move("snd", FALSE, <<>>, l, e), cur' \in Files, sent' \in Nat, buf' \in Nat,
         UNCHANGED <<Receives, accepted, todo>>
  PROVE  Interlock'
<1>1. Basis /\ Fit(Coming("rcv"), Coming("snd"), sent, Units, cur, want, Lengths)
  BY Grounded
<1>2. Dialogue(pc["snd"], pc["rcv"], err["snd"], Coming("rcv"), Coming("snd"), sent,
               Units, cur, todo, want, Lengths, Farewells)
  BY Grounded
<1>3. pc["snd"] \notin Stopped /\ l \notin Acking /\ l # "write" /\ l # "fileEnd"
  BY DEF Stopped, Ended, Acking, Nexting
<1>4. err["snd"] = "none"
  BY <1>3, OutcomeOpen DEF Side, Lives
<1>5. Ending("snd", l, e)
  BY <1>3, <1>4 DEF Ending
<1>6. /\ Dialogue(l, pc["rcv"], e, Coming("rcv"), Coming("snd"), sent',
                  Units, cur', todo, want, Lengths', Farewells)
      /\ pc["rcv"] \notin Chunking
  BY <1>1, <1>2, SenderStopsBetween
<1>8. pc'["snd"] = l /\ err'["snd"] = e
  BY Grounded, MovedTo
<1>9. SenderHolds'
  BY <1>3, <1>8 DEF SenderHolds, At
<1>10. accepted \in SUBSET Files /\ todo \in SUBSET accepted
  BY <1>1 DEF Basis
<1>11. UNCHANGED Receives /\ accepted' = accepted /\ todo' = todo
  OBVIOUS
<1>12. \A id \in accepted' \ todo' : id \in Acked
  BY <1>11 DEF Acked
<1> QED BY <1>3, <1>5, <1>6, <1>9, <1>10, <1>11, <1>12, Grounded, SenderMoveKeeps

LEMMA SenderHasFinished ==
  ASSUME Interlock, pc["snd"] \in Nexting, todo = {}, NEW l \in Stopped \ {"failed"},
         Move("snd", FALSE, <<Done>>, l, "nil"), UNCHANGED <<Receives, accepted, todo, cur, sent, buf>>
  PROVE  Interlock'
<1>1. Basis /\ Fit(Coming("rcv"), Coming("snd"), sent, Units, cur, want, Lengths)
  BY Grounded
<1>2. Dialogue(pc["snd"], pc["rcv"], err["snd"], Coming("rcv"), Coming("snd"), sent,
               Units, cur, todo, want, Lengths, Farewells)
  BY Grounded
<1>3. pc["snd"] \notin Stopped /\ l \notin Acking /\ l # "write" /\ l # "fileEnd"
  BY DEF Stopped, Ended, Acking, Nexting
<1>4. err["snd"] = "none"
  BY <1>3, OutcomeOpen DEF Side, Lives
<1>5. Ending("snd", l, "nil")
  BY <1>3, <1>4 DEF Ending, Errors, Justly
<1>6. Dialogue(l, pc["rcv"], "nil", Coming("rcv") \o <<Done>>, Coming("snd"), sent,
               Units, cur, todo, want, Lengths, Farewells)
  BY <1>1, <1>2, SenderFinishes
<1>7. pc'["snd"] = l /\ err'["snd"] = "nil" /\ disk' = disk
  BY Grounded, MovedTo
<1>8. Lengths' = Lengths
  BY <1>7 DEF Lengths, Changed
<1>9. SenderHolds'
  BY <1>3, <1>7 DEF SenderHolds, At
<1>10. /\ accepted \in SUBSET Files /\ todo \in SUBSET accepted /\ cur \in Files
       /\ sent \in Nat /\ buf \in Nat
  BY <1>1 DEF Basis
<1>11. UNCHANGED Receives /\ accepted' = accepted /\ todo' = todo /\ cur' = cur
       /\ sent' = sent /\ buf' = buf
  OBVIOUS
<1>12. \A id \in accepted' \ todo' : id \in Acked
  BY <1>11 DEF Acked
<1>13. <<Done>> \in Seq(Message) /\ FALSE \in BOOLEAN
  BY DEF Done, Message
<1> QED BY <1>3, <1>5, <1>6, <1>8, <1>9, <1>10, <1>11, <1>12, <1>13, SenderMoveKeeps

\* A sender that has stopped cancels, if it failed, or just goes.
LEMMA SenderGoesAway ==
  ASSUME Interlock, pc["snd"] \in Stopped, NEW l \in Stopped \ {"failed"}, NEW Q,
         Q = <<>> \/ (Q = <<Cancel>> /\ Failed("snd")),
         Move("snd", FALSE, Q, l, err["snd"]), UNCHANGED <<Receives, accepted, todo, cur, sent, buf>>
  PROVE  Interlock'
<1>1. Basis /\ Fit(Coming("rcv"), Coming("snd"), sent, Units, cur, want, Lengths) /\ SenderHolds
  BY Grounded
<1>2. Dialogue(pc["snd"], pc["rcv"], err["snd"], Coming("rcv"), Coming("snd"), sent,
               Units, cur, todo, want, Lengths, Farewells)
  BY Grounded
<1>3. l \notin Acking /\ l # "write" /\ l # "fileEnd" /\ l \in Stopped
  BY DEF Stopped, Ended, Acking
<1>4. err["snd"] # "none" /\ err["snd"] \in Errors \cup {"left"}
  BY <1>1, OutcomeOpen DEF Side, Lives, Basis
<1>5. Ending("snd", l, err["snd"])
  BY <1>3, <1>4 DEF Ending
<1>6. Dialogue(l, pc["rcv"], err["snd"], Coming("rcv") \o Q, Coming("snd"), sent,
               Units, cur, todo, want, Lengths, Farewells)
  <2>1. CASE Q = <<>>
    <3>1. pc["snd"] # "closed"
      BY DEF Move
    <3>2. Dialogue(l, pc["rcv"], err["snd"], Coming("rcv"), Coming("snd"), sent,
                   Units, cur, todo, want, Lengths, Farewells)
      BY <1>2, <1>3, <3>1, SenderGoesOnStopped
    <3> QED BY <3>2, <2>1, Grounded
  <2>2. CASE Q = <<Cancel>> /\ Failed("snd")
    BY <1>1, <1>2, <1>3, <2>2, SenderCancels DEF Failed
  <2> QED BY <2>1, <2>2
<1>7. pc'["snd"] = l /\ err'["snd"] = err["snd"] /\ disk' = disk
  BY Grounded, MovedTo
<1>8. Lengths' = Lengths
  BY <1>7 DEF Lengths, Changed
<1>9. SenderHolds'
  BY <1>1, <1>3, <1>7 DEF SenderHolds, At
<1>10. /\ accepted \in SUBSET Files /\ todo \in SUBSET accepted /\ cur \in Files
       /\ sent \in Nat /\ buf \in Nat
  BY <1>1 DEF Basis
<1>11. UNCHANGED Receives /\ accepted' = accepted /\ todo' = todo /\ cur' = cur
       /\ sent' = sent /\ buf' = buf
  OBVIOUS
<1>12. \A id \in accepted' \ todo' : id \in Acked
  BY <1>11 DEF Acked
<1>13. Q \in Seq(Message) /\ FALSE \in BOOLEAN
  BY FarewellsTyped, Grounded
<1> QED BY <1>3, <1>5, <1>6, <1>8, <1>9, <1>10, <1>11, <1>12, <1>13, SenderMoveKeeps

-----------------------------------------------------------------------------
(* The steps of a jsi program that sends.                                  *)

\* It goes on without a word.
LEMMA SenderGoesTo ==
  ASSUME Interlock, ~Browser("snd"), NEW l \in JsiSender, GoesOn(pc["snd"], l),
         GoTo("snd", l), NoInput, UNCHANGED <<wire, chan, closed, ctx, disk>>,
         pump' = pump \/ pump' = [pump EXCEPT !["snd"] = "on"],
         JsiSends, UNCHANGED <<accepted, todo, cur>>, sent' \in Nat, buf' \in Nat,
         SendAt(pc["snd"], sent) = SendAt(l, sent'),
         l = "write" => buf' # 0 /\ sent' + buf' \in Lengths,
         l = "fileEnd" => sent' = Size[cur]
  PROVE  Interlock'
<1>1. l \in Place("snd") /\ pc["snd"] \notin Stopped /\ l \notin Stopped
  BY DEF Place, GoesOn, Stopped, InFile, Acking, Ended
<1>2. err["snd"] = "none" /\ pc["snd"] # "closed"
  BY <1>1, OutcomeOpen DEF Side, Lives, Stopped, Ended
<1>3. Turns("snd", l, "none") /\ Says("snd", <<>>) /\ Hears("snd", FALSE)
  BY <1>2 DEF GoTo, Turns, Says, Hears
<1>4. UNCHANGED <<kind, disk, ctx, closed>> /\ chan' = chan
  BY DEF JsiSends
<1>5. Move("snd", FALSE, <<>>, l, "none")
  BY <1>1, <1>2, <1>3, <1>4, MakesMove, Grounded
<1>6. Trail(cur, want, Lengths, SendAt(pc["snd"], sent), SendAt(l, sent'), <<>>)
  BY SendAtTyped, TrailEmpty, Grounded DEF Basis
<1>7. UNCHANGED <<Receives, accepted, todo, cur>> /\ <<>> \in Seq(Message)
  BY DEF Receives, JsiSends
<1> QED BY <1>5, <1>6, <1>7, SenderGoesOn

\* It says m and goes on, or fails because the channel has closed.
LEMMA SenderControls ==
  ASSUME Interlock, ~Browser("snd"), NEW l \in JsiSender, GoesOn(pc["snd"], l),
         NEW m \in Message, Control("snd", m, l), NoInput, UNCHANGED <<linkVars, disk>>,
         JsiSends, UNCHANGED <<accepted, todo, cur>>, sent' \in Nat, buf' \in Nat,
         CanSend("snd") => Hop(cur, want, Lengths, SendAt(pc["snd"], sent), m, SendAt(l, sent')),
         l \notin {"write", "fileEnd"}
  PROVE  Interlock'
<1>1. l \in Place("snd") /\ pc["snd"] \notin Stopped /\ l \notin Stopped
  BY DEF Place, GoesOn, Stopped, InFile, Acking, Ended
<1>2. err["snd"] = "none" /\ pc["snd"] # "closed" /\ Lives("snd")
  BY <1>1, OutcomeOpen DEF Side, Lives, Stopped, Ended
<1>3. CASE CanSend("snd")
  <2>1. Turns("snd", l, "none") /\ Says("snd", <<m>>) /\ Hears("snd", FALSE)
    BY <1>2, <1>3 DEF Control, GoTo, Turns, Says, Hears
  <2>2. UNCHANGED <<kind, disk, ctx, closed, pump, chan>>
    BY DEF JsiSends, linkVars
  <2>3. Move("snd", FALSE, <<m>>, l, "none")
    BY <1>1, <1>2, <2>1, <2>2, MakesMove, Grounded
  <2>4. Trail(cur, want, Lengths, SendAt(pc["snd"], sent), SendAt(l, sent'), <<m>>)
    <3>1. SendAt(pc["snd"], sent) \in Int /\ cur \in Files /\ Lengths \subseteq Nat
      BY SendAtTyped, Grounded DEF Basis, Fit
    <3> QED BY <1>3, <3>1, TrailOne
  <2>5. UNCHANGED <<Receives, accepted, todo, cur>> /\ <<m>> \in Seq(Message)
    BY DEF Receives, JsiSends
  <2> QED BY <2>3, <2>4, <2>5, SenderGoesOn
<1>4. CASE ~CanSend("snd")
  <2>1. FailWith("snd", "send") /\ wire' = wire /\ Hears("snd", FALSE)
    BY <1>4 DEF Control, Hears
  <2>2. "send" \in Errors
    BY DEF Errors
  <2> QED BY <1>2, <2>1, <2>2, SenderFails
<1> QED BY <1>3, <1>4

LEMMA JsiSenderBegins ==
  ASSUME Interlock, ~Browser("snd"), NewSession("snd"), UNCHANGED sndVars, JsiSends
  PROVE  Interlock'
<1>1. pc["snd"] = "init" /\ GoTo("snd", "hello") /\ NoInput
      /\ UNCHANGED <<wire, chan, closed, ctx>> /\ pump' = [pump EXCEPT !["snd"] = "on"]
  BY DEF NewSession, At
<1>2. "hello" \in JsiSender /\ GoesOn("init", "hello")
  BY DEF JsiSender, Greeting, GoesOn
<1>3. /\ accepted' = accepted /\ todo' = todo /\ cur' = cur /\ sent' = sent /\ buf' = buf
      /\ disk' = disk
  BY DEF sndVars
<1>4. sent' \in Nat /\ buf' \in Nat
  BY <1>3, Grounded DEF Basis
<1>5. SendAt("init", sent) = SendAt("hello", sent')
  BY SendPoints
<1> QED BY <1>1, <1>2, <1>3, <1>4, <1>5, SenderGoesTo

LEMMA JsiSenderGreets ==
  ASSUME Interlock, ~Browser("snd"), SendHello("snd"), UNCHANGED sndVars, JsiSends
  PROVE  Interlock'
<1>1. pc["snd"] = "hello" /\ Control("snd", Hello(Version), "waitHello") /\ NoInput
      /\ UNCHANGED linkVars
  BY DEF SendHello, At
<1>2. "waitHello" \in JsiSender /\ GoesOn("hello", "waitHello")
  BY DEF JsiSender, Greeting, GoesOn
<1>3. /\ accepted' = accepted /\ todo' = todo /\ cur' = cur /\ sent' = sent /\ buf' = buf
      /\ disk' = disk
  BY DEF sndVars
<1>4. sent' \in Nat /\ buf' \in Nat
  BY <1>3, Grounded DEF Basis
<1>5. SendAt("hello", sent) = -4 /\ SendAt("waitHello", sent') = -3
  BY SendPoints
<1>6. Hop(cur, want, Lengths, SendAt("hello", sent), Hello(Version), SendAt("waitHello", sent'))
  BY <1>5 DEF Hop
<1>7. Hello(Version) \in Message
  BY CommonMessages DEF Common
<1> QED BY <1>1, <1>2, <1>3, <1>4, <1>6, <1>7, SenderControls

LEMMA JsiSenderAnnounces ==
  ASSUME Interlock, ~Browser("snd"), SendManifest, JsiSends
  PROVE  Interlock'
<1>1. pc["snd"] = "manifest" /\ Control("snd", Manifest(Metas), "waitReply") /\ NoInput
      /\ UNCHANGED linkVars
  BY DEF SendManifest, At
<1>2. "waitReply" \in JsiSender /\ GoesOn("manifest", "waitReply")
  BY DEF JsiSender, GoesOn
<1>3. /\ accepted' = accepted /\ todo' = todo /\ cur' = cur /\ sent' = sent /\ buf' = buf
      /\ disk' = disk
  BY DEF SendManifest, sndVars
<1>4. sent' \in Nat /\ buf' \in Nat
  BY <1>3, Grounded DEF Basis
<1>5. SendAt("manifest", sent) = -3 /\ SendAt("waitReply", sent') = -2
  BY SendPoints DEF Replying
<1>6. Hop(cur, want, Lengths, SendAt("manifest", sent), Manifest(Metas), SendAt("waitReply", sent'))
  BY <1>5 DEF Hop
<1>7. Manifest(Metas) \in Message
  BY MetasTyped DEF Manifest, Message
<1> QED BY <1>1, <1>2, <1>3, <1>4, <1>6, <1>7, SenderControls

LEMMA JsiSenderOpens ==
  ASSUME Interlock, ~Browser("snd"), OpenFile, JsiSends
  PROVE  Interlock'
<1>1. pc["snd"] = "open" /\ NoInput /\ UNCHANGED <<linkVars, wire>>
      /\ (GoTo("snd", "loop") \/ FailWith("snd", "local"))
  BY DEF OpenFile, At
<1>2. "loop" \in JsiSender /\ GoesOn("open", "loop")
  BY DEF JsiSender, GoesOn, Filing, InFile
<1>3. /\ accepted' = accepted /\ todo' = todo /\ cur' = cur /\ sent' = sent /\ buf' = buf
      /\ disk' = disk
  BY DEF OpenFile, sndVars
<1>4. sent' \in Nat /\ buf' \in Nat
  BY <1>3, Grounded DEF Basis
<1>5. SendAt("open", sent) = SendAt("loop", sent')
  BY <1>3, SendPoints DEF InFile
<1>6. CASE GoTo("snd", "loop")
  <2>1. UNCHANGED <<wire, chan, closed, ctx, pump>>
    BY <1>1 DEF linkVars
  <2> QED BY <1>1, <1>2, <1>3, <1>4, <1>5, <1>6, <2>1, SenderGoesTo
<1>7. CASE FailWith("snd", "local")
  <2>1. Lives("snd") /\ "local" \in Errors /\ Hears("snd", FALSE)
    BY <1>1 DEF Lives, Stopped, Ended, Errors, Hears
  <2> QED BY <1>1, <1>3, <1>4, <1>7, <2>1, SenderFails
<1> QED BY <1>1, <1>6, <1>7

LEMMA JsiSenderPolls ==
  ASSUME Interlock, ~Browser("snd"), Poll, JsiSends
  PROVE  Interlock'
<1>1. pc["snd"] = "loop" /\ UNCHANGED linkVars
  BY DEF Poll, At
<1>2. "read" \in JsiSender /\ GoesOn("loop", "read")
  BY DEF JsiSender, GoesOn, Filing, InFile
<1>3. /\ accepted' = accepted /\ todo' = todo /\ cur' = cur /\ sent' = sent /\ buf' = buf
      /\ disk' = disk
  BY DEF Poll, sndVars
<1>4. sent' \in Nat /\ buf' \in Nat
  BY <1>3, Grounded DEF Basis
<1>5. SendAt("loop", sent) = SendAt("read", sent')
  BY <1>3, SendPoints DEF InFile
<1>6. Lives("snd") /\ pc["snd"] \notin Unmet \cup Replying \cup Acking
  BY <1>1 DEF Lives, Stopped, Ended, Unmet, Replying, Acking
<1>7. CASE FailWith("snd", "ctx") /\ NoInput /\ UNCHANGED <<wire, signaled>>
  <2>1. "ctx" \in Errors /\ Hears("snd", FALSE)
    BY <1>7 DEF Errors, Hears
  <2> QED BY <1>1, <1>3, <1>4, <1>6, <1>7, <2>1, SenderFails
<1>8. CASE HasNext("snd") /\ MidSendCheck
  <2>1. ASSUME Consume("snd") PROVE NextMsg("snd").t \in {"cancel", "error"}
    BY <2>1, <1>6, WhatSenderHears, FarewellsSaid
  <2>2. CASE TakeTerminal("snd")
    BY <1>1, <1>3, <1>4, <1>6, <2>2, SenderTakesTerminal
  <2>3. CASE Take("snd", {"unknown"}) \/ Take("snd", {"chunk", "malformed"})
    BY <2>1, <2>3 DEF Take
  <2>4. CASE /\ NextMsg("snd").t \notin {"cancel", "error", "unknown", "chunk", "malformed"}
             /\ Defer("snd")
    <3>1. pending["snd"] = <<>>
      BY Grounded DEF Basis
    <3>2. NextMsg("snd") = Head(Coming("snd")) /\ Coming("snd") # <<>>
      <4>1. inbox["snd"] # <<>> /\ inbox["snd"] \in Seq(Message) /\ wire["snd"] \in Seq(Message)
        BY <2>4, <3>1, Grounded DEF Defer, HasNext, Basis, Lines
      <4> QED BY <4>1, <3>1, HeadTailConcat DEF NextMsg, Coming
    <3>3. Head(Coming("snd")) \in Farewells
      <4>1. pc["snd"] \notin Stopped
        BY <1>6 DEF Lives
      <4> QED BY <4>1, <3>2, <1>6, Grounded, HeardBySender
    <3> QED BY <2>4, <3>2, <3>3, FarewellsSaid
  <2> QED BY <1>8, <2>2, <2>3, <2>4 DEF MidSendCheck
<1>9. CASE GoTo("snd", "read") /\ NoInput /\ UNCHANGED <<wire, signaled>>
  <2>1. UNCHANGED <<wire, chan, closed, ctx, pump>>
    BY <1>1, <1>9 DEF linkVars
  <2> QED BY <1>1, <1>2, <1>3, <1>4, <1>5, <1>9, <2>1, SenderGoesTo
<1> QED BY <1>7, <1>8, <1>9 DEF Poll

LEMMA JsiSenderEndsFile ==
  ASSUME Interlock, ~Browser("snd"), EndFile, JsiSends
  PROVE  Interlock'
<1>1. pc["snd"] = "fileEnd" /\ Control("snd", FileEnd(cur, FileData(cur, sent)), "waitAck") /\ NoInput
      /\ UNCHANGED linkVars
  BY DEF EndFile, At
<1>2. "waitAck" \in JsiSender /\ GoesOn("fileEnd", "waitAck")
  BY DEF JsiSender, GoesOn, InFile, Acking
<1>3. /\ accepted' = accepted /\ todo' = todo /\ cur' = cur /\ sent' = sent /\ buf' = buf
      /\ disk' = disk
  BY DEF EndFile, sndVars
<1>4. sent' \in Nat /\ buf' \in Nat /\ cur \in Files /\ sent = Size[cur]
  BY <1>1, <1>3, Grounded DEF Basis, SenderHolds, At
<1>5. SendAt("fileEnd", sent) = sent /\ SendAt("waitAck", sent') = Past
  BY SendPoints DEF InFile, Acking
<1>6. Hop(cur, want, Lengths, SendAt("fileEnd", sent), FileEnd(cur, FileData(cur, sent)),
          SendAt("waitAck", sent'))
  BY <1>4, <1>5 DEF Hop
<1>7. FileEnd(cur, FileData(cur, sent)) \in Message
  <2>1. FileData(cur, sent) \in Content /\ cur \in Int
    BY <1>4, FilesAreInts, SizesAreNat, FileDataTyped
  <2> QED BY <2>1 DEF FileEnd, Message
<1> QED BY <1>1, <1>2, <1>3, <1>4, <1>6, <1>7, SenderControls

LEMMA JsiSenderIsGreeted ==
  ASSUME Interlock, ~Browser("snd"), WaitHello("snd"), UNCHANGED sndVars, JsiSends
  PROVE  Interlock'
<1>1. pc["snd"] = "waitHello" /\ UNCHANGED linkVars
  BY DEF WaitHello, At
<1>2. /\ accepted' = accepted /\ todo' = todo /\ cur' = cur /\ sent' = sent /\ buf' = buf
      /\ disk' = disk
  BY DEF sndVars
<1>3. sent' \in Nat /\ buf' \in Nat
  BY <1>2, Grounded DEF Basis
<1>4. Lives("snd") /\ pc["snd"] # "closed" /\ pc["snd"] \notin Replying \cup Acking
  BY <1>1 DEF Lives, Stopped, Ended, Replying, Acking
<1>5. CASE WaitFails("snd") \/ TakeTerminal("snd")
  BY <1>1, <1>2, <1>3, <1>4, <1>5, SenderWaitFails, SenderTakesTerminal
<1>6. CASE TakeHello("snd")
  <2>1. Consume("snd") /\ NextMsg("snd").t = "hello"
    BY <1>6 DEF TakeHello, Take
  <2>2. Coming("snd") # <<>> /\ NextMsg("snd") = Head(Coming("snd"))
        /\ NextMsg("snd") = Hello(Version)
    BY <2>1, <1>4, WhatSenderHears, FarewellsSaid, Tags
  <2>3. GoTo("snd", "manifest") /\ wire' = wire
    BY <1>6, <2>2, Tags DEF TakeHello, AfterHello
  <2>4. err["snd"] = "none"
    BY <1>4, OutcomeOpen, Grounded
  <2>5. Turns("snd", "manifest", "none") /\ Says("snd", <<>>) /\ Hears("snd", TRUE)
    BY <2>1, <2>3, <2>4 DEF GoTo, Turns, Says, Hears
  <2>6. "manifest" \in Place("snd") /\ UNCHANGED <<kind, disk, ctx, closed, pump, chan>>
    BY <1>1, <1>2 DEF Place, JsiSender, JsiSends, linkVars
  <2>7. Move("snd", TRUE, <<>>, "manifest", "none")
    BY <1>4, <2>5, <2>6, MakesMove, Grounded DEF Lives
  <2>8. UNCHANGED <<Receives, accepted, todo, cur, sent, buf>>
    BY <1>2 DEF Receives, JsiSends
  <2> QED BY <1>1, <2>2, <2>7, <2>8, SenderIsMet
<1>7. CASE TakeNotHello("snd")
  <2>1. Consume("snd") /\ NextMsg("snd").t \notin {"hello", "cancel", "error"}
    BY <1>7 DEF TakeNotHello
  <2> QED BY <2>1, <1>4, WhatSenderHears, FarewellsSaid, Tags
<1> QED BY <1>5, <1>6, <1>7 DEF WaitHello

LEMMA JsiSenderIsAnswered ==
  ASSUME Interlock, ~Browser("snd"), WaitReply, JsiSends
  PROVE  Interlock'
<1>1. pc["snd"] = "waitReply" /\ UNCHANGED linkVars
  BY DEF WaitReply, At
<1>2. cur' = cur /\ sent' = sent /\ buf' = buf /\ disk' = disk
  BY DEF WaitReply
<1>3. sent' \in Nat /\ buf' \in Nat
  BY <1>2, Grounded DEF Basis
<1>4. Lives("snd") /\ pc["snd"] # "closed" /\ pc["snd"] \notin Unmet \cup Acking
      /\ pc["snd"] \in Replying
  BY <1>1 DEF Lives, Stopped, Ended, Replying, Acking, Unmet
<1>5. CASE WaitOther("snd", {"accept", "reject"}) /\ UNCHANGED <<accepted, todo>>
  BY <1>1, <1>2, <1>3, <1>4, <1>5, SenderWaitsOn
<1>6. CASE TakeReject
  <2>1. FailWith("snd", "rejected") /\ Hears("snd", TRUE) /\ wire' = wire
        /\ accepted' = accepted /\ todo' = todo
    BY <1>6 DEF TakeReject, Take, Hears
  <2>2. "rejected" \in Errors
    BY DEF Errors
  <2> QED BY <1>1, <1>2, <1>3, <1>4, <2>1, <2>2, SenderFails
<1>7. CASE TakeAccept
  <2>1. Consume("snd") /\ NextMsg("snd").t = "accept"
    BY <1>7 DEF TakeAccept, Take
  <2>2. Coming("snd") # <<>> /\ NextMsg("snd") = Head(Coming("snd"))
    BY <2>1, Taken, Grounded
  <2>3. PICK ids \in SUBSET Files : NextMsg("snd") = Accept(ids)
    BY <2>1, <1>4, WhatSenderHears, FarewellsSaid, Tags
  <2>4. NextMsg("snd").ids = ids /\ ValidAccept(ids, NumFiles)
    BY <2>3, Tags DEF ValidAccept, Files
  <2>5. GoTo("snd", "nextFile") /\ wire' = wire
        /\ accepted' = ResolveAccept(ids, NumFiles) /\ todo' = accepted'
    BY <1>7, <2>4 DEF TakeAccept
  <2>6. err["snd"] = "none"
    BY <1>4, OutcomeOpen, Grounded
  <2>7. Turns("snd", "nextFile", "none") /\ Says("snd", <<>>) /\ Hears("snd", TRUE)
    BY <2>1, <2>5, <2>6 DEF GoTo, Turns, Says, Hears
  <2>8. "nextFile" \in Place("snd") /\ UNCHANGED <<kind, disk, ctx, closed, pump, chan>>
    BY <1>1, <1>2 DEF Place, JsiSender, JsiSends, linkVars
  <2>9. Move("snd", TRUE, <<>>, "nextFile", "none")
    BY <1>4, <2>7, <2>8, MakesMove, Grounded DEF Lives
  <2>10. UNCHANGED <<Receives, cur, sent, buf>> /\ "nextFile" \in Nexting
    BY <1>2 DEF Receives, JsiSends, Nexting
  <2> QED BY <1>4, <2>2, <2>3, <2>5, <2>9, <2>10, SenderGetsReply
<1> QED BY <1>5, <1>6, <1>7 DEF WaitReply

LEMMA JsiSenderIsAcked ==
  ASSUME Interlock, ~Browser("snd"), WaitAck, JsiSends
  PROVE  Interlock'
<1>1. pc["snd"] = "waitAck" /\ UNCHANGED linkVars
  BY DEF WaitAck, At
<1>2. accepted' = accepted /\ cur' = cur /\ sent' = sent /\ buf' = buf /\ disk' = disk
  BY DEF WaitAck
<1>3. sent' \in Nat /\ buf' \in Nat
  BY <1>2, Grounded DEF Basis
<1>4. Lives("snd") /\ pc["snd"] # "closed" /\ pc["snd"] \notin Unmet \cup Replying
      /\ pc["snd"] \in Acking
  BY <1>1 DEF Lives, Stopped, Ended, Replying, Acking, Unmet
<1>5. CASE WaitOther("snd", {"file-ack"}) /\ UNCHANGED todo
  BY <1>1, <1>2, <1>3, <1>4, <1>5, SenderWaitsOn
<1>6. CASE TakeAck
  <2>1. Consume("snd") /\ NextMsg("snd").t = "file-ack"
    BY <1>6 DEF TakeAck, Take
  <2>2. Coming("snd") # <<>> /\ NextMsg("snd") = Head(Coming("snd"))
    BY <2>1, Taken, Grounded
  <2>3. NextMsg("snd") = FileAck(cur, "ok")
    BY <2>1, <1>4, WhatSenderHears, FarewellsSaid, Tags
  <2>4. NextMsg("snd").id = cur /\ NextMsg("snd").status = "ok"
    BY <2>3, Tags
  <2>5. GoTo("snd", "nextFile") /\ wire' = wire /\ todo' = todo \ {cur}
    BY <1>6, <2>4 DEF TakeAck
  <2>6. err["snd"] = "none"
    BY <1>4, OutcomeOpen, Grounded
  <2>7. Turns("snd", "nextFile", "none") /\ Says("snd", <<>>) /\ Hears("snd", TRUE)
    BY <2>1, <2>5, <2>6 DEF GoTo, Turns, Says, Hears
  <2>8. "nextFile" \in Place("snd") /\ UNCHANGED <<kind, disk, ctx, closed, pump, chan>>
    BY <1>1, <1>2 DEF Place, JsiSender, JsiSends, linkVars
  <2>9. Move("snd", TRUE, <<>>, "nextFile", "none")
    BY <1>4, <2>7, <2>8, MakesMove, Grounded DEF Lives
  <2>10. UNCHANGED <<Receives, accepted, cur, sent, buf>> /\ "nextFile" \in Nexting
    BY <1>2 DEF Receives, JsiSends, Nexting
  <2> QED BY <1>4, <2>2, <2>3, <2>5, <2>9, <2>10, SenderGetsAck
<1> QED BY <1>5, <1>6 DEF WaitAck

LEMMA JsiSenderReads ==
  ASSUME Interlock, ~Browser("snd"), ReadFile, JsiSends
  PROVE  Interlock'
<1>1. pc["snd"] = "read" /\ NoInput /\ UNCHANGED linkVars /\ wire' = wire
  BY DEF ReadFile, At
<1>2. accepted' = accepted /\ todo' = todo /\ cur' = cur /\ sent' = sent /\ disk' = disk
  BY DEF ReadFile
<1>3. /\ sent \in Nat /\ buf \in Nat /\ cur \in Files /\ disk[cur] \in Nat /\ Size[cur] \in Nat
      /\ ChunkSize \in Nat \ {0}
  BY Grounded, SizesAreNat, SenderAssumption DEF Basis
<1>4. Lives("snd") /\ Hears("snd", FALSE)
  BY <1>1 DEF Lives, Stopped, Ended, Hears
<1>5. /\ {"write", "fileEnd"} \subseteq JsiSender
      /\ \A l \in {"write", "fileEnd"} : GoesOn("read", l) /\ SendAt("read", sent) = SendAt(l, sent')
  BY <1>2, SendPoints DEF JsiSender, GoesOn, Filing, InFile
<1>6. UNCHANGED <<wire, chan, closed, ctx, disk, pump>>
  BY <1>1, <1>2 DEF linkVars
<1>7. {"ctx", "changed", "local"} \subseteq Errors
  BY DEF Errors
<1>8. CASE /\ sent < disk[cur]
           /\ buf' = IF disk[cur] - sent < ChunkSize THEN disk[cur] - sent ELSE ChunkSize
           /\ IF ctx["snd"] THEN FailWith("snd", "ctx") ELSE GoTo("snd", "write")
  <2>1. buf' \in Nat /\ buf' # 0 /\ sent + buf' <= disk[cur]
    BY <1>3, <1>8
  <2>2. sent' + buf' \in Lengths
    BY <1>2, <1>3, <2>1 DEF Lengths, Changed
  <2>3. CASE FailWith("snd", "ctx")
    BY <1>1, <1>2, <1>3, <1>4, <1>7, <2>1, <2>3, SenderFails
  <2>4. CASE GoTo("snd", "write")
    BY <1>1, <1>2, <1>3, <1>5, <1>6, <2>1, <2>2, <2>4, SenderGoesTo
  <2> QED BY <1>8, <2>3, <2>4
<1>9. CASE /\ IF sent = Size[cur] THEN GoTo("snd", "fileEnd") ELSE FailWith("snd", "changed")
           /\ UNCHANGED buf
  <2>1. CASE sent = Size[cur] /\ GoTo("snd", "fileEnd")
    BY <1>1, <1>2, <1>3, <1>5, <1>6, <1>9, <2>1, SenderGoesTo
  <2>2. CASE FailWith("snd", "changed")
    BY <1>1, <1>2, <1>3, <1>4, <1>7, <1>9, <2>2, SenderFails
  <2> QED BY <1>9, <2>1, <2>2
<1>10. CASE FailWith("snd", "local") /\ UNCHANGED buf
  BY <1>1, <1>2, <1>3, <1>4, <1>7, <1>10, SenderFails
<1> QED BY <1>8, <1>9, <1>10 DEF ReadFile

LEMMA JsiSenderWrites ==
  ASSUME Interlock, ~Browser("snd"), WriteChunk, JsiSends
  PROVE  Interlock'
<1>1. pc["snd"] = "write" /\ NoInput /\ UNCHANGED linkVars /\ buf' = 0
  BY DEF WriteChunk, At
<1>2. accepted' = accepted /\ todo' = todo /\ cur' = cur /\ disk' = disk
  BY DEF WriteChunk
<1>3. sent \in Nat /\ buf \in Nat /\ cur \in Files /\ buf # 0 /\ sent + buf \in Lengths
  BY <1>1, Grounded DEF Basis, SenderHolds, At
<1>4. Lives("snd") /\ Hears("snd", FALSE) /\ "ctx" \in Errors
  BY <1>1 DEF Lives, Stopped, Ended, Hears, Errors
<1>5. CASE ctx["snd"] /\ FailWith("snd", "ctx") /\ UNCHANGED <<wire, sent>>
  <2>1. buf' \in Nat /\ sent' \in Nat /\ wire' = wire
    BY <1>1, <1>3, <1>5
  <2> QED BY <1>1, <1>2, <1>4, <1>5, <2>1, SenderFails
<1>6. CASE /\ Control("snd", Chunk(Slice(cur, sent, buf)), "loop")
           /\ sent' = IF CanSend("snd") THEN sent + buf ELSE sent
  <2>1. "loop" \in JsiSender /\ GoesOn("write", "loop")
    BY DEF JsiSender, Filing, InFile, GoesOn
  <2>2. Chunk(Slice(cur, sent, buf)) \in Message
    <3>1. Slice(cur, sent, buf) \in Content
      BY <1>3, FilesAreInts, SliceTyped
    <3> QED BY <3>1 DEF Chunk, Message
  <2>3. sent' \in Nat /\ buf' \in Nat
    BY <1>1, <1>3, <1>6
  <2>4. SendAt("write", sent) = sent /\ SendAt("loop", sent') = sent'
    BY SendPoints DEF InFile
  <2>5. ASSUME CanSend("snd")
        PROVE  Hop(cur, want, Lengths, SendAt("write", sent), Chunk(Slice(cur, sent, buf)),
                   SendAt("loop", sent'))
    <3>1. sent' = sent + buf /\ sent < sent' /\ sent' - sent = buf /\ sent' \in Lengths
      BY <1>3, <1>6, <2>5
    <3> QED BY <3>1, <1>3, <2>4 DEF Hop
  <2> QED BY <1>1, <1>2, <1>6, <2>1, <2>2, <2>3, <2>5, SenderControls
<1> QED BY <1>5, <1>6 DEF WriteChunk

LEMMA JsiSenderStartsFile ==
  ASSUME Interlock, ~Browser("snd"), StartFile, JsiSends
  PROVE  Interlock'
<1>1. pc["snd"] = "nextFile" /\ NoInput /\ UNCHANGED linkVars /\ sent' = 0
  BY DEF StartFile, At
<1>2. accepted' = accepted /\ todo' = todo /\ buf' = buf /\ disk' = disk
  BY DEF StartFile
<1>3. PICK d \in todo : IsNext(d, todo) /\ Control("snd", FileStart(d), "open") /\ cur' = d
  BY DEF StartFile
<1>4. d \in Files /\ buf' \in Nat /\ sent' \in Nat /\ cur' \in Files
  BY <1>1, <1>2, <1>3, Grounded DEF Basis
<1>5. err["snd"] = "none" /\ pc["snd"] # "closed" /\ pc["snd"] \notin Stopped /\ pc["snd"] \in Nexting
  BY <1>1, OutcomeOpen, Grounded DEF Lives, Stopped, Ended, Nexting
<1>6. UNCHANGED <<kind, disk, ctx, closed, pump, chan>> /\ UNCHANGED <<Receives, accepted, todo>>
  BY <1>1, <1>2 DEF linkVars, JsiSends, Receives
<1>7. CASE CanSend("snd")
  <2>1. FileStart(d) \in Message
    BY <1>4, FilesAreInts DEF FileStart, Message
  <2>2. /\ Turns("snd", "open", "none") /\ Says("snd", <<FileStart(d)>>) /\ Hears("snd", FALSE)
        /\ "open" \in Place("snd")
    BY <1>1, <1>3, <1>5, <1>7, <2>1 DEF Control, GoTo, Turns, Says, Hears, Place, JsiSender, Filing
  <2>3. Move("snd", FALSE, <<FileStart(d)>>, "open", "none")
    BY <1>5, <1>6, <2>2, MakesMove, Grounded
  <2>4. "open" \in InFile \ {"write", "fileEnd"}
    BY DEF InFile
  <2> QED BY <1>1, <1>3, <1>4, <1>5, <1>6, <2>1, <2>3, <2>4, SenderTakesFile
<1>8. CASE ~CanSend("snd")
  <2>1. /\ Turns("snd", "failed", "send") /\ Says("snd", <<>>) /\ Hears("snd", FALSE)
        /\ "failed" \in Place("snd") /\ "failed" \in Stopped
    BY <1>1, <1>3, <1>8 DEF Control, FailWith, Turns, Says, Hears, Place, JsiSender, Stopped, Ended
  <2>2. Move("snd", FALSE, <<>>, "failed", "send")
    BY <1>5, <1>6, <2>1, MakesMove, Grounded
  <2>3. Justly("snd", "send") /\ "send" \in (Errors \cup {"left"}) \ {"none", "nil"}
    BY DEF Justly, Errors
  <2> QED BY <1>4, <1>5, <1>6, <2>1, <2>2, <2>3, SenderStopsBefore
<1> QED BY <1>7, <1>8

LEMMA JsiSenderFinishes ==
  ASSUME Interlock, ~Browser("snd"), SendDone, JsiSends
  PROVE  Interlock'
<1>1. pc["snd"] = "nextFile" /\ todo = {} /\ NoInput /\ UNCHANGED <<chan, closed, ctx>>
  BY DEF SendDone, At
<1>2. accepted' = accepted /\ todo' = todo /\ cur' = cur /\ sent' = sent /\ buf' = buf /\ disk' = disk
  BY DEF SendDone, sndVars
<1>3. sent' \in Nat /\ buf' \in Nat
  BY <1>2, Grounded DEF Basis
<1>5. pc["snd"] # "closed" /\ pc["snd"] \notin Stopped /\ pc["snd"] \in Nexting /\ Lives("snd")
  BY <1>1 DEF Lives, Stopped, Ended, Nexting
<1>6. UNCHANGED <<kind, disk, ctx, closed, chan>>
      /\ UNCHANGED <<Receives, accepted, todo, cur, sent, buf>>
  BY <1>1, <1>2 DEF JsiSends, Receives
<1>7. CASE Post("snd", Done) /\ Succeed("snd")
  <2>1. Done \in Message
    BY DEF Done, Message
  <2>2. /\ Turns("snd", "returned", "nil") /\ Says("snd", <<Done>>) /\ Hears("snd", FALSE)
        /\ "returned" \in Place("snd") /\ "returned" \in Stopped \ {"failed"}
    BY <1>1, <1>7, <2>1 DEF Succeed, Turns, Says, Hears, Place, JsiSender, Stopped, Ended
  <2>3. pump' = [pump EXCEPT !["snd"] = IF "returned" \in Stopped THEN "off" ELSE "on"]
    BY <1>7, <2>2 DEF Succeed
  <2>4. Move("snd", FALSE, <<Done>>, "returned", "nil")
    BY <1>5, <1>6, <2>2, <2>3, MakesMove, Grounded
  <2> QED BY <1>1, <1>5, <1>6, <2>2, <2>4, SenderHasFinished
<1>8. CASE FailWith("snd", "send") /\ UNCHANGED <<wire, pump>>
  <2>1. Hears("snd", FALSE) /\ "send" \in Errors /\ UNCHANGED <<wire, linkVars, disk>>
    BY <1>1, <1>2, <1>8 DEF Hears, Errors, linkVars
  <2> QED BY <1>2, <1>3, <1>5, <1>8, <2>1, SenderFails
<1> QED BY <1>7, <1>8 DEF SendDone

LEMMA JsiSenderAborts ==
  ASSUME Interlock, ~Browser("snd"), Abort("snd"), UNCHANGED sndVars, JsiSends
  PROVE  Interlock'
<1>1. pc["snd"] = "failed" /\ NoInput /\ UNCHANGED <<chan, closed, ctx>>
      /\ GoTo("snd", "returned") /\ pump' = [pump EXCEPT !["snd"] = "off"]
  BY DEF Abort, At
<1>2. accepted' = accepted /\ todo' = todo /\ cur' = cur /\ sent' = sent /\ buf' = buf /\ disk' = disk
  BY DEF sndVars
<1>3. pc["snd"] # "closed" /\ pc["snd"] \in Stopped /\ "returned" \in Stopped \ {"failed"}
      /\ "returned" \in Place("snd")
  BY <1>1 DEF Stopped, Ended, Place, JsiSender
<1>4. Failed("snd")
  BY <1>1, Grounded DEF Verdicts, At
<1>5. Turns("snd", "returned", err["snd"]) /\ Hears("snd", FALSE)
  BY <1>1 DEF Turns, GoTo, Hears
<1>6. UNCHANGED <<kind, disk, ctx, closed, chan>>
      /\ UNCHANGED <<Receives, accepted, todo, cur, sent, buf>>
  BY <1>1, <1>2 DEF JsiSends, Receives
<1>7. pump' = [pump EXCEPT !["snd"] = IF "returned" \in Stopped THEN "off" ELSE "on"]
  BY <1>1, <1>3
<1>8. CASE Post("snd", Cancel)
  <2>1. Says("snd", <<Cancel>>)
    BY <1>8, FarewellsTyped DEF Says
  <2>2. Move("snd", FALSE, <<Cancel>>, "returned", err["snd"])
    BY <1>3, <1>5, <1>6, <1>7, <2>1, MakesMove, Grounded
  <2> QED BY <1>3, <1>4, <1>6, <2>2, SenderGoesAway
<1>9. CASE wire' = wire
  <2>1. Says("snd", <<>>)
    BY <1>9 DEF Says
  <2>2. Move("snd", FALSE, <<>>, "returned", err["snd"])
    BY <1>3, <1>5, <1>6, <1>7, <2>1, MakesMove, Grounded
  <2> QED BY <1>3, <1>4, <1>6, <2>2, SenderGoesAway
<1> QED BY <1>8, <1>9 DEF Abort

LEMMA JsiSenderCloses ==
  ASSUME Interlock, ~Browser("snd"), CloseConn("snd"), UNCHANGED sndVars, JsiSends
  PROVE  Interlock'
<1>1. pc["snd"] = "returned" /\ NoInput /\ UNCHANGED <<wire, closed, ctx, pump>>
      /\ GoTo("snd", "closed") /\ chan' = [chan EXCEPT !["snd"] = "closed"]
  BY DEF CloseConn, At
<1>2. accepted' = accepted /\ todo' = todo /\ cur' = cur /\ sent' = sent /\ buf' = buf /\ disk' = disk
  BY DEF sndVars
<1>3. pc["snd"] # "closed" /\ pc["snd"] \in Stopped /\ "closed" \in Stopped \ {"failed"}
      /\ "closed" \in Place("snd")
  BY <1>1 DEF Stopped, Ended, Place, JsiSender
<1>5. Turns("snd", "closed", err["snd"]) /\ Hears("snd", FALSE) /\ Says("snd", <<>>)
  BY <1>1 DEF Turns, GoTo, Hears, Says
<1>6. UNCHANGED <<kind, disk, ctx, closed, pump>>
      /\ UNCHANGED <<Receives, accepted, todo, cur, sent, buf>>
  BY <1>1, <1>2 DEF JsiSends, Receives
<1>7. Move("snd", FALSE, <<>>, "closed", err["snd"])
  BY <1>1, <1>3, <1>5, <1>6, MakesMove, Grounded
<1> QED BY <1>3, <1>6, <1>7, SenderGoesAway

LEMMA JsiSenderSteps ==
  ASSUME Interlock, ~Browser("snd"), SenderStep, UNCHANGED <<kind, part, results>>
  PROVE  Interlock'
<1>1. JsiSends /\ SenderNext
  BY DEF SenderStep, JsiSends
<1>2. CASE BothSides("snd") /\ UNCHANGED sndVars
  BY <1>1, <1>2, JsiSenderBegins, JsiSenderGreets, JsiSenderIsGreeted, JsiSenderAborts,
     JsiSenderCloses DEF BothSides
<1>3. CASE SendManifest \/ WaitReply \/ StartFile \/ OpenFile \/ Poll
  BY <1>1, <1>3, JsiSenderAnnounces, JsiSenderIsAnswered, JsiSenderStartsFile, JsiSenderOpens,
     JsiSenderPolls
<1>4. CASE ReadFile \/ WriteChunk \/ EndFile \/ WaitAck \/ SendDone
  BY <1>1, <1>4, JsiSenderReads, JsiSenderWrites, JsiSenderEndsFile, JsiSenderIsAcked,
     JsiSenderFinishes
<1> QED BY <1>1, <1>2, <1>3, <1>4 DEF SenderNext

-----------------------------------------------------------------------------
(* The steps of a browser that sends.                                      *)

\* What such a step leaves alone.
Browses == UNCHANGED <<browserRest, meta, want, part>>

LEMMA ChannelClosed ==
  ASSUME Interlock, NEW s \in Side, Lives(s), ~CanSend(s) \/ closed[s]
  PROVE  At(Peer(s), "closed")
<1>1. closed[s] => chan[s] = "closed"
  BY DEF Interlock, Links
<1>2. chan[s] # "open" => At(s, "closed") \/ At(Peer(s), "closed")
  BY DEF Interlock, Links
<1>3. pc[s] # "closed"
  BY DEF Lives, Stopped, Ended
<1> QED BY <1>1, <1>2, <1>3 DEF CanSend, At

LEMMA SenderThrows ==
  ASSUME Interlock, Browser("snd"), Lives("snd"), NEW h \in BOOLEAN,
         NEW e \in Errors \ {"none", "nil", "version", "hash-mismatch"},
         Throw("snd", e), Hears("snd", h), wire' = wire, Browses,
         e # "local" => Failed("rcv") \/ At("rcv", "closed"),
         UNCHANGED <<accepted, todo, cur>>, sent' \in Nat, buf' \in Nat
  PROVE  Interlock'
<1>1. "b-error" \in Place("snd") /\ "b-error" \in Stopped
  BY DEF Place, BrowserSender, Stopped
<1>2. pc["snd"] \notin Stopped /\ pc["snd"] # "closed" /\ "snd" \in Side
  BY DEF Lives, Stopped, Ended, Side
<1>3. Turns("snd", "b-error", e) /\ Says("snd", <<>>)
  BY DEF Throw, Turns, Says
<1>4. UNCHANGED <<kind, disk, ctx, closed, chan>>
  BY DEF Browses, browserRest
<1>5. pump' = [pump EXCEPT !["snd"] = IF "b-error" \in Stopped THEN "off" ELSE "on"]
  BY <1>1 DEF Throw
<1>6. Move("snd", h, <<>>, "b-error", e)
  BY <1>1, <1>2, <1>3, <1>4, <1>5, MakesMove
<1>7. Justly("snd", e)
  BY DEF Justly, Peer
<1>8. UNCHANGED <<Receives, accepted, todo, cur>>
  BY DEF Receives, Browses, browserRest, rcvVars, Throw
<1>9. e \in (Errors \cup {"left"}) \ {"none", "nil"}
  OBVIOUS
<1> QED BY <1>1, <1>6, <1>7, <1>8, <1>9, SenderLeavesOff

\* It says Q, or nothing, and goes on.
LEMMA SenderResumes ==
  ASSUME Interlock, Browser("snd"), NEW l \in BrowserSender, GoesOn(pc["snd"], l),
         NEW Q \in Seq(Message), Says("snd", Q),
         GoTo("snd", l), results' = results, NoInput, Browses,
         pump' = pump \/ pump' = [pump EXCEPT !["snd"] = "on"],
         UNCHANGED <<accepted, todo, cur>>, sent' \in Nat, buf' \in Nat,
         Trail(cur, want, Lengths, SendAt(pc["snd"], sent), SendAt(l, sent'), Q)
  PROVE  Interlock'
<1>1. l \in Place("snd") /\ pc["snd"] \notin Stopped /\ l \notin Stopped
      /\ l # "write" /\ l # "fileEnd"
  BY DEF Place, GoesOn, Stopped, InFile, Acking, Ended, BrowserSender
<1>2. err["snd"] = "none" /\ pc["snd"] # "closed"
  BY <1>1, OutcomeOpen DEF Side, Lives, Stopped, Ended
<1>3. Turns("snd", l, "none") /\ Hears("snd", FALSE)
  BY <1>2 DEF GoTo, Turns, Hears
<1>4. UNCHANGED <<kind, disk, ctx, closed, chan>>
  BY DEF Browses, browserRest
<1>5. Move("snd", FALSE, Q, l, "none")
  BY <1>1, <1>2, <1>3, <1>4, MakesMove, Grounded
<1>6. UNCHANGED <<Receives, accepted, todo, cur>>
  BY DEF Receives, Browses, browserRest, rcvVars
<1> QED BY <1>1, <1>5, <1>6, SenderGoesOn

\* It says Q and goes on, or finds that the channel has closed.
LEMMA SenderSendsAll ==
  ASSUME Interlock, Browser("snd"), NEW l \in BrowserSender, GoesOn(pc["snd"], l),
         NEW Q \in Seq(Message), SendAll("snd", Q, l), NoInput, Browses,
         UNCHANGED <<accepted, todo, cur>>, sent' \in Nat, buf' \in Nat,
         Trail(cur, want, Lengths, SendAt(pc["snd"], sent), SendAt(l, sent'), Q)
  PROVE  Interlock'
<1>1. Lives("snd") /\ "snd" \in Side
  BY DEF Lives, GoesOn, Stopped, InFile, Acking, Ended, Side
<1>2. CASE CanSend("snd")
  <2>1. Says("snd", Q) /\ GoTo("snd", l) /\ results' = results /\ pump' = pump
    BY <1>2 DEF SendAll, Says, Resume
  <2> QED BY <2>1, SenderResumes
<1>3. CASE ~CanSend("snd")
  <2>1. Throw("snd", "send") /\ wire' = wire /\ Hears("snd", FALSE)
    BY <1>3 DEF SendAll, Hears
  <2>2. At("rcv", "closed")
    BY <1>1, <1>3, ChannelClosed DEF Peer
  <2>3. "send" \in Errors
    BY DEF Errors
  <2> QED BY <1>1, <2>1, <2>2, <2>3, SenderThrows
<1> QED BY <1>2, <1>3

LEMMA BrowserSenderStarts ==
  ASSUME Interlock, Browser("snd"), Start("snd")
  PROVE  Interlock'
<1>1. /\ pc["snd"] = "init" /\ Browses /\ NoInput
      /\ UNCHANGED <<accepted, todo, cur>> /\ sent' = sent /\ buf' = buf
  BY DEF Start, At, Browses, browserRest, NoInput
<1>2. sent' \in Nat /\ buf' \in Nat /\ cur \in Files /\ Lengths \subseteq Nat
  BY <1>1, Grounded DEF Basis, Fit
<1>3. Lives("snd") /\ "b-reply" \in BrowserSender /\ GoesOn("init", "b-reply")
  BY <1>1 DEF Lives, Stopped, Ended, BrowserSender, GoesOn
<1>4. Hello(Version) \in Message /\ Manifest(Metas) \in Message
  <2>1. Hello(Version) \in Message
    BY CommonMessages DEF Common
  <2>2. Manifest(Metas) \in Message
    BY MetasTyped DEF Manifest, Message
  <2> QED BY <2>1, <2>2
<1>5. CASE CanSend("snd")
  <2> DEFINE Q == <<Hello(Version)>> \o <<Manifest(Metas)>>
  <2>1. Q \in Seq(Message) /\ <<Hello(Version)>> \in Seq(Message) /\ <<Manifest(Metas)>> \in Seq(Message)
    BY <1>4
  <2>2. -4 \in Int /\ -3 \in Int /\ -2 \in Int
    OBVIOUS
  <2>3. /\ Hop(cur, want, Lengths, -4, Hello(Version), -3)
        /\ Hop(cur, want, Lengths, -3, Manifest(Metas), -2)
    BY DEF Hop
  <2>4. /\ Trail(cur, want, Lengths, -4, -3, <<Hello(Version)>>)
        /\ Trail(cur, want, Lengths, -3, -2, <<Manifest(Metas)>>)
    BY <1>2, <1>4, <2>2, <2>3, TrailOne
  <2>5. Trail(cur, want, Lengths, -4, -2, Q)
    BY <2>1, <2>2, <2>4, TrailConcat
  <2>6. SendAt("init", sent) = -4 /\ SendAt("b-reply", sent') = -2
    BY SendPoints DEF Replying
  <2>7. Says("snd", Q) /\ GoTo("snd", "b-reply") /\ results' = results
        /\ pump' = [pump EXCEPT !["snd"] = "on"]
    BY <1>5 DEF Start, Says
  <2> HIDE DEF Q
  <2> QED BY <1>1, <1>2, <1>3, <2>1, <2>5, <2>6, <2>7, SenderResumes
<1>6. CASE ~CanSend("snd")
  <2>1. Throw("snd", "send") /\ wire' = wire /\ Hears("snd", FALSE)
    BY <1>1, <1>6 DEF Start, Hears
  <2>2. At("rcv", "closed") /\ "send" \in Errors
    BY <1>3, <1>6, ChannelClosed, Grounded DEF Peer, Errors
  <2> QED BY <1>1, <1>2, <1>3, <2>1, <2>2, SenderThrows
<1> QED BY <1>5, <1>6

LEMMA BrowserSenderIsAnswered ==
  ASSUME Interlock, Browser("snd"), Reply
  PROVE  Interlock'
<1>1. pc["snd"] = "b-reply" /\ Browses /\ cur' = cur /\ sent' = sent /\ buf' = buf
  BY DEF Reply, At, Browses, browserRest
<1>2. sent' \in Nat /\ buf' \in Nat
  BY <1>1, Grounded DEF Basis
<1>3. Lives("snd") /\ pc["snd"] # "closed" /\ pc["snd"] \notin Stopped /\ pc["snd"] \notin Acking
      /\ pc["snd"] \in Replying /\ "snd" \in Side
  BY <1>1 DEF Lives, Stopped, Ended, Replying, Acking, Side
<1>4. UNCHANGED <<kind, disk, ctx, closed, chan>> /\ UNCHANGED <<meta, want, dest, dir, saved, part>>
  BY <1>1 DEF Browses, browserRest
<1>5. err["snd"] = "none" /\ {"rejected", "protocol"} \subseteq Errors
  BY <1>3, OutcomeOpen DEF Errors
<1>6. ASSUME Take("snd", {"accept"}),
             accepted' = ResolveAccept(NextMsg("snd").ids, NumFiles), todo' = accepted',
             Resume("snd", "b-next"), wire' = wire
      PROVE  Interlock'
  <2>1. Consume("snd") /\ NextMsg("snd").t = "accept"
    BY <1>6 DEF Take
  <2>2. Coming("snd") # <<>> /\ NextMsg("snd") = Head(Coming("snd"))
    BY <2>1, <1>3, Taken
  <2>3. PICK ids \in SUBSET Files : NextMsg("snd") = Accept(ids)
    BY <2>1, <1>3, WhatSenderHears, FarewellsSaid, Tags
  <2>4. NextMsg("snd").ids = ids
    BY <2>3, Tags
  <2>5. Turns("snd", "b-next", "none") /\ Says("snd", <<>>) /\ Hears("snd", TRUE)
        /\ pump' = pump /\ results' = results
    BY <2>1, <1>5, <1>6 DEF Resume, GoTo, Turns, Says, Hears
  <2>6. "b-next" \in Place("snd") /\ "b-next" \in Nexting
    BY DEF Place, BrowserSender, Nexting
  <2>7. Move("snd", TRUE, <<>>, "b-next", "none")
    BY <1>3, <1>4, <2>5, <2>6, MakesMove
  <2>8. UNCHANGED <<Receives, cur, sent, buf>>
    BY <1>1, <1>4, <2>5 DEF Receives, rcvVars
  <2>9. accepted' = ResolveAccept(ids, NumFiles) /\ todo' = accepted'
    BY <2>4, <1>6
  <2> QED BY <1>3, <2>2, <2>3, <2>6, <2>7, <2>8, <2>9, SenderGetsReply
<1>7. ASSUME SkipHello("snd"), UNCHANGED <<accepted, todo>>
      PROVE  Interlock'
  <2>1. Consume("snd") /\ NextMsg("snd").t = "hello" /\ UNCHANGED <<pc, err, pump, results, wire>>
    BY <1>7 DEF SkipHello, Take
  <2>2. Coming("snd") # <<>> /\ NextMsg("snd") = Head(Coming("snd"))
        /\ Head(Coming("snd")) = Hello(Version)
    BY <2>1, <1>3, WhatSenderHears, FarewellsSaid, Tags
  <2>3. pc' = [pc EXCEPT !["snd"] = "b-reply"]
    BY <2>1, <1>1, Grounded DEF Basis
  <2>4. Turns("snd", "b-reply", "none") /\ Says("snd", <<>>) /\ Hears("snd", TRUE)
    BY <2>1, <2>3, <1>5 DEF Turns, Says, Hears
  <2>5. "b-reply" \in Place("snd")
    BY DEF Place, BrowserSender
  <2>6. Move("snd", TRUE, <<>>, "b-reply", "none")
    BY <1>3, <1>4, <2>1, <2>4, <2>5, MakesMove
  <2>7. UNCHANGED <<Receives, accepted, todo, cur, sent, buf>>
    BY <1>1, <1>4, <1>7, <2>1 DEF Receives, rcvVars
  <2> QED BY <1>1, <2>2, <2>6, <2>7, SenderIsMet
<1>8. ASSUME Take("snd", {"reject"}), Throw("snd", "rejected"), wire' = wire,
             UNCHANGED <<accepted, todo>>
      PROVE  Interlock'
  <2>1. Consume("snd") /\ NextMsg("snd").t = "reject" /\ Hears("snd", TRUE)
    BY <1>8 DEF Take, Hears
  <2>2. Failed("rcv")
    BY <2>1, <1>3, WhatSenderHears, FarewellsSaid, Tags
  <2> QED BY <1>1, <1>2, <1>3, <1>5, <1>8, <2>1, <2>2, SenderThrows
<1>9. ASSUME TakeOther("snd", {"accept", "hello", "reject"}), UNCHANGED <<accepted, todo>>
      PROVE  Interlock'
  <2>1. Consume("snd") /\ NextMsg("snd").t \notin {"accept", "hello", "reject"} /\ Hears("snd", TRUE)
        /\ Throw("snd", "protocol") /\ wire' = wire
    BY <1>9 DEF TakeOther, Hears
  <2>2. Failed("rcv")
    BY <2>1, <1>3, WhatSenderHears, FarewellsSaid, Tags
  <2> QED BY <1>1, <1>2, <1>3, <1>5, <1>9, <2>1, <2>2, SenderThrows
<1>10. \/ /\ Take("snd", {"accept"}) /\ accepted' = ResolveAccept(NextMsg("snd").ids, NumFiles)
          /\ todo' = accepted' /\ Resume("snd", "b-next") /\ wire' = wire
       \/ SkipHello("snd") /\ UNCHANGED <<accepted, todo>>
       \/ Take("snd", {"reject"}) /\ Throw("snd", "rejected") /\ wire' = wire /\ UNCHANGED <<accepted, todo>>
       \/ TakeOther("snd", {"accept", "hello", "reject"}) /\ UNCHANGED <<accepted, todo>>
  BY DEF Reply
<1> QED BY <1>6, <1>7, <1>8, <1>9, <1>10

LEMMA BrowserSenderTakesNext ==
  ASSUME Interlock, Browser("snd"), NextFile
  PROVE  Interlock'
<1>1. pc["snd"] = "b-next" /\ Browses /\ NoInput /\ accepted' = accepted /\ todo' = todo /\ buf' = buf
  BY DEF NextFile, At, Browses, browserRest, NoInput
<1>2. buf' \in Nat /\ todo \in SUBSET Files /\ cur \in Files /\ sent \in Nat
  BY <1>1, Grounded DEF Basis
<1>3. Lives("snd") /\ pc["snd"] # "closed" /\ pc["snd"] \notin Stopped
      /\ pc["snd"] \in Nexting /\ "snd" \in Side /\ err["snd"] = "none"
  BY <1>1, OutcomeOpen DEF Lives, Stopped, Ended, Nexting, Side
<1>4. UNCHANGED <<kind, disk, ctx, closed, chan>> /\ UNCHANGED <<meta, want, dest, dir, saved, part>>
  BY <1>1 DEF Browses, browserRest
<1>5. Hears("snd", FALSE) /\ "send" \in Errors
  BY <1>1 DEF Hears, Errors
<1>6. ASSUME NEW d \in todo, IsNext(d, todo), SendAll("snd", <<FileStart(d)>>, "b-loop"),
             cur' = d, sent' = 0
      PROVE  Interlock'
  <2>1. d \in Files /\ cur' \in Files /\ sent' \in Nat /\ FileStart(d) \in Message
    <3>1. d \in Files /\ d \in Int
      BY <1>2, FilesAreInts
    <3> QED BY <3>1, <1>6 DEF FileStart, Message
  <2>2. CASE CanSend("snd")
    <3>1. /\ Turns("snd", "b-loop", "none") /\ Says("snd", <<FileStart(d)>>)
          /\ pump' = pump /\ results' = results
      BY <1>3, <1>6, <2>2 DEF SendAll, Resume, GoTo, Turns, Says
    <3>2. "b-loop" \in Place("snd") /\ "b-loop" \in InFile \ {"write", "fileEnd"}
      BY DEF Place, BrowserSender, InFile
    <3>3. Move("snd", FALSE, <<FileStart(d)>>, "b-loop", "none")
      BY <1>3, <1>4, <1>5, <3>1, <3>2, MakesMove
    <3>4. UNCHANGED <<Receives, accepted, todo>>
      BY <1>1, <1>4, <3>1 DEF Receives, rcvVars
    <3> QED BY <1>2, <1>3, <1>6, <2>1, <3>2, <3>3, <3>4, SenderTakesFile
  <2>3. CASE ~CanSend("snd")
    <3>1. Throw("snd", "send") /\ wire' = wire
      BY <1>6, <2>3 DEF SendAll
    <3>2. At("rcv", "closed")
      BY <1>3, <2>3, ChannelClosed DEF Peer
    <3>3. /\ Turns("snd", "b-error", "send") /\ Says("snd", <<>>)
          /\ "b-error" \in Place("snd") /\ "b-error" \in Stopped
          /\ pump' = [pump EXCEPT !["snd"] = IF "b-error" \in Stopped THEN "off" ELSE "on"]
      BY <3>1 DEF Throw, Turns, Says, Place, BrowserSender, Stopped
    <3>4. Move("snd", FALSE, <<>>, "b-error", "send")
      BY <1>3, <1>4, <1>5, <3>3, MakesMove
    <3>5. Justly("snd", "send") /\ "send" \in (Errors \cup {"left"}) \ {"none", "nil"}
      BY <3>2, <1>5 DEF Justly, Peer
    <3>6. UNCHANGED <<Receives, accepted, todo>>
      BY <1>1, <1>4, <3>1 DEF Receives, rcvVars, Throw
    <3> QED BY <1>2, <1>3, <2>1, <3>3, <3>4, <3>5, <3>6, SenderStopsBefore
  <2> QED BY <2>2, <2>3
<1>7. ASSUME todo = {}, UNCHANGED <<cur, sent>>, CanSend("snd"), Post("snd", Done), Resolve("snd"),
             results' = results
      PROVE  Interlock'
  <2>1. /\ Turns("snd", "b-over", "nil") /\ Says("snd", <<Done>>)
        /\ "b-over" \in Place("snd") /\ "b-over" \in Stopped \ {"failed"}
    BY <1>7 DEF Resolve, Turns, Says, Place, BrowserSender, Stopped, Done, Message
  <2>2. pump' = [pump EXCEPT !["snd"] = IF "b-over" \in Stopped THEN "off" ELSE "on"]
    BY <2>1, <1>7 DEF Resolve
  <2>3. Move("snd", FALSE, <<Done>>, "b-over", "nil")
    BY <1>3, <1>4, <1>5, <2>1, <2>2, MakesMove
  <2>4. UNCHANGED <<Receives, accepted, todo, cur, sent, buf>>
    BY <1>1, <1>4, <1>7 DEF Receives, rcvVars
  <2> QED BY <1>3, <1>7, <2>1, <2>3, <2>4, SenderHasFinished
<1>8. ASSUME UNCHANGED <<cur, sent>>, ~CanSend("snd"), Throw("snd", "send"), UNCHANGED wire
      PROVE  Interlock'
  <2>1. At("rcv", "closed") /\ sent' \in Nat /\ cur' = cur
    BY <1>2, <1>3, <1>8, ChannelClosed DEF Peer
  <2> QED BY <1>1, <1>2, <1>3, <1>5, <1>8, <2>1, SenderThrows
<1> QED BY <1>6, <1>7, <1>8 DEF NextFile

LEMMA BrowserSenderPaces ==
  ASSUME Interlock, Browser("snd"), Pace \/ BufferedAmountLow
  PROVE  Interlock'
<1>1. PICK l \in {"b-low", "b-read"} : Resume("snd", l)
  BY DEF Pace, BufferedAmountLow
<1>2. /\ pc["snd"] \in {"b-loop", "b-low"} /\ Browses /\ NoInput /\ wire' = wire
      /\ accepted' = accepted /\ todo' = todo /\ cur' = cur /\ sent' = sent /\ buf' = buf
  BY DEF Pace, BufferedAmountLow, At, Browses, browserRest, NoInput, sndVars
<1>3. sent' \in Nat /\ buf' \in Nat /\ <<>> \in Seq(Message)
  BY <1>2, Grounded DEF Basis
<1>4. l \in BrowserSender /\ GoesOn(pc["snd"], l)
  BY <1>2 DEF BrowserSender, GoesOn, InFile
<1>5. Says("snd", <<>>) /\ GoTo("snd", l) /\ results' = results /\ pump' = pump
  BY <1>1, <1>2 DEF Says, Resume
<1>6. SendAt(pc["snd"], sent) = sent /\ SendAt(l, sent') = sent
  BY <1>2, SendPoints DEF InFile
<1>7. Trail(cur, want, Lengths, SendAt(pc["snd"], sent), SendAt(l, sent'), <<>>)
  BY <1>2, <1>3, <1>6, TrailEmpty
<1> QED BY <1>2, <1>3, <1>4, <1>5, <1>7, SenderResumes

\* The chunks of one read lead on to the end of what was read.
LEMMA PiecesLead ==
  ASSUME cur \in Files, sent \in Nat, NEW n \in Nat \ {0}, NEW W, NEW L, L \subseteq Nat,
         \A k \in sent..(sent + n) : k \in L
  PROVE  Pieces(n) \in Seq(Message) /\ Trail(cur, W, L, sent, sent + n, Pieces(n))
<1> DEFINE C == ChunkSize
           m == (n + ChunkSize - 1) \div ChunkSize
           w == [k \in 0..m |-> IF k = m THEN sent + n ELSE sent + k * ChunkSize]
<1>1. C \in Nat \ {0} /\ cur \in Int
  BY SenderAssumption, FilesAreInts
<1>2. m \in Nat \ {0} /\ (m - 1) * C < n /\ n <= m * C
  BY <1>1
<1>3. \A k \in Nat : k < m => k * C <= (m - 1) * C
  BY <1>1, <1>2
<1>4. \A i, j \in Nat : i < j => i * C < j * C
  BY <1>1
<1>5. \A k \in 1..m : (k - 1) * C \in Nat /\ (k - 1) * C < n /\ k * C = (k - 1) * C + C
  BY <1>1, <1>2, <1>3
<1>6. ASSUME NEW k \in 1..m, k # m
      PROVE  k * C < n
  <2>1. k \in Nat /\ k < m
    BY <1>2, <1>6
  <2>2. k * C <= (m - 1) * C /\ (m - 1) * C < n
    BY <2>1, <1>2, <1>3
  <2> HIDE DEF m
  <2> QED BY <2>1, <2>2, <1>1, <1>2
<1>7. Len(Pieces(n)) = m /\ DOMAIN Pieces(n) = 1..m
  BY <1>2 DEF Pieces
<1>10. w \in [0..m -> Nat] /\ w[0] = sent /\ w[m] = sent + n
  BY <1>1, <1>2
<1>8. ASSUME NEW k \in 1..m
      PROVE  /\ Pieces(n)[k] = Chunk(Slice(cur, w[k-1], w[k] - w[k-1]))
             /\ Pieces(n)[k] \in Message
             /\ w[k-1] \in Nat /\ w[k] \in L /\ w[k-1] < w[k]
  <2> DEFINE from == (k - 1) * C
             len == IF n - from < C THEN n - from ELSE C
  <2>1. Pieces(n)[k] = Chunk(Slice(cur, sent + from, len))
    BY <1>2 DEF Pieces
  <2>2. from \in Nat /\ from < n /\ k * C = from + C
    BY <1>5
  <2>3. w[k-1] = sent + from
    BY <1>2
  <2>4. w[k] = sent + from + len
    <3>1. CASE k = m
      <4>1. w[k] = sent + n
        BY <3>1
      <4>2. n <= from + C
        BY <1>2, <2>2, <3>1
      <4>3. len = n - from
        BY <4>2, <2>2, <1>1
      <4> QED BY <4>1, <4>3, <2>2, <1>10
    <3>2. CASE k # m
      <4>1. w[k] = sent + k * C
        BY <3>2
      <4>2. from + C < n
        BY <1>6, <2>2, <3>2
      <4>3. len = C
        BY <4>2, <2>2, <1>1
      <4> QED BY <4>1, <4>3, <2>2, <1>1
    <3> QED BY <3>1, <3>2
  <2>5. len \in Nat \ {0} /\ from + len <= n
    BY <1>1, <2>2
  <2> HIDE DEF from, len, w
  <2>6. w[k] - w[k-1] = len /\ w[k-1] < w[k] /\ w[k-1] \in Nat
    BY <2>2, <2>3, <2>4, <2>5
  <2>7. w[k] \in sent..(sent + n)
    BY <2>2, <2>4, <2>5
  <2>8. Slice(cur, sent + from, len) \in Content
    BY <1>1, <2>2, <2>5, SliceTyped
  <2>9. Chunk(Slice(cur, sent + from, len)) \in Message
    BY <2>8 DEF Chunk, Message
  <2> QED BY <2>1, <2>3, <2>6, <2>7, <2>9
<1>9. \A i, j \in 0..m : i < j => w[i] < w[j]
  <2> SUFFICES ASSUME NEW i \in 0..m, NEW j \in 0..m, i < j PROVE w[i] < w[j]
    OBVIOUS
  <2>1. i * C < n /\ i * C \in Nat /\ w[i] = sent + i * C
    BY <1>1, <1>2, <1>3
  <2>2. CASE j = m
    BY <2>1, <2>2
  <2>3. CASE j # m
    <3>1. i * C < j * C /\ w[j] = sent + j * C
      BY <1>4, <2>3
    <3> QED BY <3>1, <2>1, <1>1
  <2> QED BY <2>2, <2>3
<1> HIDE DEF w, m
<1>11. Pieces(n) \in Seq(Message)
  <2>1. Pieces(n) = [k \in 1..m |-> Pieces(n)[k]]
    BY DEF Pieces, m
  <2> QED BY <1>2, <1>8, <2>1
<1>12. \A k \in 1..Len(Pieces(n)) : Hop(cur, W, L, w[k-1], Pieces(n)[k], w[k])
  BY <1>7, <1>8 DEF Hop
<1>13. \A i, j \in 0..Len(Pieces(n)) : i < j => Later(w[i], w[j])
  <2> SUFFICES ASSUME NEW i \in 0..m, NEW j \in 0..m, i < j PROVE Later(w[i], w[j])
    BY <1>7
  <2>1. w[i] \in Nat /\ w[j] \in Nat /\ w[i] < w[j]
    BY <1>9, <1>10
  <2> QED BY <2>1 DEF Later, Past, Finished, Broken
<1>14. w \in [0..Len(Pieces(n)) -> Int] /\ w[0] = sent /\ w[Len(Pieces(n))] = sent + n
  BY <1>2, <1>7, <1>10
<1> QED BY <1>11, <1>12, <1>13, <1>14, Zenon DEF Trail

LEMMA BrowserSenderReads ==
  ASSUME Interlock, Browser("snd"), ReadBlob
  PROVE  Interlock'
<1>1. /\ pc["snd"] = "b-read" /\ Browses /\ NoInput
      /\ accepted' = accepted /\ todo' = todo /\ cur' = cur /\ buf' = buf
  BY DEF ReadBlob, At, Browses, browserRest, NoInput
<1>2. /\ cur \in Files /\ sent \in Nat /\ buf' \in Nat /\ Size[cur] \in Nat /\ Lengths \subseteq Nat
      /\ \A k \in 0..Size[cur] : k \in Lengths
  BY <1>1, Grounded, SizesAreNat DEF Basis, Fit, Lengths
<1>3. Lives("snd") /\ Hears("snd", FALSE) /\ "local" \in Errors
  BY <1>1 DEF Lives, Stopped, Ended, Hears, Errors
<1>4. ASSUME NEW n \in 1..MaxRead, sent + n <= Size[cur], SendAll("snd", Pieces(n), "b-loop"),
             sent' = sent + n
      PROVE  Interlock'
  <2>1. n \in Nat \ {0} /\ sent' \in Nat
    BY <1>2, <1>4, InteropAssumption
  <2>2. \A k \in sent..(sent + n) : k \in Lengths
    BY <1>2, <1>4, <2>1
  <2>3. Pieces(n) \in Seq(Message) /\ Trail(cur, want, Lengths, sent, sent + n, Pieces(n))
    BY <1>2, <2>1, <2>2, PiecesLead
  <2>4. "b-loop" \in BrowserSender /\ GoesOn("b-read", "b-loop")
    BY DEF BrowserSender, GoesOn, InFile
  <2>5. SendAt("b-read", sent) = sent /\ SendAt("b-loop", sent') = sent'
    BY SendPoints DEF InFile
  <2>6. Trail(cur, want, Lengths, SendAt(pc["snd"], sent), SendAt("b-loop", sent'), Pieces(n))
    BY <1>1, <1>4, <2>3, <2>5
  <2>7. GoesOn(pc["snd"], "b-loop")
    BY <1>1, <2>4
  <2> QED BY <1>1, <1>2, <1>4, <2>1, <2>3, <2>4, <2>6, <2>7, SenderSendsAll
<1>5. ASSUME sent = Size[cur], SendAll("snd", <<FileEnd(cur, FileData(cur, sent))>>, "b-ack"),
             sent' = sent
      PROVE  Interlock'
  <2>1. "b-ack" \in BrowserSender /\ GoesOn(pc["snd"], "b-ack")
    BY <1>1 DEF BrowserSender, GoesOn, InFile, Acking
  <2>2. SendAt("b-read", sent) = sent /\ SendAt("b-ack", sent') = Past
    BY SendPoints DEF InFile, Acking
  <2>3. Hop(cur, want, Lengths, sent, FileEnd(cur, FileData(cur, sent)), Past)
    BY <1>2, <1>5 DEF Hop
  <2>4. FileEnd(cur, FileData(cur, sent)) \in Message
    <3>1. cur \in Int
      BY <1>2, FilesAreInts
    <3>2. FileData(cur, sent) \in Content
      BY <1>2, <1>5, FileDataTyped
    <3> QED BY <3>1, <3>2 DEF FileEnd, Message
  <2>5. sent \in Int /\ sent' \in Nat
    BY <1>2, <1>5
  <2>6. Trail(cur, want, Lengths, sent, Past, <<FileEnd(cur, FileData(cur, sent))>>)
    BY <1>2, <2>3, <2>4, <2>5, TrailOne
  <2>7. Trail(cur, want, Lengths, SendAt(pc["snd"], sent), SendAt("b-ack", sent'),
              <<FileEnd(cur, FileData(cur, sent))>>)
    BY <1>1, <2>2, <2>6
  <2>8. <<FileEnd(cur, FileData(cur, sent))>> \in Seq(Message)
    BY <2>4
  <2> QED BY <1>1, <1>2, <1>5, <2>1, <2>5, <2>7, <2>8, SenderSendsAll
<1>6. ASSUME Throw("snd", "local"), UNCHANGED <<wire, sent>>
      PROVE  Interlock'
  <2>1. sent' \in Nat /\ wire' = wire
    BY <1>2, <1>6
  <2> QED BY <1>1, <1>2, <1>3, <1>6, <2>1, SenderThrows
<1> QED BY <1>4, <1>5, <1>6 DEF ReadBlob

LEMMA BrowserSenderIsAcked ==
  ASSUME Interlock, Browser("snd"), AwaitAck
  PROVE  Interlock'
<1>1. pc["snd"] = "b-ack" /\ Browses /\ accepted' = accepted /\ cur' = cur /\ sent' = sent /\ buf' = buf
  BY DEF AwaitAck, At, Browses, browserRest
<1>2. sent' \in Nat /\ buf' \in Nat
  BY <1>1, Grounded DEF Basis
<1>3. Lives("snd") /\ pc["snd"] # "closed" /\ pc["snd"] \notin Stopped
      /\ pc["snd"] \notin Unmet \cup Replying /\ pc["snd"] \in Acking /\ "snd" \in Side
  BY <1>1 DEF Lives, Stopped, Ended, Unmet, Replying, Acking, Side
<1>4. UNCHANGED <<kind, disk, ctx, closed, chan>> /\ UNCHANGED <<meta, want, dest, dir, saved, part>>
  BY <1>1 DEF Browses, browserRest
<1>5. err["snd"] = "none" /\ {"peer-cancel", "protocol"} \subseteq Errors
  BY <1>3, OutcomeOpen DEF Errors
<1>6. ASSUME Consume("snd"), NextMsg("snd").t = "file-ack"
      PROVE  /\ Coming("snd") # <<>> /\ Head(Coming("snd")) = FileAck(cur, "ok")
             /\ NextMsg("snd").status = "ok"
  <2>1. Coming("snd") # <<>> /\ NextMsg("snd") = Head(Coming("snd"))
    BY <1>3, <1>6, Taken
  <2>2. NextMsg("snd") = FileAck(cur, "ok")
    BY <1>3, <1>6, WhatSenderHears, FarewellsSaid, Tags
  <2> QED BY <2>1, <2>2, Tags
<1>7. ASSUME Take("snd", {"file-ack"}), todo' = todo \ {cur}, Resume("snd", "b-next"), wire' = wire
      PROVE  Interlock'
  <2>1. Consume("snd") /\ NextMsg("snd").t = "file-ack"
    BY <1>7 DEF Take
  <2>2. Coming("snd") # <<>> /\ Head(Coming("snd")) = FileAck(cur, "ok")
    BY <2>1, <1>6
  <2>5. Turns("snd", "b-next", "none") /\ Says("snd", <<>>) /\ Hears("snd", TRUE)
        /\ pump' = pump /\ results' = results
    BY <2>1, <1>5, <1>7 DEF Resume, GoTo, Turns, Says, Hears
  <2>6. "b-next" \in Place("snd") /\ "b-next" \in Nexting
    BY DEF Place, BrowserSender, Nexting
  <2>7. Move("snd", TRUE, <<>>, "b-next", "none")
    BY <1>3, <1>4, <2>5, <2>6, MakesMove
  <2>8. UNCHANGED <<Receives, accepted, cur, sent, buf>>
    BY <1>1, <1>4, <2>5 DEF Receives, rcvVars
  <2> QED BY <1>3, <1>7, <2>2, <2>6, <2>7, <2>8, SenderGetsAck
<1>8. ASSUME Take("snd", {"file-ack"}), NextMsg("snd").status = "hash-mismatch"
      PROVE  Interlock'
  <2>1. Consume("snd") /\ NextMsg("snd").t = "file-ack"
    BY <1>8 DEF Take
  <2> QED BY <2>1, <1>6, <1>8
<1>9. ASSUME TakeOther("snd", {"file-ack"}), UNCHANGED todo
      PROVE  Interlock'
  <2>1. Consume("snd") /\ NextMsg("snd").t # "file-ack" /\ Hears("snd", TRUE)
        /\ Throw("snd", "protocol") /\ wire' = wire
    BY <1>9 DEF TakeOther, Hears
  <2>2. Failed("rcv")
    BY <2>1, <1>3, WhatSenderHears, Tags
  <2> QED BY <1>1, <1>2, <1>3, <1>5, <1>9, <2>1, <2>2, SenderThrows
<1>10. ASSUME closed["snd"], Throw("snd", "peer-cancel"), UNCHANGED <<wire, inbox>>, UNCHANGED todo
       PROVE  Interlock'
  <2>1. At("rcv", "closed")
    BY <1>3, <1>10, ChannelClosed DEF Peer
  <2>2. Hears("snd", FALSE)
    BY <1>1, <1>10 DEF Hears, NoInput, Browses, browserRest
  <2> QED BY <1>1, <1>2, <1>3, <1>5, <1>10, <2>1, <2>2, SenderThrows
<1> QED BY <1>7, <1>8, <1>9, <1>10 DEF AwaitAck

LEMMA BrowserSenderGoesBack ==
  ASSUME Interlock, Back("snd")
  PROVE  Interlock'
<1>1. /\ Browser("snd") /\ pc["snd"] # "closed" /\ "snd" \in Side
      /\ UNCHANGED <<wire, inbox, pending, closed, ctx, sndVars, rcvVars, kind, part>>
      /\ chan' = [chan EXCEPT !["snd"] = "closed"] /\ pc' = [pc EXCEPT !["snd"] = "closed"]
      /\ err' = [err EXCEPT !["snd"] = IF @ = "none" THEN "left" ELSE @]
      /\ pump' = [pump EXCEPT !["snd"] = "off"] /\ results' = results
  BY DEF Back, At, Side
<1>2. "closed" \in Place("snd") /\ "closed" \in Stopped \ {"failed"}
  BY <1>1 DEF Place, BrowserSender, Stopped, Ended
<1>3. UNCHANGED <<Receives, accepted, todo, cur, sent, buf>> /\ disk' = disk
  BY <1>1 DEF Receives, sndVars
<1>4. pump' = [pump EXCEPT !["snd"] = IF "closed" \in Stopped THEN "off" ELSE "on"]
  BY <1>1, <1>2
<1>5. Says("snd", <<>>) /\ Hears("snd", FALSE)
  BY <1>1 DEF Says, Hears, NoInput
<1>6. err \in [Side -> Errors \cup {"left"}] /\ sent' \in Nat /\ buf' \in Nat
  BY <1>3, Grounded DEF Basis
<1>7. CASE Lives("snd")
  <2>1. err["snd"] = "none"
    BY <1>1, <1>7, OutcomeOpen
  <2>2. Turns("snd", "closed", "left")
    BY <1>1, <1>6, <2>1 DEF Turns
  <2>3. Move("snd", FALSE, <<>>, "closed", "left")
    BY <1>1, <1>2, <1>3, <1>4, <1>5, <2>2, MakesMove
  <2>4. Justly("snd", "left") /\ "left" \in (Errors \cup {"left"}) \ {"none", "nil"}
    BY DEF Justly
  <2> QED BY <1>2, <1>3, <1>6, <1>7, <2>3, <2>4, SenderLeavesOff
<1>8. CASE ~Lives("snd")
  <2>1. err["snd"] # "none" /\ pc["snd"] \in Stopped
    BY <1>1, <1>8, OutcomeOpen DEF Lives
  <2>2. Turns("snd", "closed", err["snd"])
    BY <1>1, <1>6, <2>1 DEF Turns
  <2>3. Move("snd", FALSE, <<>>, "closed", err["snd"])
    BY <1>1, <1>2, <1>3, <1>4, <1>5, <2>2, MakesMove
  <2> QED BY <1>2, <1>3, <2>1, <2>3, SenderGoesAway
<1> QED BY <1>7, <1>8

LEMMA BrowserSenderSteps ==
  ASSUME Interlock, Browser("snd"), Start("snd") \/ BrowserSends \/ BufferedAmountLow
  PROVE  Interlock'
BY BrowserSenderStarts, BrowserSenderIsAnswered, BrowserSenderTakesNext, BrowserSenderPaces,
   BrowserSenderReads, BrowserSenderIsAcked DEF BrowserSends

-----------------------------------------------------------------------------
(* What a receiver hears, and how it leaves.                               *)

LEMMA OneIsNext ==
  ASSUME NEW W \in SUBSET Int, NEW a, NEW b, IsNext(a, W), IsNext(b, W)
  PROVE  a = b
<1>1. a \in Int /\ b \in Int /\ a <= b /\ b <= a
  BY DEF IsNext
<1> QED BY <1>1

LEMMA ReceiverPlaces ==
  ASSUME Interlock, Lives("rcv")
  PROVE  /\ pc["rcv"] \in Greeting \cup {"waitManifest", "b-manifest", "decide"} \cup Starting
                            \cup Chunking \cup Finishing
         /\ pc["rcv"] # "closed" /\ pc["rcv"] \notin Stopped /\ err["rcv"] = "none"
         /\ ~Browser("rcv") => pc["rcv"] \in Greeting \cup {"waitManifest", "decide", "waitStart",
                                                             "chunks", "waitDone"}
         /\ Browser("rcv") => pc["rcv"] \in {"init", "b-manifest", "b-start", "b-chunks", "b-done"}
<1>1. pc["rcv"] \in Place("rcv") /\ pc["rcv"] \notin Stopped
  BY Grounded DEF Placed, Lives
<1>2. err["rcv"] = "none"
  BY OutcomeOpen, Grounded
<1>3. ~Browser("rcv") => pc["rcv"] \in Greeting \cup {"waitManifest", "decide", "waitStart",
                                                       "chunks", "waitDone"}
  BY <1>1 DEF Place, JsiReceiver, Stopped
<1>4. Browser("rcv") => pc["rcv"] \in {"init", "b-manifest", "b-start", "b-chunks", "b-done"}
  BY <1>1 DEF Place, BrowserReceiver, Stopped, Ended
<1> QED BY <1>1, <1>2, <1>3, <1>4 DEF Starting, Chunking, Finishing, Greeting, Stopped, Ended

LEMMA WhatReceiverHears ==
  ASSUME Interlock, Lives("rcv"), Consume("rcv")
  PROVE  /\ Coming("rcv") # <<>> /\ NextMsg("rcv") = Head(Coming("rcv"))
         /\ \/ NextMsg("rcv") = Cancel /\ (Failed("snd") \/ At("snd", "closed"))
            \/ pc["rcv"] \in Greeting \cup {"b-manifest"} /\ NextMsg("rcv") = Hello(Version)
            \/ pc["rcv"] \in {"waitManifest", "b-manifest"} /\ NextMsg("rcv") = Manifest(Metas)
            \/ pc["rcv"] \in Starting /\ IsNext(cur, want) /\ NextMsg("rcv") = FileStart(cur)
            \/ /\ pc["rcv"] \in Chunking
               /\ \E r \in Lengths : Units < r /\ NextMsg("rcv") = Chunk(Slice(cur, Units, r - Units))
            \/ /\ pc["rcv"] \in Chunking /\ Units = Size[cur]
               /\ NextMsg("rcv") = FileEnd(cur, FileData(cur, Units))
            \/ pc["rcv"] \in Finishing /\ NextMsg("rcv") = Done
<1>1. Coming("rcv") # <<>> /\ NextMsg("rcv") = Head(Coming("rcv"))
  BY Taken, Grounded
<1>2. pc["rcv"] \in Greeting \cup {"waitManifest", "b-manifest", "decide"} \cup Starting
                      \cup Chunking \cup Finishing /\ pc["rcv"] \notin Stopped
  BY ReceiverPlaces
<1>3. /\ cur \in Files /\ Units \in Nat /\ Lengths \subseteq Nat
      /\ pc["rcv"] \in Starting \cup Chunking => want # {}
      /\ pc["rcv"] \in Finishing => want = {}
  BY Grounded DEF Fit, ReceiverHolds
<1>4. PICK p \in ReceiveAt(pc["rcv"], Units), r \in Int :
        /\ p \in Int /\ Hop(cur, want, Lengths, p, Head(Coming("rcv")), r)
        /\ Head(Coming("rcv")) = Cancel =>
             pc["snd"] \in Stopped /\ (err["snd"] \notin {"none", "nil"} \/ pc["snd"] = "closed")
  BY <1>1, <1>2, Grounded, HeardByReceiver
<1>5. CASE NextMsg("rcv") = Cancel
  BY <1>1, <1>4, <1>5 DEF Failed, At
<1>6. CASE NextMsg("rcv") # Cancel
  <2> DEFINE m == NextMsg("rcv")
  <2>1. Hop(cur, want, Lengths, p, m, r)
    BY <1>1, <1>4
  <2>2. /\ p = -4 => m = Hello(Version)
        /\ p = -3 => m = Manifest(Metas)
        /\ p # -2
        /\ p = -1 => (IsNext(cur, want) /\ m = FileStart(cur)) \/ (want = {} /\ m = Done)
        /\ p \in Nat => \/ r \in Lengths /\ p < r /\ m = Chunk(Slice(cur, p, r - p))
                        \/ p = Size[cur] /\ m = FileEnd(cur, FileData(cur, p))
    <3>1. m # Cancel /\ Lengths \subseteq Nat /\ cur \in Files /\ p \in Int /\ r \in Int
      BY <1>3, <1>4, <1>6
    <3> HIDE DEF m
    <3>3. Size[cur] \in Nat
      BY <1>3, SizesAreNat
    <3>4. \/ p = -4 /\ m = Hello(Version)
          \/ p = -3 /\ m = Manifest(Metas)
          \/ p = -1 /\ IsNext(cur, want) /\ m = FileStart(cur)
          \/ p = -1 /\ want = {} /\ m = Done
          \/ p \in Nat /\ r \in Lengths /\ p < r /\ m = Chunk(Slice(cur, p, r - p))
          \/ p = Size[cur] /\ m = FileEnd(cur, FileData(cur, p))
      BY <2>1, <3>1 DEF Hop
    <3> QED BY <3>1, <3>3, <3>4
  <2>3. CASE pc["rcv"] \in Greeting
    <3>1. ReceiveAt(pc["rcv"], Units) = {-4}
      BY <2>3, ReceivePoints
    <3>2. p = -4
      BY <3>1
    <3> QED BY <3>2, <2>2, <2>3, <1>1
  <2>4. CASE pc["rcv"] \in {"waitManifest", "b-manifest", "decide"}
    <3>1. /\ pc["rcv"] = "waitManifest" => p = -3
          /\ pc["rcv"] = "b-manifest" => p \in {-4, -3}
          /\ pc["rcv"] = "decide" => p = -2
      BY <1>4, ReceivePoints
    <3> QED BY <3>1, <2>2, <2>4, <1>1
  <2>5. CASE pc["rcv"] \in Starting
    <3>2. ReceiveAt(pc["rcv"], Units) = {-1}
      BY <2>5, ReceivePoints
    <3>1. p = -1 /\ want # {}
      BY <2>5, <1>3, <3>2
    <3> QED BY <3>1, <2>2, <2>5, <1>1
  <2>6. CASE pc["rcv"] \in Chunking
    <3>1. p = Units
      BY <2>6, <1>4, ReceivePoints
    <3> QED BY <3>1, <2>2, <2>6, <1>1, <1>3
  <2>7. CASE pc["rcv"] \in Finishing
    <3>1. p = -1 /\ want = {}
      BY <2>7, <1>3, <1>4, ReceivePoints
    <3> QED BY <3>1, <2>2, <2>7, <1>1 DEF IsNext
  <2> QED BY <1>2, <2>3, <2>4, <2>5, <2>6, <2>7
<1> QED BY <1>5, <1>6

-----------------------------------------------------------------------------
(* Steps of the receiver.                                                  *)

\* All it has stored is whole.
Stocked ==
  /\ \A id \in SavedIds : /\ id \in Files /\ saved[id] \in Paths
                          /\ dir[saved[id]] = FileData(id, Size[id])
  /\ \A id \in DOMAIN results : id \in Files /\ results[id] = FileData(id, Size[id])

LEMMA StoppedAlike ==
  ASSUME NEW l, NEW k \in Stopped, NEW e, NEW F, NEW B, NEW n, NEW u, NEW c, NEW T, NEW W,
         NEW L, NEW Z, Dialogue(l, k, e, F, B, n, u, c, T, W, L, Z), NEW X
  PROVE  Dialogue(l, k, e, F, B, n, u, c, T, X, L, Z)
BY DEF Dialogue

\* It stops, with a last word or none.
LEMMA ReceiverLeavesOff ==
  ASSUME Interlock, Lives("rcv"), NEW h \in BOOLEAN, NEW l \in Stopped,
         NEW e \in (Errors \cup {"left"}) \ {"none", "nil"},
         NEW Q, \/ Q = <<>>
                \/ \E m \in Farewells : Q = <<m>>
                \/ pc["rcv"] = "decide" /\ Q = <<Reject>>,
         Move("rcv", h, Q, l, e), Justly("rcv", e), UNCHANGED sndVars,
         want' \in SUBSET Files, dest' \in Paths \cup {NoPath},
         dir' \in [Paths -> Content \cup {NoFile}], part' \in Content,
         Stocked', Browser("rcv") \/ \A id \in SavedIds : id \in SavedIds'
  PROVE  Interlock'
<1>1. pc["rcv"] \notin Stopped /\ err["rcv"] = "none"
  BY ReceiverPlaces
<1>2. Ending("rcv", l, e)
  BY <1>1 DEF Ending
<1>3. pc'["rcv"] = l /\ err'["rcv"] = e /\ kind' = kind
  BY Grounded, MovedTo DEF Move
<1>4. Q = <<>> \/ \E m \in Message : Q = <<m>> /\ m # FileAck(cur, "ok")
  <2>1. Reject \in Message /\ Reject # FileAck(cur, "ok")
    BY Tags DEF Reject, Message
  <2> QED BY <2>1, FarewellsSaid
<1>5. Q \in Seq(Message)
  BY <1>4, Grounded, Singles
<1>6. \/ Q = <<>> \/ \E m \in Message : m \in Farewells /\ Q = <<m>>
      \/ pc["rcv"] = "decide" /\ Q = <<Reject>>
  BY FarewellsSaid
<1> DEFINE F2 == IF h THEN Tail(Coming("rcv")) ELSE Coming("rcv")
<1>7. Dialogue(pc["snd"], l, err["snd"], F2, Coming("snd") \o Q, sent, Units', cur, todo, want,
               Lengths, Farewells)
  <2> HIDE DEF F2
  <2> QED BY <1>1, <1>6, Grounded, ReceiverStops
<1>8. Dialogue(pc["snd"], l, err["snd"], F2, Coming("snd") \o Q, sent, Units', cur, todo, want',
               Lengths, Farewells)
  <2> HIDE DEF F2
  <2> QED BY <1>7, StoppedAlike
<1>9. ReceiverHolds'
  BY <1>3 DEF ReceiverHolds, At, Stopped, Ended, Starting, Chunking, Finishing
<1>10. Lost' \/ \A id : Held(id) => Held(id)'
  BY <1>3 DEF Lost, Held, Browser, Failed
<1>11. /\ \A id \in SavedIds' : /\ id \in Files /\ saved'[id] \in Paths
                                /\ dir'[saved'[id]] = FileData(id, Size[id])
       /\ \A id \in DOMAIN results' : id \in Files /\ results'[id] = FileData(id, Size[id])
  BY DEF Stocked
<1> HIDE DEF F2
<1> QED BY <1>2, <1>4, <1>5, <1>8, <1>9, <1>10, <1>11, ReceiverMoveKeeps DEF F2

\* A receiver that has stopped cancels, or just goes.
LEMMA ReceiverGoesAway ==
  ASSUME Interlock, pc["rcv"] \in Stopped, NEW l \in Stopped \ {"failed"}, NEW Q,
         Q = <<>> \/ Q = <<Cancel>>,
         Move("rcv", FALSE, Q, l, err["rcv"]), UNCHANGED <<sndVars, rcvVars, part>>,
         \/ results' = results
         \/ Browser("rcv") /\ Failed("rcv") /\ results' = NoEntries
  PROVE  Interlock'
<1>1. err["rcv"] # "none" /\ err["rcv"] \in Errors \cup {"left"}
  BY OutcomeOpen, Grounded DEF Lives, Basis
<1>2. Ending("rcv", l, err["rcv"])
  BY <1>1 DEF Ending
<1>3. pc'["rcv"] = l /\ err'["rcv"] = err["rcv"] /\ kind' = kind
  BY Grounded, MovedTo DEF Move
<1>4. Cancel \in Message /\ Cancel # FileAck(cur, "ok") /\ Cancel \in Farewells
  BY Tags, FarewellsTyped DEF Farewells
<1>5. Q \in Seq(Message) /\ (Q = <<>> \/ \E m \in Message : m \in Farewells /\ Q = <<m>>)
      /\ (Q = <<>> \/ \E m \in Message : Q = <<m>> /\ m # FileAck(cur, "ok"))
  <2>1. <<Cancel>> \in Seq(Message) /\ <<>> \in Seq(Message)
    BY FarewellsTyped, Grounded
  <2> QED BY <1>4, <2>1
<1>6. Dialogue(pc["snd"], l, err["snd"], Coming("rcv"), Coming("snd") \o Q, sent, Units', cur, todo,
               want, Lengths, Farewells)
  BY <1>5, Grounded, ReceiverGoesOnStopped
<1>7. /\ meta' = meta /\ want' = want /\ dest' = dest /\ dir' = dir /\ saved' = saved /\ part' = part
  BY DEF rcvVars
<1>8. ReceiverHolds'
  BY <1>3 DEF ReceiverHolds, At, Stopped, Ended, Starting, Chunking, Finishing
<1>9. Lost' \/ \A id : Held(id) => Held(id)'
  BY <1>3, <1>7 DEF Lost, Held, Browser, Failed, SavedIds
<1>10. /\ want' \in SUBSET Files /\ dest' \in Paths \cup {NoPath}
       /\ dir' \in [Paths -> Content \cup {NoFile}] /\ part' \in Content
  BY <1>7, Grounded DEF Basis
<1>11. /\ \A id \in SavedIds' : /\ id \in Files /\ saved'[id] \in Paths
                                /\ dir'[saved'[id]] = FileData(id, Size[id])
       /\ \A id \in DOMAIN results' : id \in Files /\ results'[id] = FileData(id, Size[id])
  <2>1. \A id \in DOMAIN results : id \in Files /\ results[id] = FileData(id, Size[id])
    BY Grounded DEF Stores
  <2>2. DOMAIN NoEntries = {}
    BY DEF NoEntries
  <2>3. \A id \in SavedIds : /\ id \in Files /\ saved[id] \in Paths
                             /\ dir[saved[id]] = FileData(id, Size[id])
    BY Grounded DEF Stores
  <2> QED BY <1>7, <2>1, <2>2, <2>3 DEF SavedIds
<1>12. FALSE \in BOOLEAN /\ UNCHANGED sndVars
  OBVIOUS
<1> QED BY <1>2, <1>5, <1>6, <1>7, <1>8, <1>9, <1>10, <1>11, <1>12, ReceiverMoveKeeps

\* It goes on, and keeps what it has.
LEMMA ReceiverGoesOn ==
  ASSUME Interlock, Lives("rcv"), NEW h \in BOOLEAN, NEW Q \in Seq(Message), NEW l, l \notin Stopped,
         Move("rcv", h, Q, l, "none"), UNCHANGED sndVars,
         want' \in SUBSET Files, dest' \in Paths \cup {NoPath},
         dir' \in [Paths -> Content \cup {NoFile}], part' \in Content,
         Dialogue(pc["snd"], l, err["snd"], IF h THEN Tail(Coming("rcv")) ELSE Coming("rcv"),
                  Coming("snd") \o Q, sent, Units', cur, todo, want', Lengths, Farewells),
         ReceiverHolds', Stocked', \A id : Held(id) => Held(id)',
         Q = <<>> \/ \E m \in Message : Q = <<m>> /\ (m = FileAck(cur, "ok") => Held(cur)')
  PROVE  Interlock'
<1>1. err["rcv"] = "none"
  BY ReceiverPlaces
<1>2. Ending("rcv", l, "none")
  BY <1>1 DEF Ending, Errors, Stopped, Ended
<1>3. /\ \A id \in SavedIds' : /\ id \in Files /\ saved'[id] \in Paths
                               /\ dir'[saved'[id]] = FileData(id, Size[id])
      /\ \A id \in DOMAIN results' : id \in Files /\ results'[id] = FileData(id, Size[id])
  BY DEF Stocked
<1> QED BY <1>2, <1>3, ReceiverMoveKeeps

\* It has stored nothing more.
LEMMA ReceiverTalksOn ==
  ASSUME Interlock, Lives("rcv"), NEW h \in BOOLEAN, NEW Q, NEW l, l \notin Stopped,
         Move("rcv", h, Q, l, "none"), UNCHANGED sndVars,
         UNCHANGED <<dest, dir, saved, part, results>>, want' \in SUBSET Files,
         Dialogue(pc["snd"], l, err["snd"], IF h THEN Tail(Coming("rcv")) ELSE Coming("rcv"),
                  Coming("snd") \o Q, sent, 0, cur, todo, want', Lengths, Farewells),
         l \notin Chunking \cup Finishing, l = "decide" => meta' = ById(Metas),
         l \in Starting => meta' = ById(Metas) /\ want' # {},
         Q = <<>> \/ \E m \in Message : Q = <<m>> /\ m.t # "file-ack"
  PROVE  Interlock'
<1>1. Q \in Seq(Message) /\ (Q = <<>> \/ \E m \in Message : Q = <<m>> /\ m # FileAck(cur, "ok"))
  <2>1. <<>> \in Seq(Message) /\ FileAck(cur, "ok").t = "file-ack"
    BY Grounded, Tags DEF FileAck
  <2>2. CASE Q = <<>>
    BY <2>1, <2>2
  <2>3. ASSUME NEW m \in Message, Q = <<m>>, m.t # "file-ack"
        PROVE  Q \in Seq(Message) /\ m # FileAck(cur, "ok")
    BY <2>1, <2>3, Singles
  <2> QED BY <2>2, <2>3
<1>2. pc'["rcv"] = l
  BY Grounded, MovedTo
<1>3. Units' = 0
  BY <1>2 DEF Units
<1>4. ReceiverHolds'
  BY <1>2 DEF ReceiverHolds, At, Chunking
<1>5. dest' = dest /\ dir' = dir /\ saved' = saved /\ part' = part /\ results' = results /\ kind' = kind
  BY DEF Move
<1>6. \A id : Held(id) => Held(id)'
  BY <1>5 DEF Held, Browser, SavedIds
<1>7. Stocked'
  BY <1>5, Grounded DEF Stocked, Stores, SavedIds
<1>8. /\ dest' \in Paths \cup {NoPath} /\ dir' \in [Paths -> Content \cup {NoFile}]
      /\ part' \in Content
  BY <1>5, Grounded DEF Basis
<1> QED BY <1>1, <1>3, <1>4, <1>6, <1>7, <1>8, ReceiverGoesOn

LEMMA ReceiverSaysHello ==
  ASSUME Interlock, pc["rcv"] \in {"init", "hello"}, NEW j, NEW Q,
         \/ j = "hello" /\ Q = <<>>
         \/ j \in {"waitHello", "b-manifest"} /\ Q = <<Hello(Version)>>,
         Move("rcv", FALSE, Q, j, "none"), UNCHANGED <<sndVars, rcvVars, part, results>>
  PROVE  Interlock'
<1>1. Lives("rcv") /\ j \notin Stopped /\ j \notin Chunking \cup Finishing /\ j # "decide"
      /\ j \notin Starting
  BY DEF Lives, Stopped, Ended, Chunking, Finishing, Starting
<1>2. Dialogue(pc["snd"], j, err["snd"], Coming("rcv"), Coming("snd") \o Q, sent, Units, cur, todo,
               want, Lengths, Farewells)
  BY Grounded, ReceiverOpens
<1>3. Units = 0
  BY DEF Units, Chunking
<1>4. Q = <<>> \/ \E m \in Message : Q = <<m>> /\ m.t # "file-ack"
  BY Tags, CommonMessages DEF Common
<1>5. want' = want /\ want \in SUBSET Files /\ FALSE \in BOOLEAN
  BY Grounded DEF rcvVars, Basis
<1>6. UNCHANGED <<dest, dir, saved, part, results>> /\ UNCHANGED sndVars
  BY DEF rcvVars
<1> QED BY <1>1, <1>2, <1>3, <1>4, <1>5, <1>6, ReceiverTalksOn

\* It hears a hello or the manifest.
LEMMA ReceiverHearsFirst ==
  ASSUME Interlock, pc["rcv"] \in {"waitHello", "waitManifest", "b-manifest"}, NEW j,
         \/ /\ NextMsg("rcv") = Hello(Version)
            /\ j \in {"waitManifest", "b-manifest"}
         \/ NextMsg("rcv") = Manifest(Metas) /\ j = "decide" /\ meta' = ById(Metas),
         Consume("rcv"), Move("rcv", TRUE, <<>>, j, "none"), UNCHANGED sndVars,
         UNCHANGED <<want, dest, dir, saved, part, results>>
  PROVE  Interlock'
<1>1. Lives("rcv") /\ j \notin Stopped /\ j \notin Chunking \cup Finishing /\ j \notin Starting
  BY DEF Lives, Stopped, Ended, Chunking, Finishing, Starting
<1>2. Coming("rcv") # <<>> /\ NextMsg("rcv") = Head(Coming("rcv"))
  BY Taken, Grounded
<1>3. /\ ReceiveAt("waitManifest", 0) = {-3} /\ ReceiveAt("b-manifest", 0) = {-4, -3}
      /\ ReceiveAt("decide", 0) = {-2}
  BY ReceivePoints
<1>4. ASSUME NEW p \in ReceiveAt(pc["rcv"], Units), NEW r \in Int,
             p \in Int /\ Hop(cur, want, Lengths, p, Head(Coming("rcv")), r)
      PROVE  r \in ReceiveAt(j, 0)
  <2>1. CASE NextMsg("rcv") = Hello(Version) /\ j \in {"waitManifest", "b-manifest"}
    <3>1. r = -3
      BY <2>1, <1>2, <1>4, Tags DEF Hop
    <3> QED BY <3>1, <2>1, <1>3
  <2>2. CASE NextMsg("rcv") = Manifest(Metas) /\ j = "decide"
    <3>1. r = -2
      BY <2>2, <1>2, <1>4, Tags DEF Hop
    <3> QED BY <3>1, <2>2, <1>3
  <2> QED BY <2>1, <2>2
<1>5. Dialogue(pc["snd"], j, err["snd"], Tail(Coming("rcv")), Coming("snd"), sent, 0, cur, todo,
               want, Lengths, Farewells)
  <2>1. 0 \in Nat /\ j \in {"waitManifest", "b-manifest", "decide"}
    OBVIOUS
  <2> QED BY <2>1, <1>2, <1>4, Grounded, ReceiverHearsOn
<1>6. want' = want /\ want \in SUBSET Files /\ TRUE \in BOOLEAN
  BY Grounded DEF Basis
<1>7. j = "decide" => meta' = ById(Metas)
  OBVIOUS
<1> QED BY <1>1, <1>5, <1>6, <1>7, Grounded, ReceiverTalksOn

\* What an accept stands for.
LEMMA Resolved ==
  ASSUME NEW ids \in SUBSET Files, ids # {}
  PROVE  /\ ResolveAccept(IF ids = Files THEN {} ELSE ids, NumFiles) = ids
         /\ Accept(IF ids = Files THEN {} ELSE ids) \in Message
<1>1. Files \subseteq Int
  BY FilesAreInts
<1> QED BY <1>1 DEF ResolveAccept, Files, Accept, Message

LEMMA ReceiverAnswers ==
  ASSUME Interlock, NEW j \in Starting, NEW h \in BOOLEAN, NEW ids \in SUBSET Files,
         \/ pc["rcv"] = "decide" /\ ~h
         \/ pc["rcv"] = "b-manifest" /\ h /\ Consume("rcv") /\ NextMsg("rcv") = Manifest(Metas),
         Accept(ids) \in Message, want' = ResolveAccept(ids, NumFiles), meta' = ById(Metas),
         Move("rcv", h, <<Accept(ids)>>, j, "none"), UNCHANGED sndVars,
         UNCHANGED <<dest, dir, saved, part, results>>
  PROVE  Interlock'
<1>1. Lives("rcv") /\ j \notin Stopped /\ j \notin Chunking \cup Finishing /\ j # "decide"
  BY DEF Lives, Stopped, Ended, Chunking, Finishing, Starting
<1>2. Dialogue(pc["snd"], j, err["snd"], IF h THEN Tail(Coming("rcv")) ELSE Coming("rcv"),
               Coming("snd") \o <<Accept(ids)>>, sent, 0, cur, todo, want', Lengths, Farewells)
  <2>1. CASE pc["rcv"] = "decide" /\ ~h
    <3>1. Dialogue(pc["snd"], "decide", err["snd"], Coming("rcv"), Coming("snd"), sent, Units, cur, todo,
                   want, Lengths, Farewells)
      BY <2>1, Grounded
    <3>2. Dialogue(pc["snd"], j, err["snd"], Coming("rcv"),
               Coming("snd") \o <<Accept(ids)>>, sent, 0, cur, todo,
               ResolveAccept(ids, NumFiles), Lengths, Farewells)
      BY <3>1, Grounded, ReceiverAccepts
    <3> QED BY <3>2, <2>1
  <2>2. CASE pc["rcv"] = "b-manifest" /\ h /\ Consume("rcv") /\ NextMsg("rcv") = Manifest(Metas)
    <3>1. Coming("rcv") # <<>> /\ Head(Coming("rcv")) = Manifest(Metas)
      BY <2>2, Taken, Grounded
    <3>2. Dialogue(pc["snd"], "b-manifest", err["snd"], Coming("rcv"), Coming("snd"), sent, Units, cur,
                   todo, want, Lengths, Farewells)
      BY <2>2, Grounded
    <3>3. Dialogue(pc["snd"], j, err["snd"], Tail(Coming("rcv")),
               Coming("snd") \o <<Accept(ids)>>, sent, 0, cur, todo,
               ResolveAccept(ids, NumFiles), Lengths, Farewells)
      BY <3>1, <3>2, Grounded, ReceiverTakesAll
    <3> QED BY <3>3, <2>2
  <2> QED BY <2>1, <2>2
<1>3. want' \in SUBSET Files /\ want' # {}
  BY FilesAreInts DEF ResolveAccept, Files
<1>4. \E m \in Message : <<Accept(ids)>> = <<m>> /\ m.t # "file-ack"
  BY Tags
<1> QED BY <1>1, <1>2, <1>3, <1>4, ReceiverTalksOn

LEMMA FileDataAny ==
  ASSUME NEW c \in Files, NEW n \in Nat
  PROVE  FileData(c, n) \in Content /\ Len(FileData(c, n)) = n
<1>1. c \in Int /\ 0 \in Nat
  BY FilesAreInts
<1> QED BY <1>1, SliceTyped DEF FileData

\* It starts a file, or goes on with it: v units are there now.
LEMMA ReceiverWrites ==
  ASSUME Interlock, pc["rcv"] \in Starting \cup Chunking, NEW j \in Chunking, NEW v \in Nat,
         Move("rcv", TRUE, <<>>, j, "none"), Coming("rcv") # <<>>,
         UNCHANGED sndVars, UNCHANGED <<meta, want, saved, results>>,
         \/ j = "b-chunks" /\ UNCHANGED <<dest, dir>> /\ part' = FileData(cur, v)
         \/ /\ j = "chunks" /\ part' = part /\ dest' \in Paths
            /\ dir' = [dir EXCEPT ![dest'] = FileData(cur, v)]
            /\ \A id \in SavedIds : saved[id] # dest',
         IsNext(cur, want),
         \A p \in ReceiveAt(pc["rcv"], Units), r \in Int :
           p \in Int /\ Hop(cur, want, Lengths, p, Head(Coming("rcv")), r) => r = v
  PROVE  Interlock'
<1>1. j \notin Stopped /\ pc'["rcv"] = j /\ kind' = kind /\ Lives("rcv")
  BY Grounded, MovedTo DEF Stopped, Ended, Chunking, Starting, Lives, Move
<1>2. cur' = cur /\ cur \in Files
  BY Grounded DEF sndVars, Basis
<1>3. FileData(cur, v) \in Content /\ Len(FileData(cur, v)) = v
  BY <1>2, FileDataAny
<1>4. j \in Place("rcv") /\ dir \in [Paths -> Content \cup {NoFile}]
      /\ dest \in Paths \cup {NoPath} /\ part \in Content
  BY Grounded DEF Move, Basis
<1>5. j = "chunks" <=> ~Browser("rcv")
  BY <1>4 DEF Place, BrowserReceiver, JsiReceiver, Greeting, Ended, Chunking
<1>6. Part' = FileData(cur, v)
  <2>1. Browser("rcv")' = Browser("rcv")
    BY <1>1 DEF Browser
  <2> QED BY <2>1, <1>4, <1>5 DEF Part
<1>7. Units' = v
  BY <1>1, <1>3, <1>6 DEF Units
<1>8. Dialogue(pc["snd"], j, err["snd"], Tail(Coming("rcv")), Coming("snd"), sent, v, cur, todo,
               want, Lengths, Farewells)
  <2>1. \A p \in ReceiveAt(pc["rcv"], Units), r \in Int :
           p \in Int /\ Hop(cur, want, Lengths, p, Head(Coming("rcv")), r) => r \in ReceiveAt(j, v)
    <3>1. ReceiveAt(j, v) = {v}
      BY ReceivePoints
    <3> QED BY <3>1
  <2> QED BY <2>1, Grounded, ReceiverHearsOn
<1>9. dest' \in Paths \cup {NoPath} /\ dir' \in [Paths -> Content \cup {NoFile}] /\ part' \in Content
  BY <1>3, <1>4
<1>10. ReceiverHolds'
  <2>1. meta = ById(Metas) /\ want # {}
    BY Grounded DEF ReceiverHolds
  <2>2. meta' = meta /\ want' = want /\ saved' = saved
    OBVIOUS
  <2>3. At("rcv", "chunks")' => dest' \in Paths /\ \A id \in SavedIds : saved[id] # dest'
    BY <1>1 DEF At
  <2>4. pc'["rcv"] \notin Finishing
    BY <1>1 DEF Chunking, Finishing
  <2>5. IsNext(cur, want)'
    BY <1>2, <2>2 DEF IsNext
  <2>6. Part' \in Content /\ Part' = FileData(cur', Len(Part'))
    BY <1>2, <1>3, <1>6
  <2> QED BY <2>1, <2>2, <2>3, <2>4, <2>5, <2>6 DEF ReceiverHolds, SavedIds
<1>11. Stocked'
  <2>1. saved' = saved /\ results' = results
    OBVIOUS
  <2>2. ASSUME NEW id \in SavedIds PROVE dir'[saved[id]] = dir[saved[id]] /\ saved[id] \in Paths
    BY <1>4, Grounded DEF Stores
  <2> QED BY <2>1, <2>2, Grounded DEF Stocked, Stores, SavedIds
<1>12. \A id : Held(id) => Held(id)'
  BY <1>1 DEF Held, Browser, SavedIds
<1>13. want' = want /\ want \in SUBSET Files /\ Coming("snd") \o <<>> = Coming("snd")
       /\ <<>> \in Seq(Message) /\ TRUE \in BOOLEAN
  BY Grounded DEF Basis
<1> QED BY <1>1, <1>7, <1>8, <1>9, <1>10, <1>11, <1>12, <1>13, ReceiverGoesOn

LEMMA ReceiverStartsFile ==
  ASSUME Interlock, pc["rcv"] \in Starting, NEW j \in Chunking,
         Consume("rcv"), NextMsg("rcv") = FileStart(cur), IsNext(cur, want),
         Move("rcv", TRUE, <<>>, j, "none"),
         UNCHANGED sndVars, UNCHANGED <<meta, want, saved, results>>,
         \/ j = "b-chunks" /\ UNCHANGED <<dest, dir>> /\ part' = <<>>
         \/ /\ j = "chunks" /\ part' = part /\ dest' \in Paths
            /\ dir' = [dir EXCEPT ![dest'] = <<>>]
            /\ \A id \in SavedIds : saved[id] # dest'
  PROVE  Interlock'
<1>1. Coming("rcv") # <<>> /\ Head(Coming("rcv")) = FileStart(cur)
  BY Taken, Grounded
<1>2. FileData(cur, 0) = <<>>
  BY DEF FileData, Slice
<1>3. ASSUME NEW p, NEW r, Hop(cur, want, Lengths, p, Head(Coming("rcv")), r)
      PROVE  r = 0
  BY <1>1, <1>3, Tags DEF Hop
<1>4. 0 \in Nat
  OBVIOUS
<1> QED BY <1>1, <1>2, <1>3, <1>4, ReceiverWrites

\* What a chunk adds.
LEMMA ReceiverGetsChunk ==
  ASSUME Interlock, NEW j \in Chunking, pc["rcv"] = j,
         Consume("rcv"), NEW v \in Lengths, Units < v,
         NextMsg("rcv") = Chunk(Slice(cur, Units, v - Units)),
         Move("rcv", TRUE, <<>>, j, "none"),
         UNCHANGED sndVars, UNCHANGED <<meta, want, saved, results, dest>>,
         \/ j = "b-chunks" /\ dir' = dir /\ part' = part \o NextMsg("rcv").data
         \/ j = "chunks" /\ part' = part /\ dir' = [dir EXCEPT ![dest] = @ \o NextMsg("rcv").data]
  PROVE  Interlock'
<1>1. Coming("rcv") # <<>> /\ Head(Coming("rcv")) = Chunk(Slice(cur, Units, v - Units))
  BY Taken, Grounded
<1>2. Units \in Nat /\ v \in Nat /\ cur \in Files /\ cur \in Int
  <2>1. Units \in Nat /\ cur \in Files
    BY Grounded DEF Fit
  <2>2. Lengths \subseteq Nat
    BY <2>1, LengthsTyped
  <2> QED BY <2>1, <2>2, FilesAreInts
<1>3. v - Units \in Nat /\ Units + (v - Units) = v
  BY <1>2
<1>4. IsNext(cur, want) /\ Part = FileData(cur, Units)
      /\ (j = "chunks" => dest \in Paths /\ \A id \in SavedIds : saved[id] # dest)
  BY Grounded DEF ReceiverHolds, Units, At
<1>5. Part \o NextMsg("rcv").data = FileData(cur, v)
  <2>1. FileData(cur, Units) \o Slice(cur, Units, v - Units) = FileData(cur, Units + (v - Units))
    BY <1>2, <1>3, FileDataGrows
  <2>2. NextMsg("rcv").data = Slice(cur, Units, v - Units)
    BY Tags
  <2> QED BY <2>1, <2>2, <1>3, <1>4
<1>6. j = "chunks" <=> ~Browser("rcv")
  <2>1. j \in Place("rcv")
    BY DEF Move
  <2> QED BY <2>1 DEF Place, BrowserReceiver, JsiReceiver, Greeting, Ended, Chunking
<1>7. \/ j = "b-chunks" /\ UNCHANGED <<dest, dir>> /\ part' = FileData(cur, v)
      \/ /\ j = "chunks" /\ part' = part /\ dest' \in Paths
         /\ dir' = [dir EXCEPT ![dest'] = FileData(cur, v)]
         /\ \A id \in SavedIds : saved[id] # dest'
  <2>1. dest' = dest
    OBVIOUS
  <2>2. CASE j = "b-chunks"
    BY <2>1, <2>2, <1>5, <1>6 DEF Part
  <2>3. CASE j = "chunks"
    <3>1. dir[dest] = Part
      BY <2>3, <1>6 DEF Part
    <3>2. dir' = [dir EXCEPT ![dest] = FileData(cur, v)]
      BY <2>3, <3>1, <1>5
    <3> QED BY <2>1, <2>3, <3>2, <1>4
  <2> QED BY <2>2, <2>3 DEF Chunking
<1>8. ASSUME NEW p \in ReceiveAt(pc["rcv"], Units), NEW r \in Int,
             p \in Int /\ Hop(cur, want, Lengths, p, Head(Coming("rcv")), r)
      PROVE  r = v
  <2>1. p = Units
    <3>1. ReceiveAt(pc["rcv"], Units) = {Units}
      BY ReceivePoints
    <3> QED BY <3>1, <1>8
  <2>2. r \in Lengths /\ p < r /\ Chunk(Slice(cur, p, r - p)) = Chunk(Slice(cur, Units, v - Units))
    BY <1>1, <1>8, Tags DEF Hop
  <2>3. r \in Nat /\ r - Units \in Nat
    BY <2>1, <2>2, <1>2, LengthsTyped
  <2>4. Slice(cur, Units, r - Units) = Slice(cur, Units, v - Units)
    BY <2>1, <2>2, Tags
  <2>5. Len(Slice(cur, Units, r - Units)) = r - Units /\ Len(Slice(cur, Units, v - Units)) = v - Units
    BY <2>3, <1>2, <1>3, SliceTyped
  <2> QED BY <2>3, <2>4, <2>5, <1>2
<1> QED BY <1>1, <1>2, <1>4, <1>7, <1>8, ReceiverWrites

\* It acknowledges a file it has stored.
LEMMA ReceiverAcknowledges ==
  ASSUME Interlock, pc["rcv"] \in Chunking, NEW j,
         \/ want # {cur} /\ j \in Starting
         \/ want = {cur} /\ j \in Finishing,
         Consume("rcv"), NextMsg("rcv").t = "file-end",
         Move("rcv", TRUE, <<FileAck(cur, "ok")>>, j, "none"),
         UNCHANGED sndVars, want' = want \ {cur}, meta' = meta,
         dest' \in Paths \cup {NoPath}, UNCHANGED <<dir, part>>, Stocked',
         \A id : Held(id) => Held(id)', Held(cur)'
  PROVE  Interlock'
<1>1. Coming("rcv") # <<>> /\ Head(Coming("rcv")).t = "file-end"
  BY Taken, Grounded
<1>2. j \notin Stopped /\ pc'["rcv"] = j /\ Lives("rcv") /\ j \notin Chunking
  BY Grounded, MovedTo DEF Stopped, Ended, Starting, Finishing, Chunking, Lives
<1>3. Units' = 0
  BY <1>2 DEF Units
<1>4. Dialogue(pc["snd"], j, err["snd"], Tail(Coming("rcv")), Coming("snd") \o <<FileAck(cur, "ok")>>,
               sent, 0, cur, todo, want \ {cur}, Lengths, Farewells)
  BY <1>1, Grounded, ReceiverConfirms
<1>5. FileAck(cur, "ok") \in Message
  <2>1. cur \in Int
    <3>1. cur \in Files
      BY Grounded DEF Fit
    <3> QED BY <3>1, FilesAreInts
  <2> QED BY <2>1 DEF FileAck, Message
<1>6. ReceiverHolds'
  <2>1. meta = ById(Metas) /\ IsNext(cur, want)
    BY Grounded DEF ReceiverHolds
  <2>2. want' # {} <=> want # {cur}
    BY <2>1 DEF IsNext
  <2>3. j \in Starting => j \notin Finishing
    BY DEF Starting, Finishing
  <2>4. ~At("rcv", "chunks")'
    BY <1>2 DEF At, Chunking
  <2>5. meta' = meta
    OBVIOUS
  <2> QED BY <1>2, <2>1, <2>2, <2>3, <2>4, <2>5 DEF ReceiverHolds
<1>7. /\ want' \in SUBSET Files /\ dest' \in Paths \cup {NoPath}
      /\ dir' \in [Paths -> Content \cup {NoFile}] /\ part' \in Content
  BY Grounded DEF Basis
<1>8. <<FileAck(cur, "ok")>> \in Seq(Message) /\ TRUE \in BOOLEAN
  BY <1>5, Singles
<1> QED BY <1>2, <1>3, <1>4, <1>5, <1>6, <1>7, <1>8, ReceiverGoesOn

\* Done is the end of a transfer that its sender ended before.
LEMMA ReceiverHasFinished ==
  ASSUME Interlock, pc["rcv"] \in Finishing, NEW l \in Stopped \ {"failed"},
         Consume("rcv"), NextMsg("rcv") = Done, Move("rcv", TRUE, <<>>, l, "nil"),
         UNCHANGED <<sndVars, rcvVars, part, results>>
  PROVE  Interlock'
<1>1. Coming("rcv") # <<>> /\ Head(Coming("rcv")) = Done
  BY Taken, Grounded
<1>2. pc["rcv"] \notin Stopped /\ err["rcv"] = "none"
  <2>1. Lives("rcv")
    BY DEF Finishing, Lives, Stopped, Ended
  <2> QED BY <2>1, ReceiverPlaces
<1>3. err["snd"] = "nil"
  BY <1>1, <1>2, Grounded, DoneIsTrue
<1>4. Ending("rcv", l, "nil")
  BY <1>2, <1>3 DEF Ending, Justly, Errors
<1>5. pc'["rcv"] = l /\ err'["rcv"] = "nil" /\ kind' = kind
  BY Grounded, MovedTo DEF Move
<1>6. Units' \in Nat /\ Units' = 0 /\ ReceiverHolds'
  <2>1. l \notin {"decide"} \cup Starting \cup Chunking \cup Finishing /\ l # "chunks"
    BY DEF Stopped, Ended, Starting, Chunking, Finishing
  <2> QED BY <1>5, <2>1 DEF Units, ReceiverHolds, At
<1>7. Dialogue(pc["snd"], l, err["snd"], Tail(Coming("rcv")), Coming("snd") \o <<>>, sent, Units', cur,
               todo, want, Lengths, Farewells)
  BY <1>2, Grounded, ReceiverStops
<1>8. /\ want' = want /\ dest' = dest /\ dir' = dir /\ part' = part /\ saved' = saved
      /\ results' = results
  BY DEF rcvVars
<1>9. /\ want' \in SUBSET Files /\ dest' \in Paths \cup {NoPath}
      /\ dir' \in [Paths -> Content \cup {NoFile}] /\ part' \in Content
  BY <1>8, Grounded DEF Basis
<1>10. \A id : Held(id) => Held(id)'
  BY <1>5, <1>8 DEF Held, Browser, SavedIds
<1>11. /\ \A id \in SavedIds' : /\ id \in Files /\ saved'[id] \in Paths
                                /\ dir'[saved'[id]] = FileData(id, Size[id])
       /\ \A id \in DOMAIN results' : id \in Files /\ results'[id] = FileData(id, Size[id])
  BY <1>8, Grounded DEF Stores, SavedIds
<1>12. <<>> \in Seq(Message) /\ TRUE \in BOOLEAN
  BY Grounded
<1> QED BY <1>4, <1>6, <1>7, <1>8, <1>9, <1>10, <1>11, <1>12, ReceiverMoveKeeps

-----------------------------------------------------------------------------
(* A jsi program that receives.                                            *)

JsiReceives == UNCHANGED <<sndVars, kind, part, results>>

\* What it has saved stays, whatever it removes.
Tidies == /\ UNCHANGED <<want, saved>>
          /\ UNCHANGED <<dest, dir>> \/ (At("rcv", "chunks") /\ RemovePartial)

LEMMA TidiesWell ==
  ASSUME Interlock, Tidies, part' = part, results' = results
  PROVE  /\ want' \in SUBSET Files /\ dest' \in Paths \cup {NoPath}
         /\ dir' \in [Paths -> Content \cup {NoFile}] /\ part' \in Content
         /\ Stocked' /\ \A id \in SavedIds : id \in SavedIds'
<1>1. want' = want /\ saved' = saved
  BY DEF Tidies
<1>2. /\ want \in SUBSET Files /\ dest \in Paths \cup {NoPath}
      /\ dir \in [Paths -> Content \cup {NoFile}] /\ part \in Content
  BY Grounded DEF Basis
<1>3. Stocked
  BY Grounded DEF Stores, Stocked
<1>4. CASE UNCHANGED <<dest, dir>>
  BY <1>1, <1>2, <1>3, <1>4 DEF Stocked, SavedIds
<1>5. CASE At("rcv", "chunks") /\ RemovePartial
  <2>1. dest \in Paths /\ dest # NoPath /\ \A id \in SavedIds : saved[id] # dest
    BY <1>5, Grounded, ReceiverAssumption DEF ReceiverHolds
  <2>2. dest' = NoPath /\ dir' = [dir EXCEPT ![dest] = NoFile]
    BY <1>5, <2>1 DEF RemovePartial
  <2>3. \A id \in SavedIds : dir'[saved[id]] = dir[saved[id]]
    BY <2>1, <2>2, <1>2, <1>3 DEF Stocked
  <2>4. Stocked'
    BY <1>1, <1>3, <2>3 DEF Stocked, SavedIds
  <2> QED BY <1>1, <1>2, <2>2, <2>4 DEF SavedIds
<1> QED BY <1>4, <1>5 DEF Tidies

LEMMA ReceiverFails ==
  ASSUME Interlock, ~Browser("rcv"), Lives("rcv"), NEW h \in BOOLEAN,
         NEW e \in Errors \ {"none", "nil", "version", "hash-mismatch"},
         FailWith("rcv", e), Hears("rcv", h), UNCHANGED linkVars,
         NEW Q, \/ Q = <<>>
                \/ \E m \in Farewells : Q = <<m>>
                \/ pc["rcv"] = "decide" /\ Q = <<Reject>>,
         Says("rcv", Q), e \in {"protocol", "peer-error"} => Changed, JsiReceives,
         want' \in SUBSET Files, dest' \in Paths \cup {NoPath},
         dir' \in [Paths -> Content \cup {NoFile}],
         Stocked', \A id \in SavedIds : id \in SavedIds'
  PROVE  Interlock'
<1>1. "failed" \in Place("rcv") /\ "failed" \in Stopped
  BY DEF Place, JsiReceiver, Stopped, Ended
<1>2. pc["rcv"] \notin Stopped /\ pc["rcv"] # "closed" /\ "rcv" \in Side
  BY DEF Lives, Stopped, Ended, Side
<1>3. Turns("rcv", "failed", e)
  BY DEF FailWith, Turns
<1>4. UNCHANGED <<kind, disk, ctx, closed, pump, chan>>
  BY DEF linkVars, JsiReceives, sndVars
<1>5. Move("rcv", h, Q, "failed", e)
  BY <1>1, <1>2, <1>3, <1>4, MakesMove
<1>6. Justly("rcv", e)
  BY DEF Justly
<1>7. UNCHANGED sndVars /\ part' \in Content
  BY Grounded DEF JsiReceives, Basis
<1>8. e \in (Errors \cup {"left"}) \ {"none", "nil"}
  OBVIOUS
<1> QED BY <1>1, <1>5, <1>6, <1>7, <1>8, ReceiverLeavesOff

LEMMA ReceiverFailsTidily ==
  ASSUME Interlock, ~Browser("rcv"), Lives("rcv"), NEW h \in BOOLEAN,
         NEW e \in Errors \ {"none", "nil", "version", "hash-mismatch"},
         FailWith("rcv", e), Hears("rcv", h), UNCHANGED <<wire, linkVars>>,
         e \in {"protocol", "peer-error"} => Changed, JsiReceives, Tidies
  PROVE  Interlock'
<1>1. Says("rcv", <<>>)
  BY DEF Says
<1>2. part' = part /\ results' = results
  BY DEF JsiReceives
<1>3. /\ want' \in SUBSET Files /\ dest' \in Paths \cup {NoPath}
      /\ dir' \in [Paths -> Content \cup {NoFile}]
      /\ Stocked' /\ \A id \in SavedIds : id \in SavedIds'
  BY <1>2, TidiesWell
<1> QED BY <1>1, <1>3, ReceiverFails

LEMMA ReceiverWaitFails ==
  ASSUME Interlock, ~Browser("rcv"), Lives("rcv"), WaitFails("rcv"), UNCHANGED linkVars,
         JsiReceives, Tidies
  PROVE  Interlock'
<1>1. Hears("rcv", FALSE) /\ wire' = wire
  BY DEF WaitFails, Hears
<1>2. FailWith("rcv", "ctx") \/ FailWith("rcv", "peer-closed")
  BY DEF WaitFails
<1>3. FALSE \in BOOLEAN /\ {"ctx", "peer-closed"} \subseteq Errors
  BY DEF Errors
<1> QED BY <1>1, <1>2, <1>3, ReceiverFailsTidily

LEMMA ReceiverTakesTerminal ==
  ASSUME Interlock, ~Browser("rcv"), Lives("rcv"), TakeTerminal("rcv"), UNCHANGED linkVars,
         JsiReceives, Tidies
  PROVE  Interlock'
<1>1. Consume("rcv") /\ NextMsg("rcv").t \in {"cancel", "error"} /\ wire' = wire
  BY DEF TakeTerminal, Take
<1>2. NextMsg("rcv").t = "cancel"
  BY <1>1, WhatReceiverHears, Tags
<1>3. FailWith("rcv", "peer-cancel") /\ Hears("rcv", TRUE)
  BY <1>1, <1>2 DEF TakeTerminal, Hears
<1>4. TRUE \in BOOLEAN /\ "peer-cancel" \in Errors
  BY DEF Errors
<1> QED BY <1>1, <1>3, <1>4, ReceiverFailsTidily

\* What it waits for is all it hears besides.
LEMMA ReceiverWaitsOn ==
  ASSUME Interlock, ~Browser("rcv"), Lives("rcv"), NEW expected, WaitOther("rcv", expected),
         pc["rcv"] \in Greeting => "hello" \in expected,
         pc["rcv"] = "waitManifest" => "manifest" \in expected,
         pc["rcv"] = "waitStart" => "file-start" \in expected,
         pc["rcv"] = "chunks" => {"chunk", "file-end"} \subseteq expected,
         pc["rcv"] = "waitDone" => "done" \in expected,
         UNCHANGED linkVars, JsiReceives, Tidies
  PROVE  Interlock'
<1>1. /\ pc["rcv"] # "b-manifest" /\ (pc["rcv"] \in Starting => pc["rcv"] = "waitStart")
      /\ (pc["rcv"] \in Chunking => pc["rcv"] = "chunks")
      /\ (pc["rcv"] \in Finishing => pc["rcv"] = "waitDone")
  BY ReceiverPlaces DEF Greeting, Starting, Chunking, Finishing
<1>2. ASSUME Consume("rcv") PROVE NextMsg("rcv").t \in expected \cup {"cancel"}
  BY <1>1, <1>2, WhatReceiverHears, Tags
<1>3. ASSUME Consume("rcv") PROVE NextMsg("rcv").t # "unknown"
  BY <1>3, WhatReceiverHears, Tags
<1>4. ~TakeUnknown("rcv") /\ ~TakeUnexpected("rcv", expected)
  BY <1>2, <1>3 DEF TakeUnknown, TakeUnexpected, Take
<1>5. WaitFails("rcv") \/ TakeTerminal("rcv")
  BY <1>4 DEF WaitOther
<1> QED BY <1>5, ReceiverWaitFails, ReceiverTakesTerminal

LEMMA JsiReceiverMoves ==
  ASSUME Interlock, ~Browser("rcv"), Lives("rcv"), NEW h \in BOOLEAN, NEW Q, NEW l \in JsiReceiver,
         l \notin Stopped, GoTo("rcv", l), Hears("rcv", h), Says("rcv", Q),
         UNCHANGED <<chan, closed, ctx>>,
         pump' = pump \/ pump' = [pump EXCEPT !["rcv"] = "on"], JsiReceives
  PROVE  Move("rcv", h, Q, l, "none")
<1>1. l \in Place("rcv")
  BY DEF Place
<1>2. pc["rcv"] \notin Stopped /\ pc["rcv"] # "closed" /\ err["rcv"] = "none" /\ "rcv" \in Side
  BY ReceiverPlaces, Grounded
<1>3. Turns("rcv", l, "none")
  BY <1>2 DEF GoTo, Turns
<1>4. UNCHANGED <<kind, disk, ctx, closed>> /\ chan' = chan
  BY DEF JsiReceives, sndVars
<1>5. pump' = pump \/ pump' = [pump EXCEPT !["rcv"] = IF l \in Stopped THEN "off" ELSE "on"]
  OBVIOUS
<1> QED BY <1>1, <1>2, <1>3, <1>4, <1>5, MakesMove

LEMMA JsiReceiverBegins ==
  ASSUME Interlock, ~Browser("rcv"), NewSession("rcv"), UNCHANGED rcvVars, JsiReceives
  PROVE  Interlock'
<1>1. pc["rcv"] = "init" /\ GoTo("rcv", "hello") /\ Hears("rcv", FALSE) /\ Says("rcv", <<>>)
      /\ UNCHANGED <<chan, closed, ctx>> /\ pump' = [pump EXCEPT !["rcv"] = "on"]
  BY DEF NewSession, At, Hears, Says
<1>2. "hello" \in JsiReceiver /\ "hello" \notin Stopped /\ Lives("rcv") /\ FALSE \in BOOLEAN
  BY <1>1 DEF JsiReceiver, Greeting, Stopped, Ended, Lives
<1>3. Move("rcv", FALSE, <<>>, "hello", "none")
  BY <1>1, <1>2, JsiReceiverMoves
<1>4. UNCHANGED <<sndVars, rcvVars, part, results>>
  BY DEF JsiReceives
<1> QED BY <1>1, <1>3, <1>4, ReceiverSaysHello

LEMMA JsiReceiverGreets ==
  ASSUME Interlock, ~Browser("rcv"), SendHello("rcv"), UNCHANGED rcvVars, JsiReceives
  PROVE  Interlock'
<1>1. pc["rcv"] = "hello" /\ Control("rcv", Hello(Version), "waitHello") /\ Hears("rcv", FALSE)
      /\ UNCHANGED linkVars
  BY DEF SendHello, At, Hears
<1>2. Lives("rcv") /\ FALSE \in BOOLEAN /\ Hello(Version) \in Message
  BY <1>1, CommonMessages DEF Lives, Stopped, Ended, Common
<1>3. CASE CanSend("rcv")
  <2>1. GoTo("rcv", "waitHello") /\ Says("rcv", <<Hello(Version)>>)
    BY <1>1, <1>2, <1>3 DEF Control, Says
  <2>2. "waitHello" \in JsiReceiver /\ "waitHello" \notin Stopped
    BY DEF JsiReceiver, Greeting, Stopped, Ended
  <2>3. Move("rcv", FALSE, <<Hello(Version)>>, "waitHello", "none")
    BY <1>1, <1>2, <2>1, <2>2, JsiReceiverMoves DEF linkVars
  <2>4. UNCHANGED <<sndVars, rcvVars, part, results>>
    BY DEF JsiReceives
  <2> QED BY <1>1, <2>3, <2>4, ReceiverSaysHello
<1>4. CASE ~CanSend("rcv")
  <2>1. FailWith("rcv", "send") /\ wire' = wire /\ "send" \in Errors /\ Tidies
    BY <1>1, <1>4 DEF Control, Errors, Tidies, rcvVars
  <2> QED BY <1>1, <1>2, <2>1, ReceiverFailsTidily
<1> QED BY <1>3, <1>4

LEMMA JsiReceiverIsGreeted ==
  ASSUME Interlock, ~Browser("rcv"), WaitHello("rcv"), UNCHANGED rcvVars, JsiReceives
  PROVE  Interlock'
<1>1. pc["rcv"] = "waitHello" /\ UNCHANGED linkVars
  BY DEF WaitHello, At
<1>2. Lives("rcv") /\ TRUE \in BOOLEAN /\ Tidies
      /\ pc["rcv"] \notin {"waitManifest", "b-manifest"} \cup Starting \cup Chunking \cup Finishing
  BY <1>1 DEF Lives, Stopped, Ended, Tidies, rcvVars, Starting, Chunking, Finishing
<1>3. CASE WaitFails("rcv")
  BY <1>1, <1>2, <1>3, ReceiverWaitFails
<1>4. CASE TakeTerminal("rcv")
  BY <1>1, <1>2, <1>4, ReceiverTakesTerminal
<1>5. ASSUME Consume("rcv")
      PROVE  NextMsg("rcv") = Hello(Version) \/ NextMsg("rcv") = Cancel
  BY <1>2, <1>5, WhatReceiverHears
<1>6. ~TakeNotHello("rcv")
  BY <1>5, Tags DEF TakeNotHello
<1>7. CASE TakeHello("rcv")
  <2>1. Consume("rcv") /\ NextMsg("rcv") = Hello(Version) /\ Hears("rcv", TRUE)
    BY <1>5, <1>7, Tags DEF TakeHello, Take, Hears
  <2>2. GoTo("rcv", "waitManifest") /\ Says("rcv", <<>>)
    BY <1>7, <2>1, Tags DEF TakeHello, AfterHello, Says
  <2>3. "waitManifest" \in JsiReceiver /\ "waitManifest" \notin Stopped
    BY DEF JsiReceiver, Stopped, Ended
  <2>4. Move("rcv", TRUE, <<>>, "waitManifest", "none")
    BY <1>1, <1>2, <2>1, <2>2, <2>3, JsiReceiverMoves DEF linkVars
  <2>5. UNCHANGED sndVars /\ UNCHANGED <<want, dest, dir, saved, part, results>>
    BY DEF JsiReceives, rcvVars
  <2> QED BY <1>1, <2>1, <2>4, <2>5, ReceiverHearsFirst
<1> QED BY <1>3, <1>4, <1>6, <1>7 DEF WaitHello

LEMMA JsiReceiverAborts ==
  ASSUME Interlock, ~Browser("rcv"), Abort("rcv"), UNCHANGED rcvVars, JsiReceives
  PROVE  Interlock'
<1>1. pc["rcv"] = "failed" /\ NoInput /\ UNCHANGED <<chan, closed, ctx>>
      /\ GoTo("rcv", "returned") /\ pump' = [pump EXCEPT !["rcv"] = "off"]
  BY DEF Abort, At
<1>2. pc["rcv"] # "closed" /\ pc["rcv"] \in Stopped /\ "returned" \in Stopped \ {"failed"}
      /\ "returned" \in Place("rcv")
  BY <1>1 DEF Stopped, Ended, Place, JsiReceiver
<1>3. Turns("rcv", "returned", err["rcv"]) /\ Hears("rcv", FALSE)
  BY <1>1 DEF Turns, GoTo, Hears
<1>4. UNCHANGED <<kind, disk, ctx, closed, chan>> /\ UNCHANGED <<sndVars, rcvVars, part>>
      /\ results' = results
  BY <1>1 DEF JsiReceives, sndVars
<1>5. pump' = [pump EXCEPT !["rcv"] = IF "returned" \in Stopped THEN "off" ELSE "on"]
  BY <1>1, <1>2
<1>6. CASE Post("rcv", Cancel)
  <2>1. Says("rcv", <<Cancel>>)
    BY <1>6, FarewellsTyped DEF Says
  <2>2. Move("rcv", FALSE, <<Cancel>>, "returned", err["rcv"])
    BY <1>2, <1>3, <1>4, <1>5, <2>1, MakesMove, Grounded
  <2> QED BY <1>2, <1>4, <2>2, ReceiverGoesAway
<1>7. CASE wire' = wire
  <2>1. Says("rcv", <<>>)
    BY <1>7 DEF Says
  <2>2. Move("rcv", FALSE, <<>>, "returned", err["rcv"])
    BY <1>2, <1>3, <1>4, <1>5, <2>1, MakesMove, Grounded
  <2> QED BY <1>2, <1>4, <2>2, ReceiverGoesAway
<1> QED BY <1>6, <1>7 DEF Abort

LEMMA JsiReceiverCloses ==
  ASSUME Interlock, ~Browser("rcv"), CloseConn("rcv"), UNCHANGED rcvVars, JsiReceives
  PROVE  Interlock'
<1>1. pc["rcv"] = "returned" /\ NoInput /\ UNCHANGED <<wire, closed, ctx, pump>>
      /\ GoTo("rcv", "closed") /\ chan' = [chan EXCEPT !["rcv"] = "closed"]
  BY DEF CloseConn, At
<1>2. pc["rcv"] # "closed" /\ pc["rcv"] \in Stopped /\ "closed" \in Stopped \ {"failed"}
      /\ "closed" \in Place("rcv")
  BY <1>1 DEF Stopped, Ended, Place, JsiReceiver
<1>3. Turns("rcv", "closed", err["rcv"]) /\ Hears("rcv", FALSE) /\ Says("rcv", <<>>)
  BY <1>1 DEF Turns, GoTo, Hears, Says
<1>4. UNCHANGED <<kind, disk, ctx, closed, pump>> /\ UNCHANGED <<sndVars, rcvVars, part>>
      /\ results' = results
  BY <1>1 DEF JsiReceives, sndVars
<1>5. Move("rcv", FALSE, <<>>, "closed", err["rcv"])
  BY <1>1, <1>2, <1>3, <1>4, MakesMove, Grounded
<1> QED BY <1>2, <1>4, <1>5, ReceiverGoesAway

LEMMA JsiReceiverHasNowhere ==
  ASSUME Interlock, ~Browser("rcv"), NoDestination, JsiReceives
  PROVE  Interlock'
<1>1. pc["rcv"] = "init" /\ UNCHANGED <<linkVars, wire>> /\ UNCHANGED rcvVars
      /\ Turns("rcv", "returned", "local") /\ Hears("rcv", FALSE) /\ Says("rcv", <<>>)
  BY DEF NoDestination, At, Turns, Hears, Says
<1>2. pc["rcv"] \notin Stopped /\ pc["rcv"] # "closed" /\ Lives("rcv")
      /\ "returned" \in Place("rcv") /\ "returned" \in Stopped
  BY <1>1 DEF Stopped, Ended, Lives, Place, JsiReceiver
<1>3. UNCHANGED <<kind, disk, ctx, closed, pump, chan>>
  BY <1>1 DEF linkVars, JsiReceives, sndVars
<1>4. Move("rcv", FALSE, <<>>, "returned", "local")
  BY <1>1, <1>2, <1>3, MakesMove, Grounded
<1>5. Justly("rcv", "local") /\ "local" \in (Errors \cup {"left"}) \ {"none", "nil"}
  BY DEF Justly, Errors
<1>6. Tidies /\ part' = part /\ results' = results /\ UNCHANGED sndVars
  BY <1>1 DEF Tidies, rcvVars, JsiReceives
<1>7. /\ want' \in SUBSET Files /\ dest' \in Paths \cup {NoPath}
      /\ dir' \in [Paths -> Content \cup {NoFile}] /\ part' \in Content
      /\ Stocked' /\ \A id \in SavedIds : id \in SavedIds'
  BY <1>6, TidiesWell
<1> QED BY <1>2, <1>4, <1>5, <1>6, <1>7, ReceiverLeavesOff

LEMMA JsiReceiverIsTold ==
  ASSUME Interlock, ~Browser("rcv"), WaitManifest, JsiReceives
  PROVE  Interlock'
<1>1. pc["rcv"] = "waitManifest" /\ UNCHANGED linkVars /\ UNCHANGED <<want, dest, dir, saved>>
  BY DEF WaitManifest, At, KeepFiles
<1>2. Lives("rcv") /\ TRUE \in BOOLEAN /\ Tidies
      /\ pc["rcv"] \notin Greeting \cup Starting \cup Chunking \cup Finishing
  BY <1>1 DEF Lives, Stopped, Ended, Tidies, Greeting, Starting, Chunking, Finishing
<1>3. CASE WaitOther("rcv", {"manifest"})
  <2>1. pc["rcv"] \notin {"waitStart", "chunks", "waitDone"}
    BY <1>1
  <2> QED BY <1>1, <1>2, <1>3, <2>1, ReceiverWaitsOn
<1>4. CASE TakeManifest
  <2>1. Consume("rcv") /\ NextMsg("rcv").t = "manifest" /\ Hears("rcv", TRUE)
    BY <1>4 DEF TakeManifest, Take, Hears
  <2>2. NextMsg("rcv") = Manifest(Metas)
    BY <2>1, <1>1, <1>2, WhatReceiverHears, Tags
  <2>3. GoTo("rcv", "decide") /\ Says("rcv", <<>>) /\ meta' = ById(Metas)
    BY <1>4, <2>2, ManifestValid, Tags DEF TakeManifest, Says
  <2>4. "decide" \in JsiReceiver /\ "decide" \notin Stopped
    BY DEF JsiReceiver, Stopped, Ended
  <2>5. Move("rcv", TRUE, <<>>, "decide", "none")
    BY <1>1, <1>2, <2>1, <2>3, <2>4, JsiReceiverMoves DEF linkVars
  <2>6. UNCHANGED sndVars /\ UNCHANGED <<want, dest, dir, saved, part, results>>
    BY <1>1 DEF JsiReceives
  <2> QED BY <1>1, <2>1, <2>2, <2>3, <2>5, <2>6, ReceiverHearsFirst
<1> QED BY <1>3, <1>4 DEF WaitManifest

LEMMA JsiReceiverRefuses ==
  ASSUME Interlock, ~Browser("rcv"), At("rcv", "decide"), NEW e \in {"decide", "declined"},
         LastWord("rcv", Reject, e), UNCHANGED linkVars, NoInput,
         UNCHANGED rcvVars, JsiReceives
  PROVE  Interlock'
<1>1. pc["rcv"] = "decide" /\ Lives("rcv") /\ FALSE \in BOOLEAN /\ Hears("rcv", FALSE)
  BY DEF At, Lives, Stopped, Ended, Hears
<1>2. e \in Errors \ {"none", "nil", "version", "hash-mismatch"} /\ e \notin {"protocol", "peer-error"}
  BY DEF Errors
<1>3. FailWith("rcv", e) /\ Tidies /\ part' = part /\ results' = results
  BY DEF LastWord, Tidies, rcvVars, JsiReceives
<1>4. /\ want' \in SUBSET Files /\ dest' \in Paths \cup {NoPath}
      /\ dir' \in [Paths -> Content \cup {NoFile}]
      /\ Stocked' /\ \A id \in SavedIds : id \in SavedIds'
  BY <1>3, TidiesWell
<1>5. CASE CanSend("rcv")
  <2>1. Reject \in Message
    BY DEF Reject, Message
  <2>2. Says("rcv", <<Reject>>)
    BY <1>5, <2>1 DEF LastWord, Says
  <2> QED BY <1>1, <1>2, <1>3, <1>4, <2>2, ReceiverFails
<1>6. CASE ~CanSend("rcv")
  <2>1. wire' = wire
    BY <1>6 DEF LastWord
  <2> QED BY <1>1, <1>2, <1>3, <2>1, ReceiverFailsTidily
<1> QED BY <1>5, <1>6

LEMMA JsiReceiverDecides ==
  ASSUME Interlock, ~Browser("rcv"), Decide, JsiReceives
  PROVE  Interlock'
<1>1. At("rcv", "decide") /\ pc["rcv"] = "decide" /\ UNCHANGED linkVars /\ NoInput
      /\ UNCHANGED <<meta, dest, dir, saved>> /\ Hears("rcv", FALSE)
  BY DEF Decide, At, KeepFiles, Hears
<1>2. Lives("rcv") /\ FALSE \in BOOLEAN
  BY <1>1 DEF Lives, Stopped, Ended
<1>3. CASE want' = want /\ (LastWord("rcv", Reject, "decide") \/ LastWord("rcv", Reject, "declined"))
  BY <1>1, <1>3, JsiReceiverRefuses DEF rcvVars
<1>4. ASSUME NEW ids \in SUBSET DOMAIN meta, ids # {},
             Control("rcv", Accept(IF ids = DOMAIN meta THEN {} ELSE ids), "waitStart"),
             want' = IF CanSend("rcv") THEN ids ELSE want
      PROVE  Interlock'
  <2> DEFINE named == IF ids = Files THEN {} ELSE ids
  <2>1. meta = ById(Metas) /\ DOMAIN meta = Files
    BY <1>1, Grounded, MetasById DEF ReceiverHolds
  <2>2. ids \in SUBSET Files /\ named \in SUBSET Files /\ Control("rcv", Accept(named), "waitStart")
    BY <1>4, <2>1
  <2>3. ResolveAccept(named, NumFiles) = ids /\ Accept(named) \in Message
    BY <1>4, <2>2, Resolved
  <2> HIDE DEF named
  <2>4. CASE CanSend("rcv")
    <3>1. GoTo("rcv", "waitStart") /\ Says("rcv", <<Accept(named)>>) /\ want' = ids
      BY <2>4, <2>2, <2>3, <1>4 DEF Control, Says
    <3>2. "waitStart" \in JsiReceiver /\ "waitStart" \notin Stopped /\ "waitStart" \in Starting
      BY DEF JsiReceiver, Stopped, Ended, Starting
    <3>3. Move("rcv", FALSE, <<Accept(named)>>, "waitStart", "none")
      BY <1>1, <1>2, <3>1, <3>2, JsiReceiverMoves DEF linkVars
    <3>4. UNCHANGED sndVars /\ UNCHANGED <<dest, dir, saved, part, results>> /\ meta' = ById(Metas)
      BY <1>1, <2>1 DEF JsiReceives
    <3> QED BY <1>1, <1>2, <2>2, <2>3, <3>1, <3>2, <3>3, <3>4, ReceiverAnswers
  <2>5. CASE ~CanSend("rcv")
    <3>1. FailWith("rcv", "send") /\ wire' = wire /\ "send" \in Errors /\ Tidies
      BY <1>1, <1>4, <2>2, <2>5 DEF Control, Errors, Tidies
    <3> QED BY <1>1, <1>2, <3>1, ReceiverFailsTidily
  <2> QED BY <2>4, <2>5
<1> QED BY <1>3, <1>4 DEF Decide

LEMMA JsiReceiverIsDone ==
  ASSUME Interlock, ~Browser("rcv"), WaitDone, JsiReceives
  PROVE  Interlock'
<1>1. pc["rcv"] = "waitDone" /\ UNCHANGED rcvVars /\ UNCHANGED <<chan, closed, ctx>>
  BY DEF WaitDone, At
<1>2. Lives("rcv") /\ TRUE \in BOOLEAN /\ Tidies /\ pc["rcv"] \in Finishing /\ pc["rcv"] \notin Stopped
      /\ pc["rcv"] \notin Greeting \cup Starting \cup Chunking /\ pc["rcv"] # "closed"
  BY <1>1 DEF Lives, Stopped, Ended, Tidies, rcvVars, Greeting, Starting, Chunking, Finishing
<1>3. CASE WaitOther("rcv", {"done"}) /\ UNCHANGED pump
  <2>1. UNCHANGED linkVars /\ pc["rcv"] \notin {"waitManifest", "waitStart", "chunks"}
    BY <1>1, <1>3 DEF linkVars
  <2> QED BY <1>2, <1>3, <2>1, ReceiverWaitsOn
<1>4. CASE Take("rcv", {"done"}) /\ Succeed("rcv") /\ UNCHANGED wire
  <2>1. Consume("rcv") /\ Hears("rcv", TRUE) /\ Says("rcv", <<>>) /\ NextMsg("rcv").t = "done"
    BY <1>4 DEF Take, Hears, Says
  <2>2. NextMsg("rcv") = Done
    BY <2>1, <1>1, <1>2, WhatReceiverHears, Tags
  <2>3. Turns("rcv", "returned", "nil") /\ "returned" \in Place("rcv")
        /\ "returned" \in Stopped \ {"failed"}
    BY <1>4 DEF Succeed, Turns, Place, JsiReceiver, Stopped, Ended
  <2>4. pump' = [pump EXCEPT !["rcv"] = IF "returned" \in Stopped THEN "off" ELSE "on"]
    BY <1>4, <2>3 DEF Succeed
  <2>5. UNCHANGED <<kind, disk, ctx, closed, chan>> /\ UNCHANGED <<sndVars, rcvVars, part, results>>
    BY <1>1 DEF JsiReceives, sndVars
  <2>6. Move("rcv", TRUE, <<>>, "returned", "nil")
    BY <1>2, <2>1, <2>3, <2>4, <2>5, MakesMove, Grounded
  <2> QED BY <1>2, <2>1, <2>2, <2>3, <2>5, <2>6, ReceiverHasFinished
<1> QED BY <1>3, <1>4 DEF WaitDone

LEMMA JsiReceiverCreates ==
  ASSUME Interlock, ~Browser("rcv"), At("rcv", "waitStart"), UNCHANGED <<linkVars, wire>>,
         Consume("rcv"), NextMsg("rcv") = FileStart(cur), IsNext(cur, want), CreateDest(cur),
         UNCHANGED <<meta, want, saved>>, JsiReceives
  PROVE  Interlock'
<1>1. pc["rcv"] = "waitStart" /\ Lives("rcv") /\ TRUE \in BOOLEAN /\ Hears("rcv", TRUE)
      /\ Says("rcv", <<>>) /\ pc["rcv"] \in Starting
  BY DEF At, Lives, Stopped, Ended, Hears, Says, Starting
<1>2. CASE FailWith("rcv", "local") /\ UNCHANGED <<dest, dir>>
  <2>1. Tidies /\ "local" \in Errors
    BY <1>2 DEF Tidies, Errors
  <2> QED BY <1>1, <1>2, <2>1, ReceiverFailsTidily
<1>3. ASSUME NEW i \in 0..MaxAttempts-1, Fresh(meta[cur].name, i),
             dest' = Candidate(meta[cur].name, i),
             dir' = [dir EXCEPT ![Candidate(meta[cur].name, i)] = <<>>],
             GoTo("rcv", "chunks")
      PROVE  Interlock'
  <2>1. meta = ById(Metas) /\ cur \in Files
    BY <1>1, Grounded DEF ReceiverHolds, Basis
  <2>2. meta[cur].name \in Names
    BY <2>1, MetasById, SenderAssumption
  <2>3. dest' \in Paths
    BY <1>3, <2>2 DEF Paths
  <2>4. dir' = [dir EXCEPT ![dest'] = <<>>] /\ dir[dest'] = NoFile
    BY <1>3 DEF Fresh
  <2>5. ASSUME NEW id \in SavedIds PROVE saved[id] # dest'
    <3>1. id \in Files /\ dir[saved[id]] = FileData(id, Size[id])
      BY Grounded DEF Stores
    <3>2. FileData(id, Size[id]) # NoFile
      BY <3>1, FileDataTyped, ReceiverAssumption
    <3> QED BY <2>4, <3>1, <3>2
  <2>6. "chunks" \in JsiReceiver /\ "chunks" \notin Stopped /\ "chunks" \in Chunking
    BY DEF JsiReceiver, Stopped, Ended, Chunking
  <2>7. Move("rcv", TRUE, <<>>, "chunks", "none")
    BY <1>1, <1>3, <2>6, JsiReceiverMoves DEF linkVars
  <2>8. UNCHANGED sndVars /\ UNCHANGED <<meta, want, saved, results>> /\ part' = part
    BY DEF JsiReceives
  <2> QED BY <1>1, <2>3, <2>4, <2>5, <2>6, <2>7, <2>8, ReceiverStartsFile
<1> QED BY <1>2, <1>3 DEF CreateDest

LEMMA JsiReceiverIsStarted ==
  ASSUME Interlock, ~Browser("rcv"), WaitFileStart, JsiReceives
  PROVE  Interlock'
<1>1. At("rcv", "waitStart") /\ UNCHANGED linkVars /\ UNCHANGED <<meta, want, saved>>
  BY DEF WaitFileStart
<1>2. pc["rcv"] = "waitStart" /\ Lives("rcv") /\ pc["rcv"] \in Starting
      /\ pc["rcv"] \notin Greeting \cup Chunking \cup Finishing
  BY <1>1 DEF At, Lives, Stopped, Ended, Starting, Greeting, Chunking, Finishing
<1>3. CASE WaitOther("rcv", {"file-start"}) /\ UNCHANGED <<dest, dir>>
  <2>1. Tidies /\ pc["rcv"] \notin {"waitManifest", "chunks", "waitDone"}
    BY <1>1, <1>2, <1>3 DEF Tidies
  <2> QED BY <1>1, <1>2, <1>3, <2>1, ReceiverWaitsOn
<1>4. ASSUME NEW id \in want, IsNext(id, want), TakeFileStart(id)
      PROVE  Interlock'
  <2>1. Consume("rcv") /\ NextMsg("rcv").t = "file-start"
    BY <1>4 DEF TakeFileStart, Take
  <2>2. NextMsg("rcv") = FileStart(cur) /\ IsNext(cur, want)
    BY <2>1, <1>2, WhatReceiverHears, Tags
  <2>3. id = cur
    <3>1. want \in SUBSET Int
      <4>1. want \in SUBSET Files
        BY Grounded DEF Basis
      <4> QED BY <4>1, FilesAreInts
    <3> QED BY <3>1, <1>4, <2>2, OneIsNext
  <2>4. CreateDest(cur) /\ wire' = wire
    BY <1>4, <2>2, <2>3, Tags DEF TakeFileStart
  <2> QED BY <1>1, <2>1, <2>2, <2>4, JsiReceiverCreates
<1> QED BY <1>3, <1>4 DEF WaitFileStart

LEMMA JsiReceiverWrites ==
  ASSUME Interlock, ~Browser("rcv"), At("rcv", "chunks"), TakeChunk(cur), UNCHANGED <<linkVars, meta>>,
         JsiReceives
  PROVE  Interlock'
<1>1. pc["rcv"] = "chunks" /\ Lives("rcv") /\ TRUE \in BOOLEAN /\ pc["rcv"] \in Chunking
      /\ pc["rcv"] \notin Greeting \cup Starting \cup Finishing
  BY DEF At, Lives, Stopped, Ended, Starting, Greeting, Chunking, Finishing
<1>2. Consume("rcv") /\ NextMsg("rcv").t = "chunk" /\ Hears("rcv", TRUE) /\ UNCHANGED <<want, saved>>
  BY DEF TakeChunk, Take, Hears
<1>3. PICK v \in Lengths : Units < v /\ NextMsg("rcv") = Chunk(Slice(cur, Units, v - Units))
  BY <1>1, <1>2, WhatReceiverHears, Tags
<1>4. Units \in Nat /\ cur \in Files /\ v \in Nat /\ v - Units \in Nat /\ cur \in Int
  <2>1. Units \in Nat /\ cur \in Files
    BY Grounded DEF Fit
  <2>2. Lengths \subseteq Nat
    BY <2>1, LengthsTyped
  <2> QED BY <1>3, <2>1, <2>2, FilesAreInts
<1>5. Part = dir[dest] /\ Units = Len(dir[dest])
  BY <1>1 DEF Part, Units
<1>6. Len(NextMsg("rcv").data) = v - Units
  BY <1>3, <1>4, SliceTyped, Tags
<1>7. meta[cur].size = Size[cur]
  BY <1>1, <1>4, Grounded, MetasById DEF ReceiverHolds
<1>8. CASE Len(dir[dest]) + Len(NextMsg("rcv").data) > meta[cur].size
  <2>1. ProtocolError("rcv") /\ RemovePartial
    BY <1>8 DEF TakeChunk
  <2>2. Changed
    <3>1. v > Size[cur] /\ Size[cur] \in Nat
      <4>1. Size[cur] \in Nat
        BY <1>4, SizesAreNat
      <4>2. Units + (v - Units) > Size[cur]
        BY <1>5, <1>6, <1>7, <1>8
      <4> QED BY <1>4, <4>1, <4>2
    <3> QED BY <1>4, <3>1 DEF Lengths
  <2>3. ErrorMsg("protocol") \in Farewells /\ ErrorMsg("protocol") \in Message
    BY <2>2, FarewellsTyped DEF Farewells
  <2>4. FailWith("rcv", "protocol") /\ "protocol" \in Errors
    BY <2>1 DEF ProtocolError, LastWord, Errors
  <2>5. Tidies /\ part' = part /\ results' = results
    BY <1>2, <2>1 DEF Tidies, JsiReceives
  <2>6. /\ want' \in SUBSET Files /\ dest' \in Paths \cup {NoPath}
        /\ dir' \in [Paths -> Content \cup {NoFile}]
        /\ Stocked' /\ \A id \in SavedIds : id \in SavedIds'
    BY <2>5, TidiesWell
  <2>7. CASE CanSend("rcv")
    <3>1. Says("rcv", <<ErrorMsg("protocol")>>)
      BY <2>1, <2>3, <2>7 DEF ProtocolError, LastWord, Says
    <3> QED BY <1>1, <1>2, <2>2, <2>3, <2>4, <2>6, <3>1, ReceiverFails
  <2>8. CASE ~CanSend("rcv")
    <3>1. wire' = wire
      BY <2>1, <2>8 DEF ProtocolError, LastWord
    <3> QED BY <1>1, <1>2, <2>2, <2>4, <2>5, <3>1, ReceiverFailsTidily
  <2> QED BY <2>7, <2>8
<1>9. CASE /\ wire' = wire
           /\ \/ /\ dir' = [dir EXCEPT ![dest] = @ \o NextMsg("rcv").data]
                 /\ UNCHANGED <<pc, err, dest>>
              \/ FailWith("rcv", "local") /\ RemovePartial
  <2>1. CASE FailWith("rcv", "local") /\ RemovePartial
    <3>1. Tidies /\ "local" \in Errors
      BY <1>2, <2>1 DEF Tidies, Errors
    <3> QED BY <1>1, <1>2, <1>9, <2>1, <3>1, ReceiverFailsTidily
  <2>2. CASE dir' = [dir EXCEPT ![dest] = @ \o NextMsg("rcv").data] /\ UNCHANGED <<pc, err, dest>>
    <3>1. GoTo("rcv", "chunks") /\ Says("rcv", <<>>)
      BY <1>1, <1>9, <2>2, Grounded DEF GoTo, Says, Basis
    <3>2. "chunks" \in JsiReceiver /\ "chunks" \notin Stopped /\ "chunks" \in Chunking
      BY DEF JsiReceiver, Stopped, Ended, Chunking
    <3>3. Move("rcv", TRUE, <<>>, "chunks", "none")
      BY <1>1, <1>2, <3>1, <3>2, JsiReceiverMoves DEF linkVars
    <3>4. UNCHANGED sndVars /\ UNCHANGED <<meta, want, saved, results, dest>> /\ part' = part
      BY <1>2, <2>2 DEF JsiReceives
    <3> QED BY <1>1, <1>2, <1>3, <2>2, <3>2, <3>3, <3>4, ReceiverGetsChunk
  <2> QED BY <1>9, <2>1, <2>2
<1> QED BY <1>8, <1>9 DEF TakeChunk

\* The file is as long as declared, and whole.
LEMMA WholeFile ==
  ASSUME Interlock, pc["rcv"] \in Chunking, Consume("rcv"), NextMsg("rcv").t = "file-end"
  PROVE  /\ cur \in want /\ cur \in Files /\ meta[cur].size = Size[cur]
         /\ NextMsg("rcv").id = cur /\ NextMsg("rcv").sha256 = Part
         /\ Part = FileData(cur, Size[cur]) /\ Len(Part) = Size[cur]
<1>1. Lives("rcv") /\ pc["rcv"] \notin Greeting \cup Starting \cup Finishing
      /\ pc["rcv"] \notin {"waitManifest", "b-manifest"}
  BY DEF Lives, Stopped, Ended, Starting, Greeting, Chunking, Finishing
<1>2. Units = Size[cur] /\ NextMsg("rcv") = FileEnd(cur, FileData(cur, Units))
  BY <1>1, WhatReceiverHears, Tags
<1>3. Units = Len(Part) /\ Part = FileData(cur, Len(Part)) /\ IsNext(cur, want) /\ meta = ById(Metas)
  BY Grounded DEF Units, ReceiverHolds
<1>4. cur \in Files /\ meta[cur].size = Size[cur] /\ cur \in want
  BY <1>3, Grounded, MetasById DEF Basis, IsNext
<1>5. NextMsg("rcv").id = cur /\ NextMsg("rcv").sha256 = FileData(cur, Units)
  BY <1>2, Tags
<1> QED BY <1>2, <1>3, <1>4, <1>5

LEMMA JsiReceiverKeeps ==
  ASSUME Interlock, ~Browser("rcv"), At("rcv", "chunks"), Consume("rcv"),
         NextMsg("rcv").t = "file-end", Keep(cur), UNCHANGED <<linkVars, meta>>, JsiReceives
  PROVE  Interlock'
<1>1. pc["rcv"] = "chunks" /\ Lives("rcv") /\ TRUE \in BOOLEAN /\ pc["rcv"] \in Chunking
      /\ Hears("rcv", TRUE)
  BY DEF At, Lives, Stopped, Ended, Chunking, Hears
<1>2. /\ saved' = [i \in DOMAIN saved \cup {cur} |-> IF i = cur THEN dest ELSE saved[i]]
      /\ dest' = NoPath /\ dir' = dir
  BY DEF Keep
<1>3. /\ cur \in want /\ cur \in Files /\ Part = FileData(cur, Size[cur]) /\ Part = dir[dest]
  BY <1>1, WholeFile DEF Part
<1>4. dest \in Paths
  BY Grounded DEF ReceiverHolds
<1>5. part' = part /\ results' = results /\ kind' = kind /\ ~Browser("rcv")'
  BY DEF JsiReceives, Browser
<1>6. Stocked'
  <2>1. ASSUME NEW id \in SavedIds'
        PROVE  id \in Files /\ saved'[id] \in Paths /\ dir'[saved'[id]] = FileData(id, Size[id])
    <3>1. CASE id = cur
      BY <1>2, <1>3, <1>4, <3>1
    <3>2. CASE id # cur
      <4>1. id \in SavedIds /\ saved'[id] = saved[id]
        BY <1>2, <2>1, <3>2 DEF SavedIds
      <4> QED BY <1>2, <4>1, Grounded DEF Stores
    <3> QED BY <3>1, <3>2
  <2>2. \A id \in DOMAIN results : id \in Files /\ results[id] = FileData(id, Size[id])
    BY Grounded DEF Stores
  <2> QED BY <1>5, <2>1, <2>2 DEF Stocked
<1>7. (\A id \in SavedIds : id \in SavedIds') /\ cur \in SavedIds'
  BY <1>2 DEF SavedIds
<1>8. /\ want \in SUBSET Files /\ dest' \in Paths \cup {NoPath}
      /\ dir' \in [Paths -> Content \cup {NoFile}]
  BY <1>2, Grounded DEF Basis
<1>9. CASE CanSend("rcv")
  <2> DEFINE j == IF want = {cur} THEN "waitDone" ELSE "waitStart"
  <2>1. /\ GoTo("rcv", j) /\ Post("rcv", FileAck(cur, "ok")) /\ want' = want \ {cur}
    BY <1>9 DEF Keep, Control
  <2>2. FileAck(cur, "ok") \in Message
    BY <1>3, FilesAreInts DEF FileAck, Message
  <2>3. Says("rcv", <<FileAck(cur, "ok")>>)
    BY <2>1, <2>2 DEF Says
  <2>4. /\ j \in JsiReceiver /\ j \notin Stopped
        /\ \/ want # {cur} /\ j \in Starting
           \/ want = {cur} /\ j \in Finishing
    BY DEF JsiReceiver, Stopped, Ended, Starting, Finishing
  <2> HIDE DEF j
  <2>5. Move("rcv", TRUE, <<FileAck(cur, "ok")>>, j, "none")
    BY <1>1, <2>1, <2>3, <2>4, JsiReceiverMoves DEF linkVars
  <2>6. (\A id : Held(id) => Held(id)') /\ Held(cur)'
    <3>1. ASSUME NEW id PROVE Held(id)' <=> id \in SavedIds'
      BY <1>5 DEF Held
    <3>2. cur' = cur
      BY DEF JsiReceives, sndVars
    <3>3. Held(cur)'
      BY <1>5, <1>7, <3>2 DEF Held
    <3>4. \A id : Held(id) => id \in SavedIds
      BY DEF Held
    <3> QED BY <1>7, <3>1, <3>3, <3>4
  <2>7. UNCHANGED sndVars /\ meta' = meta /\ UNCHANGED <<dir, part>>
    BY <1>2, <1>5 DEF JsiReceives
  <2> QED BY <1>1, <1>6, <1>8, <2>1, <2>4, <2>5, <2>6, <2>7, ReceiverAcknowledges
<1>10. CASE ~CanSend("rcv")
  <2>1. FailWith("rcv", "send") /\ wire' = wire /\ want' = want
    BY <1>10 DEF Keep, Control
  <2>2. "send" \in Errors \ {"none", "nil", "version", "hash-mismatch"} /\ Says("rcv", <<>>)
        /\ want' \in SUBSET Files
    BY <1>8, <2>1 DEF Errors, Says
  <2>3. UNCHANGED linkVars
    OBVIOUS
  <2> QED BY <1>1, <1>6, <1>7, <1>8, <2>1, <2>2, <2>3, ReceiverFails
<1> QED BY <1>9, <1>10

LEMMA JsiReceiverEndsFile ==
  ASSUME Interlock, ~Browser("rcv"), At("rcv", "chunks"), TakeFileEnd(cur), UNCHANGED <<linkVars, meta>>,
         JsiReceives
  PROVE  Interlock'
<1>1. pc["rcv"] = "chunks" /\ Lives("rcv") /\ TRUE \in BOOLEAN /\ pc["rcv"] \in Chunking
  BY DEF At, Lives, Stopped, Ended, Chunking
<1>2. Consume("rcv") /\ NextMsg("rcv").t = "file-end" /\ Hears("rcv", TRUE)
  BY DEF TakeFileEnd, Take, Hears
<1>3. NextMsg("rcv").id = cur /\ NextMsg("rcv").sha256 = dir[dest] /\ Len(dir[dest]) = meta[cur].size
  BY <1>1, <1>2, WholeFile DEF Part
<1>4. Keep(cur) \/ /\ FailWith("rcv", "local") /\ RemovePartial
                   /\ UNCHANGED <<wire, want, saved>>
  BY <1>3 DEF TakeFileEnd
<1>5. CASE Keep(cur)
  BY <1>2, <1>5, JsiReceiverKeeps
<1>6. CASE FailWith("rcv", "local") /\ RemovePartial /\ UNCHANGED <<wire, want, saved>>
  <2>1. Tidies /\ "local" \in Errors
    BY <1>6 DEF Tidies, Errors
  <2> QED BY <1>1, <1>2, <1>6, <2>1, ReceiverFailsTidily
<1> QED BY <1>4, <1>5, <1>6

LEMMA JsiReceiverReceives ==
  ASSUME Interlock, ~Browser("rcv"), ReceiveChunks, JsiReceives
  PROVE  Interlock'
<1>1. At("rcv", "chunks") /\ UNCHANGED <<linkVars, meta>>
  BY DEF ReceiveChunks
<1>2. pc["rcv"] = "chunks" /\ Lives("rcv") /\ pc["rcv"] \in Chunking
      /\ pc["rcv"] \notin Greeting \cup {"waitManifest", "waitStart", "waitDone"}
  BY <1>1 DEF At, Lives, Stopped, Ended, Greeting, Chunking
<1>3. ASSUME NEW id \in want, IsNext(id, want) PROVE id = cur
  <2>1. want \in SUBSET Files /\ IsNext(cur, want)
    BY <1>2, Grounded DEF Basis, ReceiverHolds
  <2>2. want \in SUBSET Int
    BY <2>1, FilesAreInts
  <2> QED BY <1>3, <2>1, <2>2, OneIsNext
<1>4. CASE NoChunk
  <2>1. WaitOther("rcv", {"chunk", "file-end"}) /\ Tidies
    BY <1>1, <1>4 DEF NoChunk, Tidies
  <2> QED BY <1>1, <1>2, <2>1, ReceiverWaitsOn
<1>5. ASSUME NEW id \in want, IsNext(id, want), TakeChunk(id) \/ TakeFileEnd(id)
      PROVE  Interlock'
  <2>1. TakeChunk(cur) \/ TakeFileEnd(cur)
    BY <1>3, <1>5
  <2> QED BY <1>1, <2>1, JsiReceiverWrites, JsiReceiverEndsFile
<1> QED BY <1>4, <1>5 DEF ReceiveChunks

LEMMA JsiReceiverSteps ==
  ASSUME Interlock, ~Browser("rcv"), ReceiverStep, UNCHANGED <<kind, part, results>>
  PROVE  Interlock'
<1>1. JsiReceives /\ ReceiverNext
  BY DEF ReceiverStep, JsiReceives
<1>2. CASE BothSides("rcv") /\ UNCHANGED rcvVars
  BY <1>1, <1>2, JsiReceiverBegins, JsiReceiverGreets, JsiReceiverIsGreeted, JsiReceiverAborts,
     JsiReceiverCloses DEF BothSides
<1>3. CASE NoDestination \/ WaitManifest \/ Decide
  BY <1>1, <1>3, JsiReceiverHasNowhere, JsiReceiverIsTold, JsiReceiverDecides
<1>4. CASE WaitFileStart \/ ReceiveChunks \/ WaitDone
  BY <1>1, <1>4, JsiReceiverIsStarted, JsiReceiverReceives, JsiReceiverIsDone
<1> QED BY <1>1, <1>2, <1>3, <1>4 DEF ReceiverNext

-----------------------------------------------------------------------------
(* The steps of a browser that receives.                                   *)

\* What such a step leaves alone.
BrowserRests == UNCHANGED <<browserRest, accepted, todo, cur, sent, buf>>

LEMMA BrowserReceiverMoves ==
  ASSUME Interlock, Browser("rcv"), Lives("rcv"), NEW h \in BOOLEAN, NEW Q, NEW l \in BrowserReceiver,
         l \notin Stopped, GoTo("rcv", l), Hears("rcv", h), Says("rcv", Q), BrowserRests,
         pump' = pump \/ pump' = [pump EXCEPT !["rcv"] = "on"]
  PROVE  Move("rcv", h, Q, l, "none") /\ UNCHANGED sndVars /\ UNCHANGED <<dest, dir, saved>>
<1>1. l \in Place("rcv")
  BY DEF Place
<1>2. pc["rcv"] \notin Stopped /\ pc["rcv"] # "closed" /\ err["rcv"] = "none" /\ "rcv" \in Side
  BY ReceiverPlaces, Grounded
<1>3. Turns("rcv", l, "none")
  BY <1>2 DEF GoTo, Turns
<1>4. UNCHANGED <<kind, disk, ctx, closed>> /\ chan' = chan
  BY DEF BrowserRests, browserRest
<1>5. pump' = pump \/ pump' = [pump EXCEPT !["rcv"] = IF l \in Stopped THEN "off" ELSE "on"]
  OBVIOUS
<1>6. UNCHANGED sndVars /\ UNCHANGED <<dest, dir, saved>>
  BY DEF BrowserRests, browserRest, sndVars
<1> QED BY <1>1, <1>2, <1>3, <1>4, <1>5, <1>6, MakesMove

LEMMA ReceiverThrows ==
  ASSUME Interlock, Browser("rcv"), Lives("rcv"), NEW h \in BOOLEAN,
         NEW e \in {"send", "protocol", "peer-cancel"},
         Throw("rcv", e), Hears("rcv", h), wire' = wire, BrowserRests,
         Failed("snd") \/ At("snd", "closed"), want' \in SUBSET Files, part' \in Content
  PROVE  Interlock'
<1>1. "b-error" \in Place("rcv") /\ "b-error" \in Stopped
  BY DEF Place, BrowserReceiver, Stopped
<1>2. pc["rcv"] \notin Stopped /\ pc["rcv"] # "closed" /\ "rcv" \in Side
  BY DEF Lives, Stopped, Ended, Side
<1>3. Turns("rcv", "b-error", e) /\ Says("rcv", <<>>)
  BY DEF Throw, Turns, Says
<1>4. UNCHANGED <<kind, disk, ctx, closed, chan>>
  BY DEF BrowserRests, browserRest
<1>5. pump' = [pump EXCEPT !["rcv"] = IF "b-error" \in Stopped THEN "off" ELSE "on"]
  BY <1>1 DEF Throw
<1>6. Move("rcv", h, <<>>, "b-error", e)
  BY <1>1, <1>2, <1>3, <1>4, <1>5, MakesMove
<1>7. Justly("rcv", e) /\ e \in (Errors \cup {"left"}) \ {"none", "nil"}
  BY DEF Justly, Peer, Errors
<1>8. UNCHANGED sndVars /\ dest' = dest /\ dir' = dir /\ saved' = saved /\ results' = NoEntries
  BY DEF BrowserRests, browserRest, sndVars, Throw
<1>9. dest' \in Paths \cup {NoPath} /\ dir' \in [Paths -> Content \cup {NoFile}]
  BY <1>8, Grounded DEF Basis
<1>10. Stocked'
  BY <1>8, Grounded DEF Stocked, Stores, SavedIds, NoEntries
<1> QED BY <1>1, <1>6, <1>7, <1>8, <1>9, <1>10, ReceiverLeavesOff

\* What else it hears is a cancel.
LEMMA ReceiverTakesOther ==
  ASSUME Interlock, Browser("rcv"), Lives("rcv"), NEW types, TakeOther("rcv", types), BrowserRests,
         pc["rcv"] = "b-manifest" => {"hello", "manifest"} \subseteq types,
         pc["rcv"] = "b-start" => "file-start" \in types,
         pc["rcv"] = "b-chunks" => {"chunk", "file-end"} \subseteq types,
         pc["rcv"] = "b-done" => "done" \in types, pc["rcv"] # "init",
         want' = want, part' = part
  PROVE  Interlock'
<1>1. Consume("rcv") /\ NextMsg("rcv").t \notin types /\ Throw("rcv", "protocol") /\ wire' = wire
      /\ Hears("rcv", TRUE) /\ TRUE \in BOOLEAN
  BY DEF TakeOther, Hears
<1>2. /\ pc["rcv"] \notin Greeting /\ pc["rcv"] # "waitManifest"
      /\ (pc["rcv"] \in Starting => pc["rcv"] = "b-start")
      /\ (pc["rcv"] \in Chunking => pc["rcv"] = "b-chunks")
      /\ (pc["rcv"] \in Finishing => pc["rcv"] = "b-done")
  BY ReceiverPlaces DEF Greeting, Starting, Chunking, Finishing
<1>3. Failed("snd") \/ At("snd", "closed")
  BY <1>1, <1>2, WhatReceiverHears, Tags
<1>4. want' \in SUBSET Files /\ part' \in Content
  BY Grounded DEF Basis
<1> QED BY <1>1, <1>3, <1>4, ReceiverThrows

LEMMA BrowserReceiverStarts ==
  ASSUME Interlock, Browser("rcv"), Start("rcv")
  PROVE  Interlock'
<1>1. /\ pc["rcv"] = "init" /\ BrowserRests /\ NoInput /\ UNCHANGED <<meta, want, part>>
      /\ Hears("rcv", FALSE) /\ FALSE \in BOOLEAN
  BY DEF Start, At, BrowserRests, browserRest, NoInput, Hears
<1>2. Lives("rcv")
  BY <1>1 DEF Lives, Stopped, Ended
<1>3. CASE CanSend("rcv")
  <2>1. /\ Says("rcv", <<Hello(Version)>>) /\ GoTo("rcv", "b-manifest") /\ results' = results
        /\ pump' = [pump EXCEPT !["rcv"] = "on"]
    BY <1>3 DEF Start, Says
  <2>2. "b-manifest" \in BrowserReceiver /\ "b-manifest" \notin Stopped
    BY DEF BrowserReceiver, Stopped, Ended
  <2>3. Move("rcv", FALSE, <<Hello(Version)>>, "b-manifest", "none") /\ UNCHANGED sndVars
        /\ UNCHANGED <<dest, dir, saved>>
    BY <1>1, <1>2, <2>1, <2>2, BrowserReceiverMoves
  <2>4. UNCHANGED <<sndVars, rcvVars, part, results>>
    BY <1>1, <2>1, <2>3 DEF rcvVars
  <2> QED BY <1>1, <2>3, <2>4, ReceiverSaysHello
<1>4. CASE ~CanSend("rcv")
  <2>1. Throw("rcv", "send") /\ wire' = wire
    BY <1>4 DEF Start
  <2>2. At("snd", "closed")
    BY <1>2, <1>4, ChannelClosed, Grounded DEF Peer
  <2>3. want' \in SUBSET Files /\ part' \in Content
    BY <1>1, Grounded DEF Basis
  <2> QED BY <1>1, <1>2, <2>1, <2>2, <2>3, ReceiverThrows
<1> QED BY <1>3, <1>4

LEMMA BrowserReceiverIsTold ==
  ASSUME Interlock, Browser("rcv"), AwaitManifest
  PROVE  Interlock'
<1>1. pc["rcv"] = "b-manifest" /\ BrowserRests /\ part' = part /\ part' \in Content
  BY Grounded DEF AwaitManifest, At, BrowserRests, Basis
<1>2. Lives("rcv") /\ TRUE \in BOOLEAN /\ pc["rcv"] \notin Starting \cup Chunking \cup Finishing
      /\ pc["rcv"] \notin Stopped
  BY <1>1 DEF Lives, Stopped, Ended, Starting, Chunking, Finishing
<1>3. ASSUME Take("rcv", {"manifest"}), meta' = ById(NextMsg("rcv").files), want' = DOMAIN meta',
             SendAll("rcv", <<Accept({})>>, "b-start")
      PROVE  Interlock'
  <2>1. Consume("rcv") /\ NextMsg("rcv").t = "manifest" /\ Hears("rcv", TRUE)
    BY <1>3 DEF Take, Hears
  <2>2. NextMsg("rcv") = Manifest(Metas)
    BY <2>1, <1>1, <1>2, WhatReceiverHears, Tags
  <2>3. meta' = ById(Metas) /\ want' = Files
    BY <1>3, <2>2, MetasById, Tags
  <2>4. want' = ResolveAccept({}, NumFiles) /\ {} \in SUBSET Files
    BY <2>3 DEF ResolveAccept, Files
  <2>5. CASE CanSend("rcv")
    <3>1. Says("rcv", <<Accept({})>>) /\ GoTo("rcv", "b-start") /\ results' = results /\ pump' = pump
      BY <1>3, <2>5 DEF SendAll, Says, Resume
    <3>2. "b-start" \in BrowserReceiver /\ "b-start" \notin Stopped /\ "b-start" \in Starting
      BY DEF BrowserReceiver, Stopped, Ended, Starting
    <3>3. Move("rcv", TRUE, <<Accept({})>>, "b-start", "none") /\ UNCHANGED sndVars
          /\ UNCHANGED <<dest, dir, saved>>
      BY <1>1, <1>2, <2>1, <3>1, <3>2, BrowserReceiverMoves
    <3>4. Accept({}) \in Message
      BY DEF Accept, Message
    <3>5. UNCHANGED <<dest, dir, saved, part, results>>
      BY <1>1, <3>1, <3>3
    <3> QED BY <1>1, <1>2, <2>1, <2>2, <2>3, <2>4, <3>2, <3>3, <3>4, <3>5, ReceiverAnswers
  <2>6. CASE ~CanSend("rcv")
    <3>1. Throw("rcv", "send") /\ wire' = wire
      BY <1>3, <2>6 DEF SendAll
    <3>2. At("snd", "closed")
      BY <1>2, <2>6, ChannelClosed, Grounded DEF Peer
    <3>3. want' \in SUBSET Files
      BY <2>3
    <3> QED BY <1>1, <1>2, <2>1, <3>1, <3>2, <3>3, ReceiverThrows
  <2> QED BY <2>5, <2>6
<1>4. ASSUME SkipHello("rcv"), UNCHANGED <<meta, want>>
      PROVE  Interlock'
  <2>1. Consume("rcv") /\ NextMsg("rcv").t = "hello" /\ Hears("rcv", TRUE)
        /\ UNCHANGED <<pc, err, pump, results, wire>>
    BY <1>4 DEF SkipHello, Take, Hears
  <2>2. NextMsg("rcv") = Hello(Version)
    BY <2>1, <1>1, <1>2, WhatReceiverHears, Tags
  <2>3. GoTo("rcv", "b-manifest") /\ Says("rcv", <<>>)
    BY <1>1, <2>1, Grounded DEF GoTo, Says, Basis
  <2>4. "b-manifest" \in BrowserReceiver /\ "b-manifest" \notin Stopped
    BY <1>1, <1>2 DEF BrowserReceiver
  <2>5. Move("rcv", TRUE, <<>>, "b-manifest", "none") /\ UNCHANGED sndVars
        /\ UNCHANGED <<dest, dir, saved>>
    BY <1>1, <1>2, <2>1, <2>3, <2>4, BrowserReceiverMoves
  <2>6. UNCHANGED <<want, dest, dir, saved, part, results>>
    BY <1>1, <1>4, <2>1, <2>5
  <2> QED BY <1>1, <2>1, <2>2, <2>5, <2>6, ReceiverHearsFirst
<1>5. ASSUME TakeOther("rcv", {"manifest", "hello"}), UNCHANGED <<meta, want>>
      PROVE  Interlock'
  <2>1. want' = want
    BY <1>5
  <2> QED BY <1>1, <1>2, <1>5, <2>1, ReceiverTakesOther
<1> QED BY <1>3, <1>4, <1>5 DEF AwaitManifest

LEMMA BrowserReceiverIsStarted ==
  ASSUME Interlock, Browser("rcv"), AwaitStart
  PROVE  Interlock'
<1>1. pc["rcv"] = "b-start" /\ BrowserRests /\ meta' = meta /\ want' = want
  BY DEF AwaitStart, At, BrowserRests
<1>2. Lives("rcv") /\ TRUE \in BOOLEAN /\ pc["rcv"] \in Starting
      /\ pc["rcv"] \notin Greeting \cup {"waitManifest", "b-manifest"} \cup Chunking \cup Finishing
  BY <1>1 DEF Lives, Stopped, Ended, Starting, Greeting, Chunking, Finishing
<1>3. ASSUME Take("rcv", {"file-start"}), part' = <<>>, Resume("rcv", "b-chunks"), wire' = wire
      PROVE  Interlock'
  <2>1. Consume("rcv") /\ NextMsg("rcv").t = "file-start" /\ Hears("rcv", TRUE)
    BY <1>3 DEF Take, Hears
  <2>2. NextMsg("rcv") = FileStart(cur) /\ IsNext(cur, want)
    BY <2>1, <1>2, WhatReceiverHears, Tags
  <2>3. GoTo("rcv", "b-chunks") /\ Says("rcv", <<>>) /\ pump' = pump /\ results' = results
    BY <1>3 DEF Resume, Says
  <2>4. "b-chunks" \in BrowserReceiver /\ "b-chunks" \notin Stopped /\ "b-chunks" \in Chunking
    BY DEF BrowserReceiver, Stopped, Ended, Chunking
  <2>5. Move("rcv", TRUE, <<>>, "b-chunks", "none") /\ UNCHANGED sndVars
        /\ UNCHANGED <<dest, dir, saved>>
    BY <1>1, <1>2, <2>1, <2>3, <2>4, BrowserReceiverMoves
  <2>6. UNCHANGED <<meta, want, saved, results>> /\ UNCHANGED <<dest, dir>>
    BY <1>1, <2>3, <2>5
  <2> QED BY <1>2, <1>3, <2>1, <2>2, <2>4, <2>5, <2>6, ReceiverStartsFile
<1>4. ASSUME TakeOther("rcv", {"file-start"}), part' = part
      PROVE  Interlock'
  BY <1>1, <1>2, <1>4, ReceiverTakesOther
<1> QED BY <1>3, <1>4 DEF AwaitStart

LEMMA BrowserReceiverEndsFile ==
  ASSUME Interlock, Browser("rcv"), At("rcv", "b-chunks"), Take("rcv", {"file-end"}),
         EndOfFile(cur), part' = part, meta' = meta, BrowserRests
  PROVE  Interlock'
<1>1. pc["rcv"] = "b-chunks" /\ Lives("rcv") /\ TRUE \in BOOLEAN /\ pc["rcv"] \in Chunking
  BY DEF At, Lives, Stopped, Ended, Chunking
<1>2. Consume("rcv") /\ NextMsg("rcv").t = "file-end" /\ Hears("rcv", TRUE)
  BY DEF Take, Hears
<1>3. /\ cur \in want /\ cur \in Files /\ Part = part /\ Len(part) = meta[cur].size
      /\ part = NextMsg("rcv").sha256 /\ part = FileData(cur, Size[cur])
  BY <1>1, <1>2, WholeFile DEF Part
<1>4. CASE CanSend("rcv")
  <2> DEFINE j == IF want = {cur} THEN "b-done" ELSE "b-start"
  <2>1. /\ GoTo("rcv", j) /\ Post("rcv", FileAck(cur, "ok")) /\ want' = want \ {cur} /\ pump' = pump
        /\ results' = [i \in DOMAIN results \cup {cur} |-> IF i = cur THEN part ELSE results[i]]
    BY <1>3, <1>4 DEF EndOfFile
  <2>2. FileAck(cur, "ok") \in Message
    BY <1>3, FilesAreInts DEF FileAck, Message
  <2>3. Says("rcv", <<FileAck(cur, "ok")>>)
    BY <2>1, <2>2 DEF Says
  <2>4. /\ j \in BrowserReceiver /\ j \notin Stopped
        /\ \/ want # {cur} /\ j \in Starting
           \/ want = {cur} /\ j \in Finishing
    BY DEF BrowserReceiver, Stopped, Ended, Starting, Finishing
  <2> HIDE DEF j
  <2>5. Move("rcv", TRUE, <<FileAck(cur, "ok")>>, j, "none") /\ UNCHANGED sndVars
        /\ UNCHANGED <<dest, dir, saved>>
    BY <1>1, <1>2, <2>1, <2>3, <2>4, BrowserReceiverMoves
  <2>6. dest' = dest /\ dir' = dir /\ saved' = saved /\ cur' = cur /\ kind' = kind /\ Browser("rcv")'
    BY <2>5 DEF sndVars, Move, Browser
  <2>7. \A id \in DOMAIN results : id \in DOMAIN results' /\ (id # cur => results'[id] = results[id])
    BY <2>1
  <2>8. cur \in DOMAIN results' /\ results'[cur] = FileData(cur, Size[cur])
    BY <1>3, <2>1
  <2>9. Stocked'
    <3>1. ASSUME NEW id \in DOMAIN results'
          PROVE  id \in Files /\ results'[id] = FileData(id, Size[id])
      <4>1. CASE id = cur
        BY <1>3, <2>8, <4>1
      <4>2. CASE id # cur
        <5>1. id \in DOMAIN results
          BY <2>1, <3>1, <4>2
        <5> QED BY <2>7, <4>2, <5>1, Grounded DEF Stores
      <4> QED BY <4>1, <4>2
    <3>2. \A id \in SavedIds : /\ id \in Files /\ saved[id] \in Paths
                               /\ dir[saved[id]] = FileData(id, Size[id])
      BY Grounded DEF Stores
    <3> QED BY <2>6, <3>1, <3>2 DEF Stocked, SavedIds
  <2>10. (\A id : Held(id) => Held(id)') /\ Held(cur)'
    <3>1. ASSUME NEW id, Held(id) PROVE Held(id)'
      BY <2>6, <2>7, <3>1 DEF Held
    <3>2. Held(cur)'
      BY <2>6, <2>8 DEF Held
    <3> QED BY <3>1, <3>2
  <2>11. dest' \in Paths \cup {NoPath} /\ UNCHANGED <<dir, part>>
    BY <2>6, Grounded DEF Basis
  <2> QED BY <1>1, <1>2, <2>1, <2>4, <2>5, <2>9, <2>10, <2>11, ReceiverAcknowledges
<1>5. CASE ~CanSend("rcv")
  <2>1. Throw("rcv", "send") /\ wire' = wire /\ want' = want
    BY <1>3, <1>5 DEF EndOfFile
  <2>2. At("snd", "closed")
    BY <1>1, <1>5, ChannelClosed, Grounded DEF Peer
  <2>3. want' \in SUBSET Files /\ part' \in Content
    BY <2>1, Grounded DEF Basis
  <2> QED BY <1>1, <1>2, <2>1, <2>2, <2>3, ReceiverThrows
<1> QED BY <1>4, <1>5

LEMMA BrowserReceiverReceives ==
  ASSUME Interlock, Browser("rcv"), AwaitChunks
  PROVE  Interlock'
<1>1. At("rcv", "b-chunks") /\ pc["rcv"] = "b-chunks" /\ BrowserRests /\ meta' = meta
  BY DEF AwaitChunks, At, BrowserRests
<1>2. Lives("rcv") /\ TRUE \in BOOLEAN /\ pc["rcv"] \in Chunking
      /\ pc["rcv"] \notin Greeting \cup {"waitManifest", "b-manifest"} \cup Starting \cup Finishing
  BY <1>1 DEF Lives, Stopped, Ended, Starting, Greeting, Chunking, Finishing
<1>3. ASSUME Take("rcv", {"chunk"}), part' = part \o NextMsg("rcv").data,
             UNCHANGED <<pc, err, pump, results, wire, want>>
      PROVE  Interlock'
  <2>1. Consume("rcv") /\ NextMsg("rcv").t = "chunk" /\ Hears("rcv", TRUE) /\ Says("rcv", <<>>)
    BY <1>3 DEF Take, Hears, Says
  <2>2. PICK v \in Lengths : Units < v /\ NextMsg("rcv") = Chunk(Slice(cur, Units, v - Units))
    BY <2>1, <1>2, WhatReceiverHears, Tags
  <2>3. GoTo("rcv", "b-chunks") /\ pump' = pump
    BY <1>1, <1>3, Grounded DEF GoTo, Basis
  <2>4. "b-chunks" \in BrowserReceiver /\ "b-chunks" \notin Stopped /\ "b-chunks" \in Chunking
    BY DEF BrowserReceiver, Stopped, Ended, Chunking
  <2>5. Move("rcv", TRUE, <<>>, "b-chunks", "none") /\ UNCHANGED sndVars
        /\ UNCHANGED <<dest, dir, saved>>
    BY <1>1, <1>2, <2>1, <2>3, <2>4, BrowserReceiverMoves
  <2>6. UNCHANGED <<meta, want, saved, results, dest>> /\ dir' = dir
    BY <1>1, <1>3, <2>5
  <2> QED BY <1>1, <1>3, <2>1, <2>2, <2>4, <2>5, <2>6, ReceiverGetsChunk
<1>4. ASSUME Take("rcv", {"file-end"}), NEW id \in want, IsNext(id, want), EndOfFile(id), part' = part
      PROVE  Interlock'
  <2>1. want \in SUBSET Files /\ IsNext(cur, want)
    BY <1>2, Grounded DEF Basis, ReceiverHolds
  <2>2. want \in SUBSET Int
    BY <2>1, FilesAreInts
  <2>3. id = cur
    BY <1>4, <2>1, <2>2, OneIsNext
  <2> QED BY <1>1, <1>4, <2>3, BrowserReceiverEndsFile
<1>5. ASSUME Take("rcv", {"cancel"}), Throw("rcv", "peer-cancel"), UNCHANGED <<wire, part, want>>
      PROVE  Interlock'
  <2>1. Consume("rcv") /\ NextMsg("rcv").t = "cancel" /\ Hears("rcv", TRUE)
    BY <1>5 DEF Take, Hears
  <2>2. Failed("snd") \/ At("snd", "closed")
    BY <2>1, <1>2, WhatReceiverHears, Tags
  <2>3. want' \in SUBSET Files /\ part' \in Content /\ wire' = wire
    BY <1>5, Grounded DEF Basis
  <2> QED BY <1>1, <1>2, <1>5, <2>1, <2>2, <2>3, ReceiverThrows
<1>6. ASSUME TakeOther("rcv", {"chunk", "file-end", "cancel"}), UNCHANGED <<part, want>>
      PROVE  Interlock'
  <2>1. part' = part /\ want' = want
    BY <1>6
  <2> QED BY <1>1, <1>2, <1>6, <2>1, ReceiverTakesOther
<1> QED BY <1>3, <1>4, <1>5, <1>6 DEF AwaitChunks

LEMMA BrowserReceiverIsDone ==
  ASSUME Interlock, Browser("rcv"), AwaitDone
  PROVE  Interlock'
<1>1. pc["rcv"] = "b-done" /\ BrowserRests /\ meta' = meta /\ want' = want /\ part' = part
  BY DEF AwaitDone, At, BrowserRests, sndVars
<1>2. Lives("rcv") /\ TRUE \in BOOLEAN /\ pc["rcv"] \in Finishing /\ pc["rcv"] # "closed"
      /\ pc["rcv"] \notin Greeting \cup {"waitManifest", "b-manifest"} \cup Starting \cup Chunking
      /\ pc["rcv"] \notin Stopped
  BY <1>1 DEF Lives, Stopped, Ended, Starting, Greeting, Chunking, Finishing
<1>3. ASSUME Take("rcv", {"done"}), Resolve("rcv"), UNCHANGED <<wire, results>>
      PROVE  Interlock'
  <2>1. Consume("rcv") /\ NextMsg("rcv").t = "done" /\ Hears("rcv", TRUE) /\ Says("rcv", <<>>)
    BY <1>3 DEF Take, Hears, Says
  <2>2. NextMsg("rcv") = Done
    BY <2>1, <1>2, WhatReceiverHears, Tags
  <2>3. Turns("rcv", "b-over", "nil") /\ "b-over" \in Place("rcv")
        /\ "b-over" \in Stopped \ {"failed"}
    BY <1>3 DEF Resolve, Turns, Place, BrowserReceiver, Stopped, Ended
  <2>4. pump' = [pump EXCEPT !["rcv"] = IF "b-over" \in Stopped THEN "off" ELSE "on"]
    BY <1>3, <2>3 DEF Resolve
  <2>5. UNCHANGED <<kind, disk, ctx, closed, chan>> /\ UNCHANGED <<sndVars, rcvVars, part, results>>
    BY <1>1, <1>3 DEF BrowserRests, browserRest, sndVars, rcvVars
  <2>6. Move("rcv", TRUE, <<>>, "b-over", "nil")
    BY <1>2, <2>1, <2>3, <2>4, <2>5, MakesMove, Grounded
  <2> QED BY <1>2, <2>1, <2>2, <2>3, <2>5, <2>6, ReceiverHasFinished
<1>4. ASSUME TakeOther("rcv", {"done"})
      PROVE  Interlock'
  BY <1>1, <1>2, <1>4, ReceiverTakesOther
<1> QED BY <1>3, <1>4 DEF AwaitDone

LEMMA BrowserReceiverGoesBack ==
  ASSUME Interlock, Back("rcv")
  PROVE  Interlock'
<1>1. /\ Browser("rcv") /\ pc["rcv"] # "closed" /\ "rcv" \in Side
      /\ UNCHANGED <<wire, inbox, pending, closed, ctx, sndVars, rcvVars, kind, part>>
      /\ chan' = [chan EXCEPT !["rcv"] = "closed"] /\ pc' = [pc EXCEPT !["rcv"] = "closed"]
      /\ err' = [err EXCEPT !["rcv"] = IF @ = "none" THEN "left" ELSE @]
      /\ pump' = [pump EXCEPT !["rcv"] = "off"]
      /\ results' = IF err["rcv"] # "nil" THEN NoEntries ELSE results
  BY DEF Back, At, Side
<1>2. "closed" \in Place("rcv") /\ "closed" \in Stopped \ {"failed"}
  BY <1>1 DEF Place, BrowserReceiver, Stopped, Ended
<1>3. /\ UNCHANGED sndVars /\ disk' = disk /\ want' = want /\ dest' = dest /\ dir' = dir
      /\ saved' = saved /\ part' = part
  BY <1>1 DEF sndVars, rcvVars
<1>4. pump' = [pump EXCEPT !["rcv"] = IF "closed" \in Stopped THEN "off" ELSE "on"]
  BY <1>1, <1>2
<1>5. Says("rcv", <<>>) /\ Hears("rcv", FALSE)
  BY <1>1 DEF Says, Hears, NoInput
<1>6. err \in [Side -> Errors \cup {"left"}]
  BY Grounded DEF Basis
<1>7. CASE Lives("rcv")
  <2>1. err["rcv"] = "none"
    BY <1>1, <1>7, OutcomeOpen
  <2>2. Turns("rcv", "closed", "left")
    BY <1>1, <1>6, <2>1 DEF Turns
  <2>3. Move("rcv", FALSE, <<>>, "closed", "left")
    BY <1>1, <1>2, <1>3, <1>4, <1>5, <2>2, MakesMove
  <2>4. Justly("rcv", "left") /\ "left" \in (Errors \cup {"left"}) \ {"none", "nil"}
    BY DEF Justly
  <2>5. /\ want' \in SUBSET Files /\ dest' \in Paths \cup {NoPath}
        /\ dir' \in [Paths -> Content \cup {NoFile}] /\ part' \in Content
    BY <1>3, Grounded DEF Basis
  <2>6. Stocked'
    <3>1. results' = NoEntries
      BY <1>1, <2>1
    <3> QED BY <1>3, <3>1, Grounded DEF Stocked, Stores, SavedIds, NoEntries
  <2> QED BY <1>1, <1>2, <1>3, <1>7, <2>3, <2>4, <2>5, <2>6, ReceiverLeavesOff
<1>8. CASE ~Lives("rcv")
  <2>1. err["rcv"] # "none" /\ pc["rcv"] \in Stopped
    BY <1>1, <1>8, OutcomeOpen DEF Lives
  <2>2. Turns("rcv", "closed", err["rcv"])
    BY <1>1, <1>6, <2>1 DEF Turns
  <2>3. Move("rcv", FALSE, <<>>, "closed", err["rcv"])
    BY <1>1, <1>2, <1>3, <1>4, <1>5, <2>2, MakesMove
  <2>4. results' = results \/ (Browser("rcv") /\ Failed("rcv") /\ results' = NoEntries)
    BY <1>1, <2>1 DEF Failed
  <2>5. UNCHANGED <<sndVars, rcvVars, part>>
    BY <1>1
  <2> QED BY <1>2, <2>1, <2>3, <2>4, <2>5, ReceiverGoesAway
<1> QED BY <1>7, <1>8

LEMMA BrowserReceiverSteps ==
  ASSUME Interlock, Browser("rcv"), Start("rcv") \/ BrowserReceives
  PROVE  Interlock'
BY BrowserReceiverStarts, BrowserReceiverIsTold, BrowserReceiverIsStarted,
   BrowserReceiverReceives, BrowserReceiverIsDone DEF BrowserReceives

-----------------------------------------------------------------------------
(* The network, the closes and the users.                                  *)

\* Neither end takes a step.
Calm == UNCHANGED <<pending, pc, err, pump, sides>>

LEMMA CalmKeeps ==
  ASSUME Interlock, Calm, Lines', Link', Links',
         Dialogue(pc["snd"], pc["rcv"], err["snd"], Coming("rcv")', Coming("snd")', sent,
                  Units, cur, todo, want, Lengths, Farewells),
         Lives("snd") /\ Coming("snd")' # <<>> /\ Head(Coming("snd")') = FileAck(cur, "ok")
           => Coming("snd") # <<>> /\ Head(Coming("snd")) = FileAck(cur, "ok")
  PROVE  Interlock'
<1>1. /\ UNCHANGED <<pending, pc, err, pump>>
      /\ UNCHANGED <<accepted, todo, cur, sent, buf, disk>>
      /\ UNCHANGED <<meta, want, dest, dir, saved>>
      /\ UNCHANGED <<kind, part, results>>
  BY DEF Calm, sides, sndVars, rcvVars
<1>2. Basis /\ Placed /\ SenderHolds /\ ReceiverHolds /\ Stores /\ Verdicts
  BY Grounded
<1>3. Basis'
  BY <1>1, <1>2 DEF Basis
<1>4. Placed'
  BY <1>1, <1>2 DEF Placed, Place, Browser
<1>5. Units' = Units /\ Lengths' = Lengths /\ Farewells' = Farewells
  BY <1>1 DEF Units, Part, Browser, Lengths, Farewells, Changed
<1>6. Talk'
  BY <1>1, <1>5 DEF Talk
<1>7. SenderHolds'
  BY <1>1, <1>2, <1>5 DEF SenderHolds, At
<1>8. ReceiverHolds'
  BY <1>1, <1>2 DEF ReceiverHolds, At, Part, Browser, SavedIds
<1>9. Stores'
  <2>1. (\A id : Held(id)' <=> Held(id)) /\ Lost' = Lost /\ Acked' = Acked /\ Lives("snd")' = Lives("snd")
    BY <1>1 DEF Held, Browser, SavedIds, Lost, Failed, Acked, Lives
  <2>2. \A id \in SavedIds' : /\ id \in Files /\ saved'[id] \in Paths
                              /\ dir'[saved'[id]] = FileData(id, Size[id])
    BY <1>1, <1>2 DEF Stores, SavedIds
  <2>3. \A id \in DOMAIN results' : id \in Files /\ results'[id] = FileData(id, Size[id])
    BY <1>1, <1>2 DEF Stores
  <2>4. Lost' \/ \A id \in Acked' : Held(id)'
    BY <1>2, <2>1 DEF Stores
  <2>5. (Lives("snd") /\ Coming("snd") # <<>> /\ Head(Coming("snd")) = FileAck(cur, "ok")
           => Lost \/ Held(cur))'
    BY <1>1, <1>2, <2>1 DEF Stores
  <2> QED BY <2>2, <2>3, <2>4, <2>5 DEF Stores
<1>10. Verdicts'
  BY <1>1, <1>2 DEF Verdicts, Lives, At, Failed, Browser, Changed
<1> QED BY <1>3, <1>4, <1>6, <1>7, <1>8, <1>9, <1>10 DEF Interlock

\* What comes to s stays, or loses its end if the peer has closed, or
\* anything if s has stopped.
LEMMA CalmLoses ==
  ASSUME Interlock, Calm, Lines', Link', Links', NEW s \in Side,
         Coming(Peer(s))' = Coming(Peer(s)), Coming(s)' \in Seq(Message),
         \/ Coming(s)' = Coming(s)
         \/ ~Lives(s)
         \/ At(Peer(s), "closed") /\ Prefix(Coming(s)', Coming(s))
  PROVE  Interlock'
<1> DEFINE P == Coming(s)'
<1>1. Fit(Coming("rcv"), Coming("snd"), sent, Units, cur, want, Lengths)
  BY Grounded
<1>2. Dialogue(pc["snd"], pc["rcv"], err["snd"], Coming("rcv"), Coming("snd"), sent,
               Units, cur, todo, want, Lengths, Farewells)
  BY Grounded
<1>3. P \in Seq(Message)
  OBVIOUS
<1>4. CASE s = "rcv"
  <2>1. Coming("rcv")' = P /\ Coming("snd")' = Coming("snd")
    BY <1>4 DEF Peer
  <2>2. P = Coming("rcv") \/ ~Lives("rcv") \/ (At("snd", "closed") /\ Prefix(P, Coming("rcv")))
    BY <1>4 DEF Peer
  <2> HIDE DEF P
  <2>3. Dialogue(pc["snd"], pc["rcv"], err["snd"], P, Coming("snd"), sent,
                 Units, cur, todo, want, Lengths, Farewells)
    <3>1. CASE P = Coming("rcv")
      BY <1>2, <3>1
    <3>2. CASE ~Lives("rcv")
      BY <1>2, <3>2 DEF Lives, Dialogue
    <3>3. CASE At("snd", "closed") /\ Prefix(P, Coming("rcv"))
      <4>1. pc["snd"] = "closed" /\ Prefix(P, Coming("rcv"))
        BY <3>3 DEF At
      <4>2. Dialogue("closed", pc["rcv"], err["snd"], Coming("rcv"), Coming("snd"), sent,
                     Units, cur, todo, want, Lengths, Farewells)
        BY <1>2, <4>1
      <4>3. Dialogue("closed", pc["rcv"], err["snd"], P, Coming("snd"), sent,
                     Units, cur, todo, want, Lengths, Farewells)
        BY <1>1, <1>3, <4>1, <4>2, SenderCutOff
      <4> QED BY <4>1, <4>3
    <3> QED BY <2>2, <3>1, <3>2, <3>3
  <2> QED BY <2>1, <2>3, CalmKeeps
<1>5. CASE s = "snd"
  <2>1. Coming("snd")' = P /\ Coming("rcv")' = Coming("rcv")
    BY <1>5 DEF Peer
  <2>2. P = Coming("snd") \/ ~Lives("snd") \/ (At("rcv", "closed") /\ Prefix(P, Coming("snd")))
    BY <1>5 DEF Peer
  <2> HIDE DEF P
  <2>3. Dialogue(pc["snd"], pc["rcv"], err["snd"], Coming("rcv"), P, sent,
                 Units, cur, todo, want, Lengths, Farewells)
    <3>1. CASE P = Coming("snd")
      BY <1>2, <3>1
    <3>2. CASE ~Lives("snd")
      BY <1>2, <3>2 DEF Lives, Dialogue
    <3>3. CASE At("rcv", "closed") /\ Prefix(P, Coming("snd"))
      <4>1. pc["rcv"] \in Stopped /\ Prefix(P, Coming("snd"))
        BY <3>3 DEF At, Stopped, Ended
      <4> QED BY <1>1, <1>2, <1>3, <4>1, ReceiverCutOff
    <3> QED BY <2>2, <3>1, <3>2, <3>3
  <2>4. Coming("snd") \in Seq(Message)
    BY <1>1 DEF Fit
  <2>5. Lives("snd") /\ P # <<>> /\ Head(P) = FileAck(cur, "ok")
          => Coming("snd") # <<>> /\ Head(Coming("snd")) = FileAck(cur, "ok")
    BY <1>3, <2>2, <2>4, PrefixTail
  <2> QED BY <2>1, <2>3, <2>5, CalmKeeps
<1> QED BY <1>4, <1>5 DEF Side

LEMMA Across ==
  ASSUME NEW s \in Side
  PROVE  /\ Peer(s) \in Side /\ Peer(s) # s /\ Peer(Peer(s)) = s
         /\ \A t \in Side : t = s \/ t = Peer(s)
BY DEF Side, Peer

\* A message is taken from the network: it is heard, or dropped.
LEMMA MessageArrives ==
  ASSUME Interlock, NEW s \in Side, wire[s] # <<>>,
         wire' = [wire EXCEPT ![s] = Tail(@)], UNCHANGED <<linkVars, quiet, sides>>,
         \/ inbox' = [inbox EXCEPT ![s] = Append(@, Head(wire[s]))]
         \/ pump[s] = "off" /\ inbox' = inbox
  PROVE  Interlock'
<1>1. Calm /\ chan' = chan /\ closed' = closed /\ pump' = pump /\ ctx' = ctx /\ pending' = pending /\ pc' = pc
  BY DEF Calm, linkVars, quiet
<1>2. Basis /\ Lines /\ Link /\ Links
  BY Grounded DEF Basis
<1>3. wire[s] \in Seq(Message) /\ inbox[s] \in Seq(Message)
      /\ wire \in [Side -> Seq(Message)] /\ inbox \in [Side -> Seq(Message)]
      /\ pending \in [Side -> Seq(Message)]
  BY <1>2 DEF Lines
<1>4. Head(wire[s]) \in Message /\ Tail(wire[s]) \in Seq(Message)
  BY <1>3, HeadTailProperties
<1>5. Append(inbox[s], Head(wire[s])) \in Seq(Message)
  BY <1>3, <1>4, AppendProperties
<1>6. Lines'
  BY <1>1, <1>3, <1>4, <1>5 DEF Lines
<1>7. Link'
  BY <1>1, <1>2 DEF Link
<1>8. Links'
  <2>1. \A t \in Side : wire[t] = <<>> => wire'[t] = <<>>
    BY <1>3
  <2> QED BY <1>1, <1>2, <2>1 DEF Links, Lives, At
<1>9. Coming(Peer(s))' = Coming(Peer(s))
  BY <1>3, Across DEF Coming
<1>10. Coming(s)' \in Seq(Message)
  <2>1. wire'[s] \in Seq(Message) /\ inbox'[s] \in Seq(Message)
    BY <1>6 DEF Lines
  <2> QED BY <2>1, ConcatProperties DEF Coming
<1>11. Coming(s)' = Coming(s) \/ ~Lives(s)
  <2>1. CASE inbox' = [inbox EXCEPT ![s] = Append(@, Head(wire[s]))]
    BY <1>2, <2>1, ComingDelivered
  <2>2. CASE pump[s] = "off"
    BY <1>2, <2>2 DEF Links
  <2> QED BY <2>1, <2>2
<1> QED BY <1>1, <1>6, <1>7, <1>8, <1>9, <1>10, <1>11, CalmLoses

LEMMA NetworkDelivers ==
  ASSUME Interlock, NEW s \in Side, Reach(s)
  PROVE  Interlock'
<1>1. CASE Browser(s)
  BY <1>1, MessageArrives DEF Reach, BrowserDeliver
<1>2. CASE ~Browser(s)
  <2>1. Deliver(s) /\ UNCHANGED sides
    BY <1>2 DEF Reach
  <2> QED BY <2>1, MessageArrives DEF Deliver
<1> QED BY <1>1, <1>2

LEMMA NetworkLoses ==
  ASSUME Interlock, NEW s \in Side, LoseTail(s), UNCHANGED sides
  PROVE  Interlock'
<1>1. Calm /\ chan' = chan /\ closed' = closed /\ pump' = pump /\ ctx' = ctx
      /\ pending' = pending /\ pc' = pc /\ inbox' = inbox
  BY DEF LoseTail, Calm, linkVars, quiet
<1>2. Basis /\ Lines /\ Link /\ Links
  BY Grounded DEF Basis
<1>3. wire \in [Side -> Seq(Message)] /\ inbox \in [Side -> Seq(Message)]
      /\ pending \in [Side -> Seq(Message)] /\ wire[s] # <<>> /\ chan[s] = "open"
      /\ At(Peer(s), "closed")
  BY <1>2 DEF Lines, LoseTail
<1>4. PICK n \in 0..Len(wire[s])-1 : wire' = [wire EXCEPT ![s] = SubSeq(@, 1, n)]
  BY DEF LoseTail
<1>5. /\ Coming(s)' \in Seq(Message) /\ Len(Coming(s)') \in 0..Len(Coming(s))
      /\ \A k \in 1..Len(Coming(s)') : Coming(s)'[k] = Coming(s)[k]
  <2>1. inbox'[s] = inbox[s]
    BY <1>1
  <2> QED BY <1>2, <1>4, <2>1, ComingCut
<1>6. Prefix(Coming(s)', Coming(s))
  BY <1>5 DEF Prefix
<1>7. SubSeq(wire[s], 1, n) \in Seq(Message)
  <2>1. wire[s] \in Seq(Message) /\ Len(wire[s]) \in Nat
    BY <1>3, LenProperties
  <2>2. \A i \in 1..n : wire[s][i] \in Message
    BY <2>1, ElementOfSeq
  <2> QED BY <2>1, <2>2, SubSeqProperties
<1>8. Lines'
  BY <1>1, <1>3, <1>4, <1>7 DEF Lines
<1>9. Link'
  BY <1>1, <1>2 DEF Link
<1>10. Links'
  <2>1. \A t \in Side : chan[t] = "hook" => wire'[t] = wire[t]
    BY <1>3, <1>4
  <2> QED BY <1>1, <1>2, <2>1 DEF Links, Lives, At
<1>11. Coming(Peer(s))' = Coming(Peer(s))
  BY <1>1, <1>3, <1>4, Across DEF Coming
<1> QED BY <1>1, <1>3, <1>5, <1>6, <1>8, <1>9, <1>10, <1>11, CalmLoses

LEMMA CloseIsNoticed ==
  ASSUME Interlock, NEW s \in Side, NoticeClose(s)
  PROVE  Interlock'
<1>1. Calm /\ closed' = closed /\ pump' = pump /\ ctx' = ctx /\ wire' = wire
      /\ pending' = pending /\ pc' = pc /\ inbox' = inbox
  BY DEF NoticeClose, SeeClose, Calm, quiet
<1>2. Basis /\ Lines /\ Link /\ Links
  BY Grounded DEF Basis
<1>3. /\ At(Peer(s), "closed") /\ chan[s] = "open" /\ (wire[s] = <<>> \/ pump[s] = "none")
      /\ chan' = [chan EXCEPT ![s] = IF pump[s] = "none" THEN "closed" ELSE "hook"]
  BY DEF NoticeClose, SeeClose
<1>4. Lines' /\ Coming(Peer(s))' = Coming(Peer(s)) /\ Coming(s)' = Coming(s)
      /\ Coming(s) \in Seq(Message)
  BY <1>1, <1>2, ComingTyped DEF Lines, Coming
<1>5. Link'
  BY <1>1, <1>2, <1>3 DEF Link
<1>6. Links'
  <2>1. chan \in [Side -> {"open", "hook", "closed"}]
    BY <1>2 DEF Link
  <2>2. \A t \in Side : t # s => chan'[t] = chan[t]
    BY <1>3, <2>1
  <2>3. chan'[s] \in {"hook", "closed"} /\ (chan'[s] = "hook" => wire[s] = <<>>)
    BY <1>3, <2>1
  <2>4. ~closed[s]
    BY <1>2, <1>3 DEF Links
  <2> QED BY <1>1, <1>2, <1>3, <2>2, <2>3, <2>4 DEF Links, Lives, At
<1> QED BY <1>1, <1>4, <1>5, <1>6, CalmLoses

LEMMA UserCancels ==
  ASSUME Interlock, NEW s \in Side, CancelCtx(s), UNCHANGED sides
  PROVE  Interlock'
<1>1. Calm /\ closed' = closed /\ pump' = pump /\ chan' = chan /\ wire' = wire
      /\ pending' = pending /\ pc' = pc /\ inbox' = inbox /\ ctx' = [ctx EXCEPT ![s] = TRUE]
  BY DEF CancelCtx, Calm, sessionVars
<1>2. Basis /\ Lines /\ Link /\ Links
  BY Grounded DEF Basis
<1>3. Lines' /\ Coming(Peer(s))' = Coming(Peer(s)) /\ Coming(s)' = Coming(s)
      /\ Coming(s) \in Seq(Message)
  BY <1>1, <1>2, ComingTyped DEF Lines, Coming
<1>4. Link' /\ Links'
  BY <1>1, <1>2 DEF Link, Links, Lives, At
<1> QED BY <1>1, <1>3, <1>4, CalmLoses

\* OnClose has run.
LEMMA ClosedLinks ==
  ASSUME Links, Link, NEW s \in Side, chan[s] = "hook",
         chan' = [chan EXCEPT ![s] = "closed"], closed' = [closed EXCEPT ![s] = TRUE],
         UNCHANGED <<wire, pump, ctx, pc>>
  PROVE  Link' /\ Links' /\ wire[s] = <<>> /\ At(Peer(s), "closed")
<1>1. wire[s] = <<>> /\ At(Peer(s), "closed")
  BY DEF Links
<1>2. chan \in [Side -> {"open", "hook", "closed"}] /\ closed \in [Side -> BOOLEAN]
  BY DEF Link
<1>3. \A t \in Side : t # s => chan'[t] = chan[t] /\ closed'[t] = closed[t]
  BY <1>2
<1>4. chan'[s] = "closed"
  BY <1>2
<1>5. Link'
  BY <1>2 DEF Link
<1>6. Links'
  BY <1>1, <1>3, <1>4 DEF Links, Lives, At
<1> QED BY <1>1, <1>5, <1>6

LEMMA CloseIsHandled ==
  ASSUME Interlock, NEW s \in Side, OnClose(s)
  PROVE  Interlock'
<1>1. /\ Calm /\ UNCHANGED <<wire, pump, ctx, pc>> /\ pending' = pending /\ chan[s] = "hook"
      /\ chan' = [chan EXCEPT ![s] = "closed"] /\ closed' = [closed EXCEPT ![s] = TRUE]
  BY DEF OnClose, RunOnClose, BrowserOnClose, Calm, quiet
<1>2. \/ inbox' = inbox
      \/ inbox' = [inbox EXCEPT ![s] = <<Cancel>>] /\ pc[s] \in Waits /\ inbox[s] = <<>>
  BY DEF OnClose, RunOnClose, BrowserOnClose, Settled
<1>3. Basis /\ Lines /\ Link /\ Links
  BY Grounded DEF Basis
<1>4. Link' /\ Links' /\ wire[s] = <<>> /\ At(Peer(s), "closed")
  BY <1>1, <1>3, ClosedLinks
<1>5. /\ inbox \in [Side -> Seq(Message)] /\ wire \in [Side -> Seq(Message)]
      /\ pending \in [Side -> Seq(Message)] /\ wire' = wire
  BY <1>1, <1>3 DEF Lines
<1>6. CASE inbox' = inbox
  <2>1. Lines' /\ Coming(Peer(s))' = Coming(Peer(s)) /\ Coming(s)' = Coming(s)
        /\ Coming(s) \in Seq(Message)
    BY <1>1, <1>3, <1>5, <1>6, ComingTyped DEF Lines, Coming
  <2> QED BY <1>1, <1>4, <2>1, CalmLoses
<1>7. CASE inbox' = [inbox EXCEPT ![s] = <<Cancel>>] /\ pc[s] \in Waits /\ inbox[s] = <<>>
  <2>1. /\ Cancel \in Message /\ Cancel \in Farewells /\ Cancel # FileAck(cur, "ok")
    BY DEF Cancel, Message, Farewells, FileAck
  <2>2. <<Cancel>> \in Seq(Message) /\ Head(<<Cancel>>) = Cancel /\ <<>> \o <<Cancel>> = <<Cancel>>
    BY <2>1, Singles
  <2>3. Lines'
    BY <1>1, <1>5, <1>7, <2>2 DEF Lines
  <2>4. inbox'[s] = <<Cancel>> /\ inbox'[Peer(s)] = inbox[Peer(s)] /\ wire'[s] = <<>>
    BY <1>4, <1>5, <1>7, Across
  <2>5. Coming(Peer(s))' = Coming(Peer(s)) /\ Coming(s) = <<>> /\ Coming(s)' = <<Cancel>>
    <3>1. Coming(Peer(s))' = Coming(Peer(s))
      BY <1>5, <2>4 DEF Coming
    <3>2. <<>> \o <<>> = <<>> /\ <<Cancel>> \o <<>> = <<Cancel>>
      BY <2>2, ConcatEmptySeq, Grounded
    <3>3. Coming(s) = <<>>
      BY <1>4, <1>7, <3>2 DEF Coming
    <3>4. Coming(s)' = <<Cancel>>
      BY <2>4, <3>2 DEF Coming
    <3> QED BY <3>1, <3>3, <3>4
  <2>6. Lives(s)
    BY <1>7 DEF Waits, Lives, Stopped, Ended
  <2>7. Fit(Coming("rcv"), Coming("snd"), sent, Units, cur, want, Lengths)
    BY Grounded
  <2>8. Dialogue(pc["snd"], pc["rcv"], err["snd"], Coming("rcv"), Coming("snd"), sent,
                 Units, cur, todo, want, Lengths, Farewells)
    BY Grounded
  <2>9. CASE s = "rcv"
    <3>1. /\ Coming("rcv") = <<>> /\ Coming("rcv")' = <<Cancel>>
          /\ Coming("snd")' = Coming("snd") /\ pc["snd"] = "closed"
      BY <1>4, <2>5, <2>9 DEF Peer, At
    <3>2. Fit(<<>>, Coming("snd"), sent, Units, cur, want, Lengths)
      BY <2>7, <3>1
    <3>3. Dialogue("closed", pc["rcv"], err["snd"], <<>>, Coming("snd"), sent,
                   Units, cur, todo, want, Lengths, Farewells)
      BY <2>8, <3>1
    <3>4. Dialogue("closed", pc["rcv"], err["snd"], <<Cancel>>, Coming("snd"), sent,
                   Units, cur, todo, want, Lengths, Farewells)
      BY <3>2, <3>3, SenderCloses
    <3>5. Dialogue(pc["snd"], pc["rcv"], err["snd"], Coming("rcv")', Coming("snd")', sent,
                   Units, cur, todo, want, Lengths, Farewells)
      BY <3>1, <3>4
    <3> QED BY <1>1, <1>4, <2>3, <3>1, <3>5, CalmKeeps
  <2>10. CASE s = "snd"
    <3>1. /\ Coming("snd") = <<>> /\ Coming("snd")' = <<Cancel>>
          /\ Coming("rcv")' = Coming("rcv") /\ pc["rcv"] \in Stopped /\ pc["snd"] \notin Stopped
      BY <1>4, <2>5, <2>6, <2>10 DEF Peer, At, Lives, Stopped, Ended
    <3>2. Echo(pc["snd"], cur, Farewells, <<Cancel>>)
      <4>1. Echo(pc["snd"], cur, Farewells, <<>>)
        BY EmptyEcho
      <4>2. <<>> \in Seq(Message)
        BY Grounded
      <4>3. Echo(pc["snd"], cur, Farewells, <<>> \o <<Cancel>>)
        BY <2>1, <4>1, <4>2, EchoMore
      <4> QED BY <2>2, <4>3
    <3>3. Dialogue(pc["snd"], pc["rcv"], err["snd"], Coming("rcv")', Coming("snd")', sent,
                   Units, cur, todo, want, Lengths, Farewells)
      BY <3>1, <3>2 DEF Dialogue
    <3>4. ~(Head(Coming("snd")') = FileAck(cur, "ok"))
      BY <2>1, <2>2, <3>1
    <3> QED BY <1>1, <1>4, <2>3, <3>3, <3>4, CalmKeeps
  <2> QED BY <2>9, <2>10 DEF Side
<1> QED BY <1>2, <1>6, <1>7

\* Any length may follow from now on, and any complaint about it.
LEMMA FileChanges ==
  ASSUME Interlock, ChangeFile, UNCHANGED <<rcvVars, kind, part, results>>
  PROVE  Interlock'
<1>1. /\ UNCHANGED <<accepted, todo, cur, sent, buf>> /\ UNCHANGED <<kind, part, results>>
      /\ UNCHANGED <<meta, want, dest, dir, saved>>
      /\ UNCHANGED <<wire, inbox, pending, pc, err>> /\ UNCHANGED <<chan, closed, pump, ctx>>
  BY DEF ChangeFile, linkVars, sessionVars, rcvVars
<1>2. /\ Basis /\ Placed /\ Links /\ SenderHolds /\ ReceiverHolds /\ Stores /\ Verdicts
  BY Grounded
<1>3. PICK id \in Files : /\ disk[id] = Size[id] /\ OtherSize[id] # Size[id]
                          /\ disk' = [disk EXCEPT ![id] = OtherSize[id]]
  BY DEF ChangeFile
<1>4. disk' \in [Files -> Nat] /\ Changed'
  <2>1. disk \in [Files -> Nat] /\ OtherSize[id] \in Nat
    BY <1>2, SenderAssumption DEF Basis
  <2>2. disk'[id] # Size[id]
    BY <1>3, <2>1
  <2> QED BY <1>3, <2>1, <2>2 DEF Changed
<1>5. Lengths' = Nat /\ Farewells' = {Cancel, ErrorMsg("protocol")}
      /\ Lengths \subseteq Nat /\ Farewells \subseteq {Cancel, ErrorMsg("protocol")}
  <2>1. Lengths \in SUBSET Nat
    BY <1>2, LengthsTyped DEF Basis
  <2> QED BY <1>4, <2>1 DEF Lengths, Farewells
<1>6. Basis'
  <2>1. Lines'
    BY <1>1, <1>2 DEF Basis, Lines
  <2>2. Link'
    BY <1>1, <1>2 DEF Basis, Link
  <2> QED BY <1>1, <1>2, <1>4, <2>1, <2>2 DEF Basis
<1>7. Placed' /\ Links'
  BY <1>1, <1>2 DEF Placed, Place, Browser, Links, Lives, At
<1>8. Units' = Units /\ Coming("rcv")' = Coming("rcv") /\ Coming("snd")' = Coming("snd")
  BY <1>1 DEF Units, Part, Browser, Coming
<1>9. Talk'
  <2>1. Fit(Coming("rcv"), Coming("snd"), sent, Units, cur, want, Lengths)
    BY Grounded
  <2>2. Dialogue(pc["snd"], pc["rcv"], err["snd"], Coming("rcv"), Coming("snd"), sent,
                 Units, cur, todo, want, Lengths, Farewells)
    BY Grounded
  <2>3. Dialogue(pc["snd"], pc["rcv"], err["snd"], Coming("rcv"), Coming("snd"), sent,
                 Units, cur, todo, want, Lengths', Farewells')
    BY <1>5, <2>1, <2>2, DialogueGrows
  <2> QED BY <1>1, <1>8, <2>3 DEF Talk
<1>10. SenderHolds'
  <2>1. sent + buf \in Nat
    BY <1>2 DEF Basis
  <2> QED BY <1>1, <1>2, <1>5, <2>1 DEF SenderHolds, At
<1>11. ReceiverHolds'
  BY <1>1, <1>2 DEF ReceiverHolds, At, Part, Browser, SavedIds
<1>12. Stores'
  <2>1. (\A i : Held(i)' <=> Held(i)) /\ Lost' = Lost /\ Acked' = Acked /\ Lives("snd")' = Lives("snd")
    BY <1>1 DEF Held, Browser, SavedIds, Lost, Failed, Acked, Lives
  <2>2. \A i \in SavedIds' : /\ i \in Files /\ saved'[i] \in Paths
                             /\ dir'[saved'[i]] = FileData(i, Size[i])
    BY <1>1, <1>2 DEF Stores, SavedIds
  <2>3. \A i \in DOMAIN results' : i \in Files /\ results'[i] = FileData(i, Size[i])
    BY <1>1, <1>2 DEF Stores
  <2>4. Lost' \/ \A i \in Acked' : Held(i)'
    BY <1>2, <2>1 DEF Stores
  <2>5. (Lives("snd") /\ Coming("snd") # <<>> /\ Head(Coming("snd")) = FileAck(cur, "ok")
           => Lost \/ Held(cur))'
    BY <1>1, <1>2, <1>8, <2>1 DEF Stores
  <2> QED BY <2>2, <2>3, <2>4, <2>5 DEF Stores
<1>13. Verdicts'
  BY <1>1, <1>2, <1>4 DEF Verdicts, Lives, At, Failed, Browser
<1> QED BY <1>6, <1>7, <1>9, <1>10, <1>11, <1>12, <1>13 DEF Interlock

-----------------------------------------------------------------------------
(* The invariant holds, and what follows from it.                          *)

LEMMA InitInterlock == InteropInit => Interlock
<1> SUFFICES ASSUME InteropInit PROVE Interlock
  OBVIOUS
<1>1. /\ wire = [s \in Side |-> <<>>] /\ inbox = [s \in Side |-> <<>>]
      /\ pending = [s \in Side |-> <<>>] /\ chan = [s \in Side |-> "open"]
      /\ closed = [s \in Side |-> FALSE] /\ pump = [s \in Side |-> "none"]
      /\ ctx = [s \in Side |-> FALSE] /\ pc = [s \in Side |-> "init"]
      /\ err = [s \in Side |-> "none"]
  BY DEF InteropInit, Init, SessionInit
<1>2. /\ accepted = {} /\ todo = {} /\ cur = 0 /\ sent = 0 /\ buf = 0 /\ disk = Size
      /\ want = {} /\ dest = NoPath /\ dir = Before /\ saved = NoEntries
      /\ part = <<>> /\ results = NoEntries /\ kind \in [Side -> {"jsi", "browser"}]
  BY DEF InteropInit, Init, SenderInit, ReceiverInit
<1>3. "snd" \in Side /\ "rcv" \in Side /\ <<>> \in Seq(Message) /\ <<>> \in Content
  BY DEF Side, Content
<1>4. cur \in Files /\ disk \in [Files -> Nat]
  BY <1>2, SenderAssumption DEF Files
<1>5. Basis
  <2>1. Lines /\ \A s \in Side : pending[s] = <<>>
    BY <1>1, <1>3 DEF Lines
  <2>2. Link
    BY <1>1 DEF Link
  <2>3. pc \in [Side -> Labels \cup Waits \cup Others] /\ err \in [Side -> Errors \cup {"left"}]
    BY <1>1 DEF Labels, Errors
  <2>4. dir \in [Paths -> Content \cup {NoFile}]
    BY <1>2, ReceiverAssumption
  <2> QED BY <1>2, <1>3, <1>4, <2>1, <2>2, <2>3, <2>4 DEF Basis
<1>6. "init" \notin Stopped /\ "init" \in Unmet /\ "init" \in Opening /\ "init" \in Meeting
      /\ "init" \in Greeting
      /\ "init" \notin {"decide"} \cup Starting \cup Chunking \cup Finishing
  BY DEF Stopped, Ended, Unmet, Opening, Meeting, Greeting, Starting, Chunking, Finishing
<1>7. Placed
  BY <1>1 DEF Placed, Place, BrowserSender, JsiSender, BrowserReceiver, JsiReceiver, Greeting
<1>8. Links
  BY <1>1 DEF Links, Side, Peer
<1>9. Coming("rcv") = <<>> /\ Coming("snd") = <<>>
  BY <1>1, <1>3, ConcatEmptySeq DEF Coming
<1>10. Talk
  <2>1. SendAt("init", sent) = -4
    BY SendPoints
  <2>2. ReceiveAt("init", Units) = {-4}
    BY <1>6 DEF ReceiveAt
  <2>3. Trail(cur, want, Lengths, -4, -4, <<>>)
    <3>1. -4 \in Int
      OBVIOUS
    <3> QED BY <3>1, TrailEmpty
  <2>4. Between("init", "init", <<>>, sent, Units, cur, want, Lengths)
    BY <2>1, <2>2, <2>3 DEF Between
  <2>5. Hellos("init", "init", <<>>)
    BY <1>6 DEF Hellos
  <2>6. Turn("init", "init", <<>>, <<>>, sent, Units, cur, todo, want, Lengths)
    BY <1>6, <2>4, <2>5 DEF Turn, Opened
  <2>7. Dialogue("init", "init", "none", <<>>, <<>>, sent, Units, cur, todo, want, Lengths, Farewells)
    BY <1>6, <2>6 DEF Dialogue
  <2>8. pc["snd"] = "init" /\ pc["rcv"] = "init" /\ err["snd"] = "none"
    BY <1>1, <1>3
  <2> QED BY <1>9, <2>7, <2>8 DEF Talk
<1>11. SenderHolds
  BY <1>1, <1>3 DEF SenderHolds, At
<1>12. ReceiverHolds
  BY <1>1, <1>3, <1>6 DEF ReceiverHolds, At
<1>13. Stores
  BY <1>2, <1>9 DEF Stores, SavedIds, NoEntries, Acked
<1>14. Verdicts
  BY <1>1, <1>3, <1>6 DEF Verdicts, Lives, At, Failed, Peer, Side
<1> QED BY <1>5, <1>7, <1>8, <1>10, <1>11, <1>12, <1>13, <1>14 DEF Interlock

LEMMA NothingHappens ==
  ASSUME Interlock, UNCHANGED ivars
  PROVE  Interlock'
<1>1. /\ Calm /\ UNCHANGED <<wire, inbox, chan, closed, ctx>> /\ pump' = pump /\ pc' = pc
      /\ pending' = pending
  BY DEF ivars, vars, linkVars, sessionVars, Calm, sides
<1>2. Lines /\ Link /\ Links /\ "snd" \in Side
  BY Grounded DEF Basis
<1>3. Lines' /\ Coming("snd") \in Seq(Message)
  BY <1>1, <1>2, ComingTyped DEF Lines
<1>4. Link' /\ Links' /\ \A s : Coming(s)' = Coming(s)
  BY <1>1, <1>2 DEF Link, Links, Lives, At, Coming
<1> QED BY <1>1, <1>2, <1>3, <1>4, CalmLoses

LEMMA StepInterlock ==
  ASSUME Interlock, [InteropNext]_ivars
  PROVE  Interlock'
<1>1. ASSUME NEW s \in Side, Run(s)
      PROVE  Interlock'
  <2>1. CASE s = "snd" /\ Browser("snd")
    BY <1>1, <2>1, BrowserSenderSteps DEF Run
  <2>2. CASE s = "snd" /\ ~Browser("snd")
    BY <1>1, <2>2, JsiSenderSteps DEF Run
  <2>3. CASE s = "rcv" /\ Browser("rcv")
    BY <1>1, <2>3, BrowserReceiverSteps DEF Run
  <2>4. CASE s = "rcv" /\ ~Browser("rcv")
    BY <1>1, <2>4, JsiReceiverSteps DEF Run
  <2> QED BY <2>1, <2>2, <2>3, <2>4 DEF Side
<1>2. ASSUME NEW s \in Side, Back(s)
      PROVE  Interlock'
  BY <1>2, BrowserSenderGoesBack, BrowserReceiverGoesBack DEF Side
<1>3. CASE BufferedAmountLow
  <2>1. pc["snd"] = "b-low" /\ pc["snd"] \in Place("snd")
    BY <1>3, Grounded DEF BufferedAmountLow, At, Placed
  <2>2. Browser("snd")
    BY <2>1 DEF Place, JsiSender, Greeting, Filing, Ended
  <2> QED BY <1>3, <2>2, BrowserSenderSteps
<1>4. CASE UNCHANGED ivars
  BY <1>4, NothingHappens
<1> QED BY <1>1, <1>2, <1>3, <1>4, NetworkDelivers, CloseIsNoticed, CloseIsHandled,
           NetworkLoses, UserCancels, FileChanges DEF InteropNext

LEMMA InterlockShares ==
  ASSUME Interlock
  PROVE  SuccessIsShared
<1>1. SenderHolds /\ Stores /\ Verdicts /\ "snd" \in Side /\ "rcv" \in Side
  BY Grounded
<1>2. ASSUME err["rcv"] = "nil"
      PROVE  /\ err["snd"] = "nil"
             /\ \A id \in accepted : Held(id) /\ Bytes(id) = FileData(id, Size[id])
  <2>1. err["snd"] = "nil" /\ todo = {}
    BY <1>1, <1>2 DEF Verdicts, SenderHolds
  <2>2. \A id \in accepted : Held(id)
    BY <1>1, <1>2, <2>1 DEF Stores, Lost, Failed, Acked
  <2>3. ASSUME NEW id \in accepted
        PROVE  Bytes(id) = FileData(id, Size[id])
    BY <1>1, <2>2, <2>3 DEF Held, Bytes, Stores
  <2> QED BY <2>1, <2>2, <2>3
<1>3. ASSUME err["snd"] = "nil"
      PROVE  \/ \A id \in accepted : Held(id)
             \/ Browser("rcv") /\ (err["rcv"] = "left" \/ At("snd", "closed"))
  <2>1. todo = {} /\ ~Failed("snd") /\ Peer("rcv") = "snd"
    BY <1>1, <1>3 DEF SenderHolds, Failed, Peer
  <2>2. Lost \/ \A id \in accepted : Held(id)
    BY <1>1, <2>1 DEF Stores, Acked
  <2>3. CASE Lost
    <3>1. Browser("rcv") /\ Failed("rcv") /\ err["rcv"] # "local"
      BY <1>1, <2>3 DEF Lost, Verdicts
    <3>2. err["rcv"] = "left" \/ Failed(Peer("rcv")) \/ At(Peer("rcv"), "closed")
      BY <1>1, <3>1 DEF Verdicts
    <3> QED BY <2>1, <3>1, <3>2
  <2> QED BY <2>2, <2>3
<1> QED BY <1>2, <1>3 DEF SuccessIsShared

LEMMA InterlockAccuses ==
  ASSUME Interlock
  PROVE  NobodyIsAccused
<1> SUFFICES ASSUME ~Changed, NEW s \in Side
             PROVE  /\ err[s] \notin {"version", "hash-mismatch"}
                    /\ err[s] \in {"protocol", "peer-error"} =>
                         Browser(s) /\ (err[Peer(s)] \notin {"none", "nil"} \/ At(Peer(s), "closed"))
  BY DEF NobodyIsAccused, Changed
<1>1. /\ err[s] \notin {"version", "hash-mismatch"}
      /\ ~Browser(s) /\ err[s] \in {"protocol", "peer-error"} => Changed
      /\ Browser(s) /\ Failed(s) /\ err[s] \notin {"left", "local"}
           => Failed(Peer(s)) \/ At(Peer(s), "closed")
  BY Grounded DEF Verdicts
<1> QED BY <1>1 DEF Failed

LEMMA InterlockTypes ==
  ASSUME Interlock
  PROVE  InteropTypeOK
<1>1. Basis /\ Stores
  BY Grounded
<1>2. ASSUME NEW id \in DOMAIN results
      PROVE  id \in Files /\ results[id] \in Content
  <2>1. id \in Files /\ results[id] = FileData(id, Size[id])
    BY <1>1 DEF Stores
  <2>2. Size[id] \in Nat /\ id \in Int
    BY <2>1, SizesAreNat, FilesAreInts
  <2> QED BY <2>1, <2>2, FileDataAny
<1> QED BY <1>1, <1>2 DEF InteropTypeOK, Basis

\* From every start, whatever the two ends are and whatever the network and
\* the users do, what the two ends have said, heard and stored goes together.
THEOREM EndsInterlock == InteropSpec => []Interlock
<1>1. Interlock /\ [InteropNext]_ivars => Interlock'
  BY StepInterlock
<1> QED BY InitInterlock, <1>1, PTL DEF InteropSpec

\* The files a browser received are files of the sender, and what it is
\* receiving is made of units (transfer.ts: receive).
THEOREM InteropIsTyped == InteropSpec => []InteropTypeOK
BY EndsInterlock, InterlockTypes, PTL

\* A receiver that succeeds, browser or jsi, has every accepted file whole,
\* and its sender has succeeded; after a sender's success only a browser
\* that missed the done is without its files (transfer.ts: send, receive).
THEOREM EndsShareSuccess == InteropSpec => []SuccessIsShared
BY EndsInterlock, InterlockShares, PTL

\* No pair of ends takes the other for one that breaks TP/1 while the files
\* keep their lengths, but a browser whose peer failed or left
\* (transfer.ts: expectMessage; transfer.go: protocolError).
THEOREM EndsAccuseNobody == InteropSpec => []NobodyIsAccused
BY EndsInterlock, InterlockAccuses, PTL
=============================================================================
