----------------------------- MODULE ServerProofs -----------------------------
(**************************************************************************)
(* Proofs about two parts of the server, for any constants:               *)
(*   - Streams: the output of a run reaches everyone who watches it;      *)
(*   - CommitParsing: whatever the order in which the server learns of    *)
(*     repositories, branches, commits and tests, nothing is lost.        *)
(*                                                                        *)
(* The second needs an invariant (ParsingInv) of what the tasks leave     *)
(* behind: a commit that is loaded and not parsed waits for something     *)
(* that is missing or has a task, histories are loaded as a whole, and a  *)
(* repository whose branches changed has a webhook, a task or a fetch     *)
(* ahead of it.                                                           *)
(**************************************************************************)
EXTENDS Streams, SequenceTheorems, NaturalsInduction, WellFoundedInduction, TLAPS

------------------------------------------------------------------------------
(* Output (Streams) *)

(* What a log consists of, and what is on a connection. *)
Pieces == Int
Messages == [type : {"piece", "all"}, data : Seq(Int)]

------------------------------------------------------------------------------
(* Beginnings and ends of sequences, position by position. *)
Begins(s, t) == Len(s) <= Len(t) /\ \A i \in 1 .. Len(s) : s[i] = t[i]
Ends(s, t) == Len(s) <= Len(t) /\ \A i \in 1 .. Len(s) : s[i] = t[Len(t) - Len(s) + i]

(* The same as IsPrefix of the community modules. *)
LEMMA BeginsIsPrefix ==
  ASSUME NEW E, NEW s \in Seq(E), NEW t \in Seq(E), Begins(s, t)
  PROVE  IsPrefix(s, t)
<1>1. Len(s) \in Nat /\ Len(t) \in Nat /\ Len(s) <= Len(t)
  BY LenProperties DEF Begins
<1>2. /\ SubSeq(s, 1, Len(s)) \in Seq(E) /\ SubSeq(t, 1, Len(s)) \in Seq(E)
      /\ Len(SubSeq(s, 1, Len(s))) = Len(s) /\ Len(SubSeq(t, 1, Len(s))) = Len(s)
      /\ \A i \in 1 .. Len(s) : SubSeq(s, 1, Len(s))[i] = s[i] /\ SubSeq(t, 1, Len(s))[i] = t[i]
  BY <1>1
<1>3. SubSeq(s, 1, Len(s)) = SubSeq(t, 1, Len(s))
  BY <1>1, <1>2, SeqEqual DEF Begins
<1>4. QED  BY <1>1, <1>3 DEF IsPrefix

(* The same as IsSuffix, which looks at the sequences in reverse. *)
LEMMA EndsIsSuffix ==
  ASSUME NEW E, NEW s \in Seq(E), NEW t \in Seq(E), Ends(s, t)
  PROVE  IsSuffix(s, t)
<1>1. Len(s) \in Nat /\ Len(t) \in Nat /\ Len(s) <= Len(t)
  BY LenProperties DEF Ends
<1>2. ASSUME NEW u \in Seq(E)
      PROVE  /\ Reverse(u) \in Seq(E) /\ Len(Reverse(u)) = Len(u)
             /\ \A i \in 1 .. Len(u) : Reverse(u)[i] = u[(Len(u) - i) + 1]
  <2>1. Len(u) \in Nat /\ \A i \in 1 .. Len(u) : u[i] \in E /\ (Len(u) - i) + 1 \in 1 .. Len(u)
    BY LenProperties, ElementOfSeq
  <2>2. Reverse(u) \in [1 .. Len(u) -> E]
    BY <2>1 DEF Reverse
  <2>3. Reverse(u) \in Seq(E) /\ Len(Reverse(u)) = Len(u)
    <3>1. PICK n, r : n \in Nat /\ n = Len(u) /\ r = Reverse(u)
      BY <2>1
    <3>2. n \in Nat /\ r \in [1 .. n -> E]
      BY <2>2, <3>1
    <3>3. r \in Seq(E) /\ Len(r) = n
      BY <3>2
    <3>4. QED  BY <3>1, <3>3
  <2>4. QED  BY <2>3 DEF Reverse
<1>3. \A i \in 1 .. Len(s) : Reverse(s)[i] = Reverse(t)[i]
  <2> TAKE i \in 1 .. Len(s)
  <2>1. (Len(s) - i) + 1 \in 1 .. Len(s) /\ i \in 1 .. Len(t)
    BY <1>1
  <2>2. s[(Len(s) - i) + 1] = t[Len(t) - Len(s) + ((Len(s) - i) + 1)]
    BY <2>1 DEF Ends
  <2>3. Len(t) - Len(s) + ((Len(s) - i) + 1) = (Len(t) - i) + 1
    BY <1>1
  <2>4. QED  BY <1>2, <2>1, <2>2, <2>3
<1>4. Begins(Reverse(s), Reverse(t))
  BY <1>1, <1>2, <1>3 DEF Begins
<1>5. QED  BY <1>2, <1>4, BeginsIsPrefix DEF IsSuffix

(* What is added at the end of both. *)
LEMMA EndsConcat ==
  ASSUME NEW E, NEW s \in Seq(E), NEW t \in Seq(E), NEW u \in Seq(E), Ends(s, t)
  PROVE  Ends(s \o u, t \o u)
<1>1. /\ Len(s) \in Nat /\ Len(t) \in Nat /\ Len(u) \in Nat /\ Len(s) <= Len(t)
      /\ Len(s \o u) = Len(s) + Len(u) /\ Len(t \o u) = Len(t) + Len(u)
  BY LenProperties, ConcatProperties DEF Ends
<1>2. ASSUME NEW i \in 1 .. Len(s \o u)
      PROVE  (s \o u)[i] = (t \o u)[Len(t \o u) - Len(s \o u) + i]
  <2>1. Len(t \o u) - Len(s \o u) + i = Len(t) - Len(s) + i
    BY <1>1
  <2>2. CASE i \in 1 .. Len(s)
    <3>1. Len(t) - Len(s) + i \in 1 .. Len(t)
      BY <1>1, <2>2
    <3>2. (s \o u)[i] = s[i] /\ (t \o u)[Len(t) - Len(s) + i] = t[Len(t) - Len(s) + i]
      BY <1>1, <2>2, <3>1, ConcatProperties
    <3>3. QED  BY <2>1, <2>2, <3>2 DEF Ends
  <2>3. CASE i \notin 1 .. Len(s)
    <3>1. /\ i \in Len(s) + 1 .. Len(s) + Len(u)
          /\ Len(t) - Len(s) + i \in Len(t) + 1 .. Len(t) + Len(u)
          /\ (Len(t) - Len(s) + i) - Len(t) = i - Len(s)
      BY <1>1, <2>3
    <3>2. (s \o u)[i] = u[i - Len(s)] /\ (t \o u)[Len(t) - Len(s) + i] = u[i - Len(s)]
      BY <1>1, <3>1, ConcatProperties
    <3>3. QED  BY <2>1, <3>2
  <2>4. QED  BY <2>2, <2>3
<1>3. QED  BY <1>1, <1>2 DEF Ends

(* What is dropped at the beginning. *)
LEMMA EndsDrop ==
  ASSUME NEW E, NEW s \in Seq(E), NEW t \in Seq(E), Ends(s, t), NEW n \in Nat
  PROVE  SubSeq(s, n + 1, Len(s)) \in Seq(E) /\ Ends(SubSeq(s, n + 1, Len(s)), t)
<1>1. /\ Len(s) \in Nat /\ Len(t) \in Nat /\ Len(s) <= Len(t)
  BY LenProperties DEF Ends
<1>2. PICK d : d = SubSeq(s, n + 1, Len(s))
  OBVIOUS
<1>3. CASE n >= Len(s)
  <2>1. d = <<>>
    BY <1>1, <1>2, <1>3
  <2>2. Len(d) = 0 /\ d \in Seq(E)
    BY <2>1
  <2>3. Ends(d, t)
    BY <1>1, <2>2 DEF Ends
  <2>4. QED  BY <1>2, <2>2, <2>3
<1>4. CASE n < Len(s)
  <2>1. d \in Seq(E) /\ Len(d) = Len(s) - n /\ \A i \in 1 .. Len(s) - n : d[i] = s[n + i]
    BY <1>1, <1>2, <1>4
  <2>2. ASSUME NEW i \in 1 .. Len(d)
        PROVE  d[i] = t[Len(t) - Len(d) + i]
    <3>1. n + i \in 1 .. Len(s) /\ Len(t) - Len(s) + (n + i) = Len(t) - Len(d) + i
      BY <1>1, <1>4, <2>1
    <3>2. s[n + i] = t[Len(t) - Len(s) + (n + i)]
      BY <3>1 DEF Ends
    <3>3. QED  BY <2>1, <3>1, <3>2
  <2>3. Len(d) <= Len(t)
    BY <1>1, <1>4, <2>1
  <2>4. Ends(d, t)
    BY <2>2, <2>3 DEF Ends
  <2>5. QED  BY <1>2, <2>1, <2>4
<1>5. QED  BY <1>1, <1>3, <1>4

(* A beginning of a sequence is one of every continuation. *)
LEMMA BeginsConcat ==
  ASSUME NEW E, NEW s \in Seq(E), NEW t \in Seq(E), NEW u \in Seq(E), Begins(s, t)
  PROVE  Begins(s, t \o u)
<1>1. /\ Len(s) \in Nat /\ Len(t) \in Nat /\ Len(u) \in Nat /\ Len(s) <= Len(t)
      /\ Len(t \o u) = Len(t) + Len(u)
  BY LenProperties, ConcatProperties DEF Begins
<1>2. \A i \in 1 .. Len(s) : i \in 1 .. Len(t) /\ (t \o u)[i] = t[i]
  BY <1>1, ConcatProperties
<1>3. QED  BY <1>1, <1>2 DEF Begins

(* One more of the copy has been sent. *)
LEMMA BeginsLonger ==
  ASSUME NEW E, NEW s \in Seq(E), NEW t \in Seq(E), Begins(s, t), s # t
  PROVE  SubSeq(t, 1, Len(s) + 1) \in Seq(E) /\ Begins(SubSeq(t, 1, Len(s) + 1), t)
<1>1. Len(s) \in Nat /\ Len(t) \in Nat /\ Len(s) <= Len(t)
  BY LenProperties DEF Begins
<1>2. Len(s) # Len(t)
  BY <1>1, SeqEqual DEF Begins
<1>3. Len(s) + 1 \in 1 .. Len(t)
  BY <1>1, <1>2
<1>4. PICK u : u = SubSeq(t, 1, Len(s) + 1)
  OBVIOUS
<1>5. u \in Seq(E) /\ Len(u) = Len(s) + 1 /\ \A i \in 1 .. Len(s) + 1 : u[i] = t[i]
  BY <1>1, <1>3, <1>4
<1>6. Begins(u, t)
  BY <1>1, <1>3, <1>5 DEF Begins
<1>7. QED  BY <1>4, <1>5, <1>6

(* A beginning and the rest are the whole. *)
LEMMA BeginsAndRest ==
  ASSUME NEW E, NEW s \in Seq(E), NEW t \in Seq(E), Begins(s, t)
  PROVE  s \o SubSeq(t, Len(s) + 1, Len(t)) = t
<1>1. Len(s) \in Nat /\ Len(t) \in Nat /\ Len(s) <= Len(t)
  BY LenProperties DEF Begins
<1>2. PICK u : u = SubSeq(t, Len(s) + 1, Len(t))
  OBVIOUS
<1>3. /\ u \in Seq(E) /\ Len(u) = Len(t) - Len(s)
      /\ \A i \in 1 .. Len(t) - Len(s) : u[i] = t[Len(s) + i]
  BY <1>1, <1>2
<1>4. /\ s \o u \in Seq(E) /\ Len(s \o u) = Len(t)
      /\ \A i \in 1 .. Len(t) : (s \o u)[i] = IF i <= Len(s) THEN s[i] ELSE u[i - Len(s)]
  BY <1>1, <1>3, ConcatProperties
<1>5. ASSUME NEW i \in 1 .. Len(t) PROVE (s \o u)[i] = t[i]
  <2>1. CASE i <= Len(s)
    <3>1. i \in 1 .. Len(s)
      BY <1>1, <2>1
    <3>2. QED  BY <1>4, <2>1, <3>1 DEF Begins
  <2>2. CASE ~(i <= Len(s))
    <3>1. i - Len(s) \in 1 .. Len(t) - Len(s) /\ Len(s) + (i - Len(s)) = i
      BY <1>1, <2>2
    <3>2. QED  BY <1>3, <1>4, <2>2, <3>1
  <2>3. QED  BY <2>1, <2>2
<1>6. s \o u = t
  BY <1>4, <1>5, SeqEqual
<1>7. QED  BY <1>2, <1>6

(* A beginning of a beginning. *)
LEMMA BeginsTransitive ==
  ASSUME NEW E, NEW s \in Seq(E), NEW t \in Seq(E), NEW u \in Seq(E),
         Begins(s, t), Begins(t, u)
  PROVE  Begins(s, u)
<1>1. /\ Len(s) \in Nat /\ Len(t) \in Nat /\ Len(u) \in Nat
      /\ Len(s) <= Len(t) /\ Len(t) <= Len(u)
  BY LenProperties DEF Begins
<1>2. \A i \in 1 .. Len(s) : i \in 1 .. Len(t)
  BY <1>1
<1>3. QED  BY <1>1, <1>2 DEF Begins

------------------------------------------------------------------------------
(* The invariant *)

TypeInv ==
    /\ kind \in {"test", "deployment"}
    /\ outputs \in Nat
    /\ wire \in Seq(Messages) /\ old \in Seq(Messages)
    /\ buffer \in Seq(Pieces)
    /\ watcher \in [Watchers -> [pc : {"no", "sending", "on"}, copy : Seq(Pieces),
                                 got : Seq(Pieces)]]
    /\ damaged \in BOOLEAN

(* Who subscribes to a deployment has received a beginning of the copy, which *)
(* is a beginning of the buffer; who has subscribed has received all of it.   *)
(* A test forgets the beginning of its log and has no copies.                *)
Served(w) ==
    /\ watcher[w].pc = "no" => watcher[w].got = <<>>
    /\ kind = "test" => /\ watcher[w].pc # "sending"
                        /\ watcher[w].pc = "on" => Ends(buffer, watcher[w].got)
    /\ kind = "deployment" =>
          /\ watcher[w].pc = "on" => watcher[w].got = buffer
          /\ watcher[w].pc = "sending" => /\ Begins(watcher[w].copy, buffer)
                                          /\ Begins(watcher[w].got, watcher[w].copy)
WatcherInv == \A w \in Watchers : Served(w)

(* How many pieces the session has read or will have read when it comes to   *)
(* the first message that is a single piece.                                *)
AllFirst == wire # <<>> /\ wire[1].type = "all"
Base == IF AllFirst THEN outputs - Len(wire) + 1 ELSE outputs - Len(wire)

(* Only the first message on a connection can hold everything; the others    *)
(* are the latest pieces, in order. What an old session may still read is    *)
(* what the new one is told as well.                                        *)
IsPiece(data, n) == data = <<n>> \/ data = <<Return, n>>
InOrder(j) ==
    \/ /\ wire[j].type = "piece"
       /\ IsPiece(wire[j].data, outputs - Len(wire) + j)
    \/ /\ j = 1 /\ wire[1].type = "all"
       /\ Len(wire[1].data) = Base
       /\ \A i \in 1 .. Base : wire[1].data[i] = i
Repeats(j) == old[j].type = "piece" /\ \E n \in 1 .. Base : IsPiece(old[j].data, n)
WireInv ==
    /\ Base \in Nat
    /\ \A j \in 1 .. Len(wire) : InOrder(j)
    /\ \A j \in 1 .. Len(old) : Repeats(j)

(* The pieces in the first i entries of a log; a log that holds pieces 1 to n *)
(* in order, each once, with anything between them.                         *)
PiecesIn(b, i) == {b[j] : j \in {k \in 1 .. i : b[k] > 0}}
Log(b, n) ==
    /\ PiecesIn(b, Len(b)) = 1 .. n
    /\ \A i \in 1 .. Len(b) : b[i] > 0 => PiecesIn(b, i - 1) = 1 .. (b[i] - 1)
    /\ (\A i \in 1 .. Len(b) : b[i] > 0) => Len(b) = n /\ \A i \in 1 .. Len(b) : b[i] = i

(* The log holds what was written, up to where the session is. *)
LogInv == ~damaged =>
    \E n \in Nat : Log(buffer, n) /\ n <= Base /\ (~AllFirst => n = Base)

Inv == TypeInv /\ WatcherInv /\ WireInv /\ LogInv

------------------------------------------------------------------------------
(* addMessage: everyone who watches is told what the buffer gains. *)
LEMMA AddMessageServes ==
  ASSUME TypeInv, WatcherInv, Oldest \in Nat, NEW data \in Seq(Pieces),
         AddMessage(data), kind' = kind
  PROVE  /\ buffer' \in Seq(Pieces)
         /\ watcher' \in [Watchers -> [pc : {"no", "sending", "on"}, copy : Seq(Pieces),
                                       got : Seq(Pieces)]]
         /\ WatcherInv'
<1>1. buffer \o data \in Seq(Pieces)
  BY ConcatProperties DEF TypeInv
<1>2. buffer' \in Seq(Pieces)
  <2>1. CASE kind = "test" /\ Len(buffer \o data) > MaxMessages
    <3>1. buffer' = SubSeq(buffer \o data, Oldest + 1, Len(buffer \o data))
      BY <2>1 DEF AddMessage, Trimmed
    <3>2. QED  BY <1>1, <3>1
  <2>2. CASE ~(kind = "test" /\ Len(buffer \o data) > MaxMessages)
    BY <1>1, <2>2 DEF AddMessage, Trimmed
  <2>3. QED  BY <2>1, <2>2
<1>3. PICK failing : watcher' = Told(data, failing)
  BY DEF AddMessage
<1>4. ASSUME NEW w \in Watchers
      PROVE  /\ watcher'[w] \in [pc : {"no", "sending", "on"}, copy : Seq(Pieces),
                                 got : Seq(Pieces)]
             /\ Served(w)'
  <2>0. /\ watcher[w] \in [pc : {"no", "sending", "on"}, copy : Seq(Pieces), got : Seq(Pieces)]
        /\ Served(w)
    BY DEF TypeInv, WatcherInv
  <2>1. CASE watcher[w].pc # "on"
    <3>1. watcher'[w] = watcher[w]
      BY <1>3, <2>1 DEF Told
    <3>2. CASE kind = "deployment" /\ watcher[w].pc = "sending"
      <4>1. buffer' = buffer \o data
        BY <3>2 DEF AddMessage, Trimmed
      <4>2. Begins(watcher[w].copy, buffer)
        BY <2>0, <3>2 DEF Served
      <4>3. Begins(watcher[w].copy, buffer')
        BY <2>0, <4>1, <4>2, BeginsConcat DEF TypeInv
      <4>4. QED  BY <2>0, <3>1, <3>2, <4>3 DEF Served
    <3>3. CASE ~(kind = "deployment" /\ watcher[w].pc = "sending")
      BY <2>0, <2>1, <3>1, <3>3 DEF Served
    <3>4. QED  BY <3>2, <3>3
  <2>2. CASE watcher[w].pc = "on" /\ w \in failing
    <3>1. watcher'[w] = NotYet
      BY <1>3, <2>2 DEF Told
    <3>2. QED  BY <3>1 DEF Served, NotYet
  <2>3. CASE watcher[w].pc = "on" /\ w \notin failing
    <3>1. watcher'[w] = [watcher[w] EXCEPT !.got = @ \o data]
      BY <1>3, <2>3 DEF Told
    <3>2. /\ watcher'[w] \in [pc : {"no", "sending", "on"}, copy : Seq(Pieces), got : Seq(Pieces)]
          /\ watcher'[w].pc = "on" /\ watcher'[w].got = watcher[w].got \o data
      <4>1. watcher[w].got \in Seq(Pieces)
        BY <2>0
      <4>2. watcher[w].got \o data \in Seq(Pieces)
        BY <4>1, ConcatProperties
      <4>3. QED  BY <2>0, <2>3, <3>1, <4>2
    <3>3. CASE kind = "deployment"
      <4>1. buffer' = buffer \o data
        BY <3>3 DEF AddMessage, Trimmed
      <4>2. QED  BY <2>0, <2>3, <3>2, <3>3, <4>1 DEF Served
    <3>4. CASE kind = "test"
      <4>1. Ends(buffer \o data, watcher'[w].got)
        BY <2>0, <2>3, <3>2, <3>4, EndsConcat DEF Served, TypeInv
      <4>2. Ends(buffer', watcher'[w].got)
        <5>1. CASE Len(buffer \o data) > MaxMessages
          <6>1. buffer' = SubSeq(buffer \o data, Oldest + 1, Len(buffer \o data))
            BY <3>4, <5>1 DEF AddMessage, Trimmed
          <6>2. QED  BY <1>1, <3>2, <4>1, <6>1, EndsDrop
        <5>2. CASE ~(Len(buffer \o data) > MaxMessages)
          BY <3>4, <4>1, <5>2 DEF AddMessage, Trimmed
        <5>3. QED  BY <5>1, <5>2
      <4>3. QED  BY <3>2, <3>4, <4>2 DEF Served
    <3>5. QED  BY <3>3, <3>4 DEF TypeInv
  <2>4. QED  BY <2>1, <2>2, <2>3
<1>5. watcher' = [w \in Watchers |-> watcher'[w]]
  BY <1>3 DEF Told
<1>6. watcher' \in [Watchers -> [pc : {"no", "sending", "on"}, copy : Seq(Pieces),
                                 got : Seq(Pieces)]]
  BY <1>4, <1>5, Zenon
<1>7. WatcherInv'
  BY <1>4 DEF WatcherInv
<1>8. QED  BY <1>2, <1>6, <1>7

(* What is on a connection can be put in a buffer. *)
LEMMA DataIsPieces ==
  ASSUME NEW q \in Seq(Messages), NEW j \in 1 .. Len(q)
  PROVE  q[j].data \in Seq(Int) /\ q[j].data \in Seq(Pieces)
<1>1. q[j] \in Messages
  BY ElementOfSeq
<1>2. q[j].data \in Seq(Int)
  BY <1>1 DEF Messages
<1>3. QED  BY <1>2 DEF Pieces

(* One message less: what is left are the latest pieces, in order. *)
LEMMA TailInOrder ==
  ASSUME TypeInv, WireInv, wire # <<>>, wire' = Tail(wire), outputs' = outputs
  PROVE  /\ wire' \in Seq(Messages) /\ ~AllFirst'
         /\ \A j \in 1 .. Len(wire') : InOrder(j)'
         /\ Base' = outputs - Len(wire) + 1
         /\ Base' \in Nat /\ Base <= Base'
<1>1. /\ wire \in Seq(Messages) /\ Len(wire) \in Nat /\ Len(wire) >= 1 /\ outputs \in Nat
  BY LenProperties, EmptySeq DEF TypeInv
<1>2. /\ wire' \in Seq(Messages) /\ Len(wire') = Len(wire) - 1
      /\ \A j \in 1 .. Len(wire) - 1 : wire'[j] = wire[j + 1]
  BY <1>1
<1>3. ASSUME NEW j \in 1 .. Len(wire')
      PROVE  wire'[j].type = "piece" /\ IsPiece(wire'[j].data, outputs' - Len(wire') + j)
  <2>1. j + 1 \in 1 .. Len(wire) /\ j + 1 # 1 /\ outputs - Len(wire) + (j + 1) = outputs - Len(wire') + j
    BY <1>1, <1>2
  <2>2. InOrder(j + 1)
    BY <2>1 DEF WireInv
  <2>3. wire[j + 1].type = "piece" /\ IsPiece(wire[j + 1].data, outputs - Len(wire) + (j + 1))
    BY <2>1, <2>2 DEF InOrder
  <2>4. wire'[j] = wire[j + 1]
    BY <1>2
  <2>5. QED  BY <2>1, <2>3, <2>4
<1>4. ~AllFirst'
  <2>1. CASE wire' = <<>>
    BY <2>1 DEF AllFirst
  <2>2. CASE wire' # <<>>
    <3>1. 1 \in 1 .. Len(wire')
      BY <1>2, <2>2, EmptySeq
    <3>2. QED  BY <1>3, <3>1 DEF AllFirst
  <2>3. QED  BY <2>1, <2>2
<1>5. Base' = outputs - Len(wire) + 1
  BY <1>1, <1>2, <1>4 DEF Base
<1>6. Base' \in Nat /\ Base <= Base'
  BY <1>1, <1>5 DEF WireInv, Base
<1>7. QED  BY <1>2, <1>3, <1>4, <1>5, <1>6 DEF InOrder

(* A log that holds nothing but everything. *)
LEMMA LogCounts ==
  ASSUME NEW b \in Seq(Pieces), \A i \in 1 .. Len(b) : b[i] = i
  PROVE  Log(b, Len(b))
<1>1. Len(b) \in Nat
  BY LenProperties
<1>2. ASSUME NEW i \in 0 .. Len(b) PROVE PiecesIn(b, i) = 1 .. i
  <2>1. \A j \in 1 .. i : j \in 1 .. Len(b) /\ b[j] = j /\ b[j] > 0
    BY <1>1
  <2>2. QED  BY <2>1 DEF PiecesIn
<1>3. \A i \in 1 .. Len(b) : i - 1 \in 0 .. Len(b) /\ b[i] - 1 = i - 1
  BY <1>1
<1>4. Len(b) \in 0 .. Len(b)
  BY <1>1
<1>5. PiecesIn(b, Len(b)) = 1 .. Len(b)
  BY <1>2, <1>4
<1>6. \A i \in 1 .. Len(b) : PiecesIn(b, i - 1) = 1 .. (b[i] - 1)
  BY <1>2, <1>3
<1>7. QED  BY <1>5, <1>6 DEF Log

(* A log that holds nothing. *)
LEMMA EmptyLog == Log(<<>>, 0)
<1>1. Len(<<>>) = 0 /\ <<>> \in Seq(Pieces)
  OBVIOUS
<1>2. \A i \in 1 .. Len(<<>>) : <<>>[i] = i
  BY <1>1
<1>3. QED  BY <1>1, <1>2, LogCounts

(* A log that gets one entry more. *)
Longer(c, b, x) ==
    /\ c \in Seq(Pieces) /\ Len(c) = Len(b) + 1 /\ Len(b) \in Nat
    /\ c[Len(b) + 1] = x /\ \A i \in 1 .. Len(b) : c[i] = b[i]
    /\ \A i \in 0 .. Len(b) : PiecesIn(c, i) = PiecesIn(b, i)
    /\ x > 0 => PiecesIn(c, Len(c)) = PiecesIn(b, Len(b)) \cup {x}
    /\ ~(x > 0) => PiecesIn(c, Len(c)) = PiecesIn(b, Len(b))
LEMMA OneMore ==
  ASSUME NEW b \in Seq(Pieces), NEW x \in Pieces, NEW c, c = b \o <<x>>
  PROVE  Longer(c, b, x)
<1>1. <<x>> \in Seq(Pieces) /\ Len(<<x>>) = 1 /\ <<x>>[1] = x
  OBVIOUS
<1>2. /\ c \in Seq(Pieces) /\ Len(b) \in Nat /\ Len(c) = Len(b) + 1
      /\ c[Len(b) + 1] = x /\ \A i \in 1 .. Len(b) : c[i] = b[i]
  BY <1>1, LenProperties, ConcatProperties
<1>3. ASSUME NEW i \in 0 .. Len(b) PROVE PiecesIn(c, i) = PiecesIn(b, i)
  <2>1. \A j \in 1 .. i : c[j] = b[j]
    BY <1>2
  <2>2. QED  BY <2>1 DEF PiecesIn
<1>4. /\ x > 0 => PiecesIn(c, Len(c)) = PiecesIn(b, Len(b)) \cup {x}
      /\ ~(x > 0) => PiecesIn(c, Len(c)) = PiecesIn(b, Len(b))
  <2>1. \A j : j \in 1 .. Len(c) <=> j \in 1 .. Len(b) \/ j = Len(b) + 1
    BY <1>2
  <2>2. QED  BY <1>2, <2>1 DEF PiecesIn
<1>5. QED  BY <1>2, <1>3, <1>4 DEF Longer

(* A log that gets an entry which is no output. *)
LEMMA LogForeign ==
  ASSUME NEW b \in Seq(Pieces), NEW n \in Nat, Log(b, n), NEW x \in Pieces, ~(x > 0)
  PROVE  Log(b \o <<x>>, n)
<1>1. PICK c : c = b \o <<x>>
  OBVIOUS
<1>2. /\ Len(c) = Len(b) + 1 /\ Len(b) \in Nat
      /\ c[Len(b) + 1] = x /\ \A i \in 1 .. Len(b) : c[i] = b[i]
      /\ \A i \in 0 .. Len(b) : PiecesIn(c, i) = PiecesIn(b, i)
      /\ PiecesIn(c, Len(c)) = PiecesIn(b, Len(b))
  <2>1. Longer(c, b, x)
    BY <1>1, OneMore, Zenon
  <2>2. QED  BY <2>1 DEF Longer
<1>3. PiecesIn(c, Len(c)) = 1 .. n
  BY <1>2 DEF Log
<1>4. ASSUME NEW i \in 1 .. Len(c), c[i] > 0 PROVE PiecesIn(c, i - 1) = 1 .. (c[i] - 1)
  <2>1. i \in 1 .. Len(b) /\ i - 1 \in 0 .. Len(b)
    BY <1>2, <1>4
  <2>2. QED  BY <1>2, <1>4, <2>1 DEF Log
<1>5. Len(c) \in 1 .. Len(c) /\ ~(c[Len(c)] > 0)
  BY <1>2
<1>6. Log(c, n)
  BY <1>3, <1>4, <1>5 DEF Log
<1>7. QED  BY <1>1, <1>6

(* A log that gets the next piece. *)
LEMMA LogNext ==
  ASSUME NEW b \in Seq(Pieces), NEW n \in Nat, Log(b, n)
  PROVE  Log(b \o <<n + 1>>, n + 1)
<1>1. PICK x \in Pieces : x = n + 1 /\ x > 0
  BY DEF Pieces
<1>2. PICK c : c = b \o <<x>>
  OBVIOUS
<1>3. /\ Len(c) = Len(b) + 1 /\ Len(b) \in Nat
      /\ c[Len(b) + 1] = x /\ \A i \in 1 .. Len(b) : c[i] = b[i]
      /\ \A i \in 0 .. Len(b) : PiecesIn(c, i) = PiecesIn(b, i)
      /\ PiecesIn(c, Len(c)) = PiecesIn(b, Len(b)) \cup {x}
  <2>1. Longer(c, b, x)
    BY <1>2, OneMore, Zenon
  <2>2. QED  BY <1>1, <2>1 DEF Longer
<1>4. PiecesIn(b, Len(b)) = 1 .. n
  BY DEF Log
<1>5. PiecesIn(c, Len(c)) = 1 .. x
  <2>1. 1 .. x = (1 .. n) \cup {x}
    BY <1>1
  <2>2. QED  BY <1>3, <1>4, <2>1
<1>6. ASSUME NEW i \in 1 .. Len(c), c[i] > 0 PROVE PiecesIn(c, i - 1) = 1 .. (c[i] - 1)
  <2>1. CASE i \in 1 .. Len(b)
    <3>1. i - 1 \in 0 .. Len(b)
      BY <1>3, <2>1
    <3>2. QED  BY <1>3, <1>6, <2>1, <3>1 DEF Log
  <2>2. CASE i \notin 1 .. Len(b)
    <3>1. i - 1 = Len(b) /\ i - 1 \in 0 .. Len(b) /\ c[i] - 1 = n
      BY <1>1, <1>3, <2>2
    <3>2. QED  BY <1>3, <1>4, <3>1
  <2>3. QED  BY <2>1, <2>2
<1>7. ASSUME \A i \in 1 .. Len(c) : c[i] > 0
      PROVE  Len(c) = x /\ \A i \in 1 .. Len(c) : c[i] = i
  <2>1. \A i \in 1 .. Len(b) : i \in 1 .. Len(c) /\ b[i] > 0
    BY <1>3, <1>7
  <2>2. Len(b) = n /\ \A i \in 1 .. Len(b) : b[i] = i
    BY <2>1 DEF Log
  <2>3. QED  BY <1>1, <1>3, <2>2
<1>8. Log(c, x)
  BY <1>5, <1>6, <1>7 DEF Log
<1>9. QED  BY <1>1, <1>2, <1>8

(* A log that gets the next piece, with its line ends changed or not. *)
LEMMA LogPiece ==
  ASSUME NEW b \in Seq(Pieces), NEW n \in Nat, Log(b, n), NEW data, IsPiece(data, n + 1)
  PROVE  Log(b \o data, n + 1) /\ data \in Seq(Pieces)
<1>1. CASE data = <<n + 1>>
  <2>1. n + 1 \in Pieces
    BY DEF Pieces
  <2>2. QED  BY <1>1, <2>1, LogNext
<1>2. CASE data = <<Return, n + 1>>
  <2>1. n + 1 \in Pieces /\ Return \in Pieces /\ ~(Return > 0)
    BY DEF Pieces, Return
  <2>2. PICK c : c = b \o <<Return>>
    OBVIOUS
  <2>3. Log(c, n) /\ c \in Seq(Pieces)
    <3>1. Longer(c, b, Return)
      BY <2>1, <2>2, OneMore, Zenon
    <3>2. QED  BY <2>1, <2>2, <3>1, LogForeign DEF Longer
  <2>4. Log(c \o <<n + 1>>, n + 1)
    BY <2>3, LogNext
  <2>5. c \o <<n + 1>> = b \o data
    <3>1. PICK r \in Pieces : r = Return
      BY <2>1
    <3>0. PICK x \in Pieces : x = n + 1
      BY <2>1
    <3>2. <<r>> \in Seq(Pieces) /\ <<x>> \in Seq(Pieces)
      OBVIOUS
    <3>3. <<r>> \o <<x>> = <<r, x>>
      <4>1. PICK y, z, t : y = <<r>> /\ z = <<x>> /\ t = <<r, x>>
        OBVIOUS
      <4>2. /\ y \in Seq(Pieces) /\ z \in Seq(Pieces) /\ t \in Seq(Pieces)
            /\ Len(y) = 1 /\ Len(z) = 1 /\ Len(t) = 2
            /\ y[1] = r /\ z[1] = x /\ t[1] = r /\ t[2] = x
        BY <4>1
      <4>3. /\ y \o z \in Seq(Pieces) /\ Len(y \o z) = 2
            /\ (y \o z)[1] = r /\ (y \o z)[2] = x
        <5>1. /\ y \o z \in Seq(Pieces) /\ Len(y \o z) = Len(y) + Len(z)
              /\ \A i \in 1 .. Len(y) + Len(z) :
                    (y \o z)[i] = IF i <= Len(y) THEN y[i] ELSE z[i - Len(y)]
          BY <4>2, ConcatProperties
        <5>2. Len(y) + Len(z) = 2 /\ 1 \in 1 .. 2 /\ 2 \in 1 .. 2 /\ 2 - 1 = 1
          BY <4>2
        <5>3. QED  BY <4>2, <5>1, <5>2
      <4>4. y \o z = t
        BY <4>2, <4>3, SeqEqual
      <4>5. QED  BY <4>1, <4>4
    <3>4. (b \o <<r>>) \o <<x>> = b \o (<<r>> \o <<x>>)
      BY <3>2, ConcatAssociative
    <3>5. QED  BY <1>2, <2>2, <3>0, <3>1, <3>3, <3>4
  <2>6. data \in Seq(Pieces)
    BY <1>2, <2>1
  <2>7. QED  BY <2>4, <2>5, <2>6
<1>3. QED  BY <1>1, <1>2 DEF IsPiece

(* Up to where the numbers go. *)
LEMMA SameUpTo ==
  ASSUME NEW n \in Nat, NEW m \in Nat, 1 .. n = 1 .. m
  PROVE  n = m
<1>1. n >= 1 => n \in 1 .. m
  BY n \in 1 .. n \/ n < 1
<1>2. m >= 1 => m \in 1 .. n
  BY m \in 1 .. m \/ m < 1
<1>3. QED  BY <1>1, <1>2

------------------------------------------------------------------------------
(* One lemma for each kind of step. *)

(* The old session repeats what the new one is told, whatever that has got to. *)
LEMMA OldRepeats ==
  ASSUME WireInv, Base \in Nat, Base' \in Nat, Base <= Base', old' = old
  PROVE  \A j \in 1 .. Len(old') : Repeats(j)'
<1>1. ASSUME NEW j \in 1 .. Len(old) PROVE Repeats(j)'
  <2>1. old[j].type = "piece" /\ \E n \in 1 .. Base : IsPiece(old[j].data, n)
    BY DEF WireInv, Repeats
  <2>2. PICK n \in 1 .. Base : IsPiece(old[j].data, n)
    BY <2>1
  <2>3. n \in 1 .. Base'
    OBVIOUS
  <2>4. old'[j].type = "piece" /\ IsPiece(old'[j].data, n)
    BY <2>1, <2>2
  <2>5. QED  BY <2>3, <2>4 DEF Repeats
<1>2. QED  BY <1>1

(* The session reads a message: a piece that comes next, or the rest of all. *)
LEMMA DeliverStep ==
  ASSUME Inv, Deliver, kind' = kind, Oldest \in Nat
  PROVE  Inv'
<1> USE DEF Inv
<1>1. /\ wire \in Seq(Messages) /\ Len(wire) \in Nat /\ Len(wire) >= 1
      /\ 1 \in 1 .. Len(wire) /\ wire # <<>> /\ Head(wire) = wire[1]
      /\ buffer \in Seq(Pieces) /\ Len(buffer) \in Nat
      /\ outputs \in Nat /\ outputs' = outputs /\ old' = old
      /\ wire' = Tail(wire)
  BY LenProperties, EmptySeq DEF TypeInv, Deliver
<1>2. /\ wire' \in Seq(Messages) /\ ~AllFirst'
      /\ \A j \in 1 .. Len(wire') : InOrder(j)'
      /\ Base' = outputs - Len(wire) + 1
      /\ Base \in Nat /\ Base' \in Nat /\ Base <= Base'
  BY <1>1, TailInOrder DEF WireInv
<1>3. PICK all : all = wire[1].data
  OBVIOUS
<1>4. all \in Seq(Int) /\ all \in Seq(Pieces)
  BY <1>1, <1>3, DataIsPieces
<1>5. PICK data : /\ data = IF wire[1].type = "all" THEN Missing(all) ELSE all
                  /\ AddMessage(data)
                  /\ damaged' = (damaged \/ TrimmedBy(data)
                                         \/ (wire[1].type = "all" /\ ~OnlyOutput))
  BY <1>1, <1>3 DEF Deliver
<1>6. data \in Seq(Pieces)
  <2>1. SubSeq(all, Len(buffer) + 1, Len(all)) \in Seq(Pieces)
    BY <1>1, <1>4
  <2>2. QED  BY <1>4, <1>5, <2>1 DEF Missing
<1>7. /\ buffer' \in Seq(Pieces)
      /\ watcher' \in [Watchers -> [pc : {"no", "sending", "on"}, copy : Seq(Pieces),
                                    got : Seq(Pieces)]]
      /\ WatcherInv'
  BY <1>5, <1>6, AddMessageServes
<1>8. TypeInv'
  BY <1>1, <1>2, <1>5, <1>7 DEF TypeInv
<1>9. WireInv'
  BY <1>1, <1>2, OldRepeats DEF WireInv
<1>10. LogInv'
  <2> SUFFICES ASSUME ~damaged'
               PROVE  Log(buffer', Base')
    BY <1>2 DEF LogInv
  <2>1. /\ ~damaged /\ buffer' = buffer \o data
        /\ wire[1].type = "all" => \A i \in 1 .. Len(buffer) : buffer[i] > 0
    BY <1>5 DEF TrimmedBy, AddMessage, TypeInv, OnlyOutput
  <2>2. PICK n \in Nat : Log(buffer, n) /\ n <= Base /\ (~AllFirst => n = Base)
    BY <2>1 DEF LogInv
  <2>3. InOrder(1)
    BY <1>1 DEF WireInv
  <2>4. CASE wire[1].type = "all"
    <3>1. AllFirst /\ Base = outputs - Len(wire) + 1 /\ Base = Base'
      BY <1>1, <1>2, <2>4 DEF AllFirst, Base
    <3>2. Len(all) = Base /\ \A i \in 1 .. Len(all) : all[i] = i
      BY <1>3, <2>3, <2>4 DEF InOrder
    <3>3. data = SubSeq(all, Len(buffer) + 1, Len(all))
      BY <1>5, <2>4 DEF Missing
    <3>4. Len(buffer) = n /\ \A i \in 1 .. Len(buffer) : buffer[i] = i
      BY <2>1, <2>2, <2>4 DEF Log
    <3>5. Begins(buffer, all)
      BY <2>2, <3>2, <3>4 DEF Begins
    <3>6. buffer \o data = all
      BY <1>1, <1>4, <3>3, <3>5, BeginsAndRest
    <3>7. QED  BY <1>4, <2>1, <3>1, <3>2, <3>6, LogCounts
  <2>5. CASE wire[1].type # "all"
    <3>1. ~AllFirst /\ Base = outputs - Len(wire)
      BY <2>5 DEF AllFirst, Base
    <3>2. IsPiece(data, outputs - Len(wire) + 1)
      BY <1>3, <1>5, <2>3, <2>5 DEF InOrder
    <3>3. n + 1 = outputs - Len(wire) + 1 /\ n + 1 = Base'
      BY <1>1, <1>2, <2>2, <3>1
    <3>4. Log(buffer \o data, n + 1)
      BY <1>1, <2>2, <3>2, <3>3, LogPiece
    <3>5. QED  BY <2>1, <3>3, <3>4
  <2>6. QED  BY <2>4, <2>5
<1>11. QED  BY <1>7, <1>8, <1>9, <1>10

(* The old session reads a piece. If nothing is damaged by that, the new one  *)
(* has not been told everything yet, and the piece is the next.              *)
LEMMA DeliverLateStep ==
  ASSUME Inv, DeliverLate, kind' = kind, Oldest \in Nat
  PROVE  Inv'
<1> USE DEF Inv
<1>1. /\ old \in Seq(Messages) /\ Len(old) \in Nat /\ Len(old) >= 1
      /\ 1 \in 1 .. Len(old) /\ old # <<>> /\ Head(old) = old[1]
      /\ buffer \in Seq(Pieces) /\ Len(buffer) \in Nat
      /\ outputs' = outputs /\ wire' = wire /\ old' = Tail(old)
  BY LenProperties, EmptySeq DEF TypeInv, DeliverLate
<1>2. AllFirst' = AllFirst /\ Base' = Base
  BY <1>1 DEF AllFirst, Base
<1>3. PICK data : data = old[1].data
  OBVIOUS
<1>4. data \in Seq(Int) /\ data \in Seq(Pieces)
  BY <1>1, <1>3, DataIsPieces
<1>5. /\ AddMessage(data)
      /\ damaged' = (damaged \/ TrimmedBy(data)
                             \/ PiecesIn(buffer, Len(buffer)) # 1 .. (data[Len(data)] - 1))
  BY <1>1, <1>3 DEF DeliverLate, Received, PiecesIn
<1>6. /\ buffer' \in Seq(Pieces)
      /\ watcher' \in [Watchers -> [pc : {"no", "sending", "on"}, copy : Seq(Pieces),
                                    got : Seq(Pieces)]]
      /\ WatcherInv'
  BY <1>4, <1>5, AddMessageServes
<1>7. /\ old' \in Seq(Messages) /\ Len(old') = Len(old) - 1
      /\ \A j \in 1 .. Len(old) - 1 : old'[j] = old[j + 1]
  BY <1>1
<1>8. TypeInv'
  BY <1>1, <1>5, <1>6, <1>7 DEF TypeInv
<1>9. WireInv'
  <2>1. \A j \in 1 .. Len(wire') : InOrder(j)'
    BY <1>1, <1>2 DEF WireInv, InOrder
  <2>2. ASSUME NEW j \in 1 .. Len(old') PROVE Repeats(j)'
    <3>1. j + 1 \in 1 .. Len(old) /\ old'[j] = old[j + 1]
      BY <1>1, <1>7
    <3>2. Repeats(j + 1)
      BY <3>1 DEF WireInv
    <3>3. QED  BY <1>2, <3>1, <3>2 DEF Repeats
  <2>3. QED  BY <1>2, <2>1, <2>2 DEF WireInv
<1>10. LogInv'
  <2> SUFFICES ASSUME ~damaged'
               PROVE  \E n \in Nat : Log(buffer', n) /\ n <= Base /\ AllFirst
    BY <1>2 DEF LogInv
  <2>1. /\ ~damaged /\ buffer' = buffer \o data
        /\ PiecesIn(buffer, Len(buffer)) = 1 .. (data[Len(data)] - 1)
    BY <1>5 DEF TrimmedBy, AddMessage, TypeInv
  <2>2. PICK n \in Nat : Log(buffer, n) /\ n <= Base /\ (~AllFirst => n = Base)
    BY <2>1 DEF LogInv
  <2>3. Repeats(1)
    BY <1>1 DEF WireInv
  <2>4. PICK k \in 1 .. Base : IsPiece(data, k)
    BY <1>3, <2>3 DEF Repeats
  <2>5. Base \in Nat /\ k \in Nat /\ k >= 1 /\ k <= Base
    BY <2>4 DEF WireInv
  <2>6. data[Len(data)] = k
    <3>1. data = <<k>> \/ data = <<Return, k>>
      BY <2>4 DEF IsPiece
    <3>2. Len(<<k>>) = 1 /\ <<k>>[1] = k /\ Len(<<Return, k>>) = 2 /\ <<Return, k>>[2] = k
      OBVIOUS
    <3>3. QED  BY <3>1, <3>2
  <2>7. 1 .. n = 1 .. (k - 1)
    BY <2>1, <2>2, <2>6 DEF Log
  <2>8. n = k - 1
    BY <2>2, <2>5, <2>7, SameUpTo
  <2>9. Log(buffer \o data, k)
    <3>1. n + 1 = k
      BY <2>5, <2>8
    <3>2. QED  BY <1>1, <2>2, <2>4, <3>1, LogPiece
  <2>10. AllFirst
    BY <2>2, <2>5, <2>8
  <2>11. QED  BY <2>1, <2>5, <2>9, <2>10
<1>11. QED  BY <1>6, <1>8, <1>9, <1>10

(* The worker writes: a piece more, behind what is on the connection. *)
LEMMA OutputStep ==
  ASSUME Inv, Output, kind' = kind
  PROVE  Inv'
<1> USE DEF Inv
<1>0. PICK changed \in {FALSE, kind = "deployment"} :
         wire' = Append(wire, [type |-> "piece",
                               data |-> IF changed THEN <<Return, outputs + 1>>
                                                   ELSE <<outputs + 1>>])
  BY DEF Output
<1>1. PICK m : m = [type |-> "piece",
                    data |-> IF changed THEN <<Return, outputs + 1>> ELSE <<outputs + 1>>]
  OBVIOUS
<1>2. /\ wire \in Seq(Messages) /\ Len(wire) \in Nat /\ outputs \in Nat
      /\ outputs' = outputs + 1 /\ wire' = Append(wire, m)
      /\ UNCHANGED <<old, buffer, watcher, damaged>>
  BY <1>0, <1>1, LenProperties DEF TypeInv, Output
<1>3. m \in Messages /\ m.type = "piece" /\ IsPiece(m.data, outputs + 1)
  <2>1. <<Return, outputs + 1>> \in Seq(Int) /\ <<outputs + 1>> \in Seq(Int)
    BY <1>2 DEF Return
  <2>2. PICK data : data = IF changed THEN <<Return, outputs + 1>> ELSE <<outputs + 1>>
    OBVIOUS
  <2>3. data \in Seq(Int) /\ IsPiece(data, outputs + 1)
    BY <2>1, <2>2 DEF IsPiece
  <2>4. QED  BY <1>1, <2>2, <2>3 DEF Messages
<1>4. /\ wire' \in Seq(Messages) /\ Len(wire') = Len(wire) + 1 /\ wire'[Len(wire) + 1] = m
      /\ \A j \in 1 .. Len(wire) : wire'[j] = wire[j]
  BY <1>2, <1>3, AppendProperties
<1>5. TypeInv'
  BY <1>2, <1>4 DEF TypeInv
<1>6. AllFirst' = AllFirst
  <2>1. CASE wire = <<>>
    <3>1. Len(wire) = 0 /\ wire'[1] = m
      BY <1>4, <2>1
    <3>2. QED  BY <1>3, <2>1, <3>1 DEF AllFirst
  <2>2. CASE wire # <<>>
    <3>1. 1 \in 1 .. Len(wire)
      BY <1>2, <2>2, EmptySeq
    <3>2. wire'[1] = wire[1] /\ wire' # <<>>
      BY <1>2, <1>4, <3>1
    <3>3. QED  BY <2>2, <3>2 DEF AllFirst
  <2>3. QED  BY <2>1, <2>2
<1>7. Base' = Base
  BY <1>2, <1>4, <1>6 DEF Base
<1>8. ASSUME NEW j \in 1 .. Len(wire') PROVE InOrder(j)'
  <2>1. CASE j \in 1 .. Len(wire)
    <3>1. InOrder(j) /\ wire'[j] = wire[j] /\ (j = 1 => wire'[1] = wire[1])
      BY <1>4, <2>1 DEF WireInv
    <3>2. outputs' - Len(wire') + j = outputs - Len(wire) + j
      BY <1>2, <1>4
    <3>3. CASE wire[j].type = "piece" /\ IsPiece(wire[j].data, outputs - Len(wire) + j)
      BY <3>1, <3>2, <3>3 DEF InOrder
    <3>4. CASE /\ j = 1 /\ wire[1].type = "all" /\ Len(wire[1].data) = Base
               /\ \A i \in 1 .. Base : wire[1].data[i] = i
      BY <1>7, <3>1, <3>4 DEF InOrder
    <3>5. QED  BY <3>1, <3>3, <3>4 DEF InOrder
  <2>2. CASE j \notin 1 .. Len(wire)
    <3>1. j = Len(wire) + 1 /\ outputs' - Len(wire') + j = outputs + 1
      BY <1>2, <1>4, <2>2
    <3>2. wire'[j].type = "piece" /\ IsPiece(wire'[j].data, outputs + 1)
      BY <1>3, <1>4, <3>1
    <3>3. QED  BY <3>1, <3>2 DEF InOrder
  <2>3. QED  BY <2>1, <2>2
<1>9. WireInv'
  BY <1>2, <1>7, <1>8 DEF WireInv, Repeats
<1>10. LogInv'
  BY <1>2, <1>6, <1>7 DEF LogInv
<1>11. WatcherInv'
  BY <1>2 DEF WatcherInv, Served
<1>12. QED  BY <1>5, <1>9, <1>10, <1>11

(* The connection breaks: the old session may read what was on it, the new   *)
(* one is told everything.                                                  *)
LEMMA BreakStep ==
  ASSUME Inv, Break, kind' = kind
  PROVE  Inv'
<1> USE DEF Inv
<1>1. PICK m : m = [type |-> "all", data |-> AllOutputs]
  OBVIOUS
<1>2. /\ wire \in Seq(Messages) /\ Len(wire) \in Nat /\ outputs \in Nat
      /\ wire' = <<m>>
      /\ UNCHANGED <<outputs, buffer, watcher, damaged>>
  BY <1>1, LenProperties DEF TypeInv, Break
<1>3. AllOutputs \in Seq(Int) /\ Len(AllOutputs) = outputs
      /\ \A i \in 1 .. outputs : AllOutputs[i] = i
  BY <1>2 DEF AllOutputs
<1>4. m \in Messages
  BY <1>1, <1>3 DEF Messages
<1>5. wire' \in Seq(Messages) /\ Len(wire') = 1 /\ wire'[1] = m /\ wire' # <<>>
  BY <1>2, <1>4
<1>6. AllFirst' /\ Base' = outputs /\ Base' \in Nat
  BY <1>1, <1>2, <1>5 DEF AllFirst, Base
<1>7. ~AllFirst /\ Base = outputs - Len(wire)
  <2>1. CASE wire = <<>>
    BY <2>1 DEF AllFirst, Base
  <2>2. CASE wire # <<>>
    <3>1. 1 \in 1 .. Len(wire)
      BY <1>2, <2>2, EmptySeq
    <3>2. wire[1] \in Range(wire)
      BY <1>2, <3>1 DEF Range
    <3>3. QED  BY <3>2 DEF Break, AllFirst, Base
  <2>3. QED  BY <2>1, <2>2
<1>8. PICK i \in 0 .. Len(wire) : old' = SubSeq(wire, 1, i)
  BY DEF Break
<1>9. old' \in Seq(Messages) /\ Len(old') = i /\ \A j \in 1 .. i : old'[j] = wire[j]
  BY <1>2, <1>8
<1>10. TypeInv'
  BY <1>2, <1>5, <1>9 DEF TypeInv
<1>11. ASSUME NEW j \in 1 .. Len(old') PROVE Repeats(j)'
  <2>1. j \in 1 .. Len(wire) /\ old'[j] = wire[j]
    BY <1>2, <1>9
  <2>2. wire[j] \in Range(wire)
    BY <1>2, <2>1 DEF Range
  <2>3. wire[j].type = "piece"
    BY <2>2 DEF Break
  <2>4. InOrder(j)
    BY <2>1 DEF WireInv
  <2>5. IsPiece(wire[j].data, outputs - Len(wire) + j)
    BY <2>3, <2>4 DEF InOrder
  <2>6. outputs - Len(wire) + j \in 1 .. Base'
    BY <1>2, <1>6, <1>7, <2>1 DEF WireInv
  <2>7. old'[j].type = "piece" /\ IsPiece(old'[j].data, outputs - Len(wire) + j)
    BY <2>1, <2>3, <2>5
  <2>8. QED  BY <2>6, <2>7 DEF Repeats
<1>12. ASSUME NEW j \in 1 .. Len(wire') PROVE InOrder(j)'
  <2>1. j = 1
    BY <1>5
  <2>2. /\ wire'[1].type = "all" /\ Len(wire'[1].data) = Base'
        /\ \A k \in 1 .. Base' : wire'[1].data[k] = k
    BY <1>1, <1>3, <1>5, <1>6
  <2>3. QED  BY <2>1, <2>2 DEF InOrder
<1>13. WireInv'
  BY <1>6, <1>11, <1>12 DEF WireInv
<1>14. LogInv'
  BY <1>2, <1>6, <1>7 DEF LogInv
<1>15. WatcherInv'
  BY <1>2 DEF WatcherInv, Served
<1>16. QED  BY <1>10, <1>13, <1>14, <1>15

(* The old session ends. *)
LEMMA OldSessionEndsStep ==
  ASSUME Inv, OldSessionEnds, kind' = kind
  PROVE  Inv'
<1> USE DEF Inv
<1>1. /\ UNCHANGED <<outputs, wire, buffer, watcher, damaged>>
      /\ old' = <<>>
  BY DEF OldSessionEnds
<1>2. AllFirst' = AllFirst /\ Base' = Base
  BY <1>1 DEF AllFirst, Base
<1>3. old' \in Seq(Messages) /\ Len(old') = 0
  BY <1>1
<1>4. TypeInv'
  BY <1>1, <1>3 DEF TypeInv
<1>5. WireInv'
  BY <1>1, <1>2, <1>3 DEF WireInv, InOrder
<1>6. LogInv' /\ WatcherInv'
  BY <1>1, <1>2 DEF LogInv, WatcherInv, Served
<1>7. QED  BY <1>4, <1>5, <1>6

(* Something that is no output goes into the buffer of a deployment. *)
LEMMA ForeignStep ==
  ASSUME Inv, kind = "deployment", kind' = kind, Oldest \in Nat,
         NEW x \in Int, ~(x > 0), AddMessage(<<x>>),
         UNCHANGED <<outputs, wire, old, damaged>>
  PROVE  Inv'
<1> USE DEF Inv
<1>2. <<x>> \in Seq(Pieces)
  BY DEF Pieces
<1>3. /\ buffer' \in Seq(Pieces)
      /\ watcher' \in [Watchers -> [pc : {"no", "sending", "on"}, copy : Seq(Pieces),
                                    got : Seq(Pieces)]]
      /\ WatcherInv'
  BY <1>2, AddMessageServes
<1>4. AllFirst' = AllFirst /\ Base' = Base
  BY DEF AllFirst, Base
<1>5. TypeInv'
  BY <1>3 DEF TypeInv
<1>6. LogInv'
  <2> SUFFICES ASSUME ~damaged PROVE LogInv'
    BY DEF LogInv
  <2>1. PICK n \in Nat : Log(buffer, n) /\ n <= Base /\ (~AllFirst => n = Base)
    BY DEF LogInv
  <2>2. buffer' = buffer \o <<x>>
    BY DEF AddMessage, Trimmed
  <2>3. Log(buffer', n)
    BY <2>1, <2>2, LogForeign DEF TypeInv, Pieces
  <2>4. QED  BY <1>4, <2>1, <2>3 DEF LogInv
<1>7. WireInv'
  BY <1>4 DEF WireInv, InOrder, Repeats
<1>8. QED  BY <1>3, <1>5, <1>6, <1>7

(* The server adds a line of its own. *)
LEMMA AddNoteStep ==
  ASSUME Inv, AddNote, kind' = kind, Oldest \in Nat
  PROVE  Inv'
<1>1. /\ kind = "deployment" /\ UNCHANGED <<outputs, wire, old, damaged>>
      /\ AddMessage(<<Note>>)
  BY DEF AddNote
<1>2. Note \in Int /\ ~(Note > 0)
  BY DEF Note
<1>3. QED  BY <1>1, <1>2, ForeignStep

(* A heartbeat comes for a deployment. *)
LEMMA DeliverHeartbeatStep ==
  ASSUME Inv, DeliverHeartbeat, kind' = kind, Oldest \in Nat
  PROVE  Inv'
<1>1. /\ kind = "deployment" /\ UNCHANGED <<outputs, wire, old, damaged>>
      /\ AddMessage(<<Silence>>)
  BY DEF DeliverHeartbeat
<1>2. Silence \in Int /\ ~(Silence > 0)
  BY DEF Silence
<1>3. QED  BY <1>1, <1>2, ForeignStep

(* A new connection, on which there is nothing but everything. *)
LEMMA AllOnWire ==
  ASSUME Inv, outputs' = outputs,
         wire' = <<[type |-> "all", data |-> AllOutputs]>>
  PROVE  /\ wire' \in Seq(Messages) /\ AllFirst' /\ Base' = outputs /\ Base' \in Nat
         /\ Base <= Base' /\ \A j \in 1 .. Len(wire') : InOrder(j)'
<1> USE DEF Inv
<1>1. PICK m : m = [type |-> "all", data |-> AllOutputs]
  OBVIOUS
<1>2. wire \in Seq(Messages) /\ Len(wire) \in Nat /\ outputs \in Nat /\ wire' = <<m>>
  BY <1>1, LenProperties DEF TypeInv
<1>3. AllOutputs \in Seq(Int) /\ Len(AllOutputs) = outputs
      /\ \A i \in 1 .. outputs : AllOutputs[i] = i
  BY <1>2 DEF AllOutputs
<1>4. m \in Messages
  BY <1>1, <1>3 DEF Messages
<1>5. wire' \in Seq(Messages) /\ Len(wire') = 1 /\ wire'[1] = m /\ wire' # <<>>
  BY <1>2, <1>4
<1>6. AllFirst' /\ Base' = outputs /\ Base' \in Nat
  BY <1>1, <1>2, <1>5 DEF AllFirst, Base
<1>7. Base <= outputs
  <2>1. AllFirst => Len(wire) # 0
    BY <1>2, EmptySeq DEF AllFirst
  <2>2. QED  BY <1>2, <2>1 DEF Base
<1>8. ASSUME NEW j \in 1 .. Len(wire') PROVE InOrder(j)'
  <2>1. j = 1
    BY <1>5
  <2>2. /\ wire'[1].type = "all" /\ Len(wire'[1].data) = Base'
        /\ \A k \in 1 .. Base' : wire'[1].data[k] = k
    BY <1>1, <1>3, <1>5, <1>6
  <2>3. QED  BY <2>1, <2>2 DEF InOrder
<1>9. QED  BY <1>5, <1>6, <1>7, <1>8

(* The session cannot count what the server has, and there is a new one. *)
LEMMA CatchUpFailsStep ==
  ASSUME Inv, CatchUpFails, kind' = kind
  PROVE  Inv'
<1> USE DEF Inv
<1>1. /\ UNCHANGED <<outputs, old, buffer, watcher, damaged>> /\ AllFirst
      /\ wire' = <<[type |-> "all", data |-> AllOutputs]>>
  BY DEF CatchUpFails, AllFirst
<1>2. /\ wire' \in Seq(Messages) /\ AllFirst' /\ Base' \in Nat /\ Base <= Base'
      /\ \A j \in 1 .. Len(wire') : InOrder(j)'
  BY <1>1, AllOnWire
<1>3. TypeInv'
  BY <1>1, <1>2 DEF TypeInv
<1>4. WireInv'
  BY <1>1, <1>2, OldRepeats DEF WireInv
<1>5. LogInv'
  <2>1. Base \in Nat
    BY DEF WireInv
  <2>2. QED  BY <1>1, <1>2, <2>1 DEF LogInv
<1>6. WatcherInv'
  BY <1>1 DEF WatcherInv, Served
<1>7. QED  BY <1>3, <1>4, <1>5, <1>6

(* The server starts again, and knows nothing. *)
LEMMA RestartStep ==
  ASSUME Inv, Restart, kind' = kind
  PROVE  Inv'
<1> USE DEF Inv
<1>1. /\ outputs' = outputs /\ old' = <<>> /\ buffer' = <<>> /\ damaged' = FALSE
      /\ wire' = <<[type |-> "all", data |-> AllOutputs]>>
      /\ watcher' = [w \in Watchers |-> NotYet]
  BY DEF Restart
<1>2. /\ wire' \in Seq(Messages) /\ AllFirst' /\ Base' \in Nat
      /\ \A j \in 1 .. Len(wire') : InOrder(j)'
  BY <1>1, AllOnWire
<1>3. /\ old' \in Seq(Messages) /\ Len(old') = 0 /\ buffer' \in Seq(Pieces)
  BY <1>1
<1>4. NotYet \in [pc : {"no", "sending", "on"}, copy : Seq(Pieces), got : Seq(Pieces)]
  BY DEF NotYet
<1>5. TypeInv'
  BY <1>1, <1>2, <1>3, <1>4 DEF TypeInv
<1>6. WireInv'
  BY <1>2, <1>3 DEF WireInv
<1>7. LogInv'
  <2>1. 0 \in Nat /\ 0 <= Base'
    BY <1>2
  <2>2. Log(buffer', 0)
    BY <1>1, EmptyLog
  <2>3. QED  BY <1>2, <2>1, <2>2 DEF LogInv
<1>8. WatcherInv'
  BY <1>1 DEF WatcherInv, Served, NotYet
<1>9. QED  BY <1>5, <1>6, <1>7, <1>8

(* A step of one watcher leaves the log and the other watchers alone. *)
LEMMA WatcherStep ==
  ASSUME Inv, kind' = kind, UNCHANGED <<outputs, wire, old, buffer, count, damaged>>,
         NEW w \in Watchers, NEW x, watcher' = [watcher EXCEPT ![w] = x],
         x \in [pc : {"no", "sending", "on"}, copy : Seq(Pieces), got : Seq(Pieces)],
         Served(w)'
  PROVE  Inv'
<1> USE DEF Inv
<1>1. AllFirst' = AllFirst /\ Base' = Base
  BY DEF AllFirst, Base
<1>2. TypeInv'
  BY DEF TypeInv
<1>3. WireInv' /\ LogInv'
  BY <1>1 DEF WireInv, LogInv, InOrder, Repeats
<1>4. ASSUME NEW v \in Watchers PROVE Served(v)'
  <2>1. CASE v = w
    BY <2>1
  <2>2. CASE v # w
    <3>1. watcher'[v] = watcher[v] /\ Served(v)
      BY <2>2 DEF TypeInv, WatcherInv
    <3>2. QED  BY <3>1 DEF Served
  <2>3. QED  BY <2>1, <2>2
<1>5. QED  BY <1>2, <1>3, <1>4 DEF WatcherInv

(* subscribe in its three parts, addListener, and those who go away. *)
LEMMA WatchersStep ==
  ASSUME Inv, kind' = kind, NEW w \in Watchers,
         Subscribe(w) \/ SendCopy(w) \/ CatchUp(w) \/ AddListener(w) \/ Unsubscribe(w)
  PROVE  Inv'
<1> USE DEF Inv
<1>1. /\ watcher[w] \in [pc : {"no", "sending", "on"}, copy : Seq(Pieces), got : Seq(Pieces)]
      /\ watcher[w].copy \in Seq(Pieces) /\ watcher[w].got \in Seq(Pieces)
      /\ Served(w) /\ buffer \in Seq(Pieces) /\ kind \in {"test", "deployment"}
      /\ watcher \in [Watchers -> [pc : {"no", "sending", "on"}, copy : Seq(Pieces),
                                   got : Seq(Pieces)]]
  BY DEF TypeInv, WatcherInv
<1>2. UNCHANGED <<outputs, wire, old, buffer, count, damaged>>
  BY DEF Subscribe, SendCopy, CatchUp, AddListener, Unsubscribe
<1>3. ASSUME NEW s \in Seq(Pieces) PROVE Begins(s, s) /\ Begins(<<>>, s) /\ Ends(s, s)
  <2>1. Len(s) \in Nat /\ Len(<<>>) = 0
    BY LenProperties
  <2>2. \A i \in 1 .. Len(s) : Len(s) - Len(s) + i = i
    BY <2>1
  <2>3. QED  BY <2>1, <2>2 DEF Begins, Ends
<1>4. CASE Subscribe(w)
  <2>1. PICK x : x = [pc |-> "sending", copy |-> buffer, got |-> <<>>]
    OBVIOUS
  <2>2. watcher' = [watcher EXCEPT ![w] = x] /\ kind = "deployment"
    BY <1>4, <2>1 DEF Subscribe
  <2>3. x \in [pc : {"no", "sending", "on"}, copy : Seq(Pieces), got : Seq(Pieces)]
    BY <1>1, <2>1
  <2>4. watcher'[w] = x
    BY <1>1, <2>2
  <2>5. Served(w)'
    BY <1>1, <1>2, <1>3, <2>1, <2>2, <2>4 DEF Served
  <2>6. QED  BY <1>2, <2>2, <2>3, <2>5, WatcherStep
<1>5. CASE SendCopy(w)
  <2>1. /\ watcher[w].pc = "sending" /\ watcher[w].got # watcher[w].copy
        /\ kind = "deployment"
        /\ Begins(watcher[w].copy, buffer) /\ Begins(watcher[w].got, watcher[w].copy)
    BY <1>1, <1>5 DEF SendCopy, Served
  <2>2. PICK more : more = SubSeq(watcher[w].copy, 1, Len(watcher[w].got) + 1)
    OBVIOUS
  <2>3. more \in Seq(Pieces) /\ Begins(more, watcher[w].copy)
    BY <1>1, <2>1, <2>2, BeginsLonger
  <2>4. PICK x : x = [watcher[w] EXCEPT !.got = more]
    OBVIOUS
  <2>5. watcher' = [watcher EXCEPT ![w] = x]
    BY <1>5, <2>2, <2>4 DEF SendCopy
  <2>6. /\ x \in [pc : {"no", "sending", "on"}, copy : Seq(Pieces), got : Seq(Pieces)]
        /\ x.pc = "sending" /\ x.copy = watcher[w].copy /\ x.got = more
    BY <1>1, <2>1, <2>3, <2>4
  <2>7. watcher'[w] = x
    BY <1>1, <2>5
  <2>8. Served(w)'
    BY <1>2, <2>1, <2>3, <2>6, <2>7 DEF Served
  <2>9. QED  BY <1>2, <2>5, <2>6, <2>8, WatcherStep
<1>6. CASE CatchUp(w)
  <2>1. /\ watcher[w].pc = "sending" /\ watcher[w].got = watcher[w].copy
        /\ kind = "deployment" /\ Begins(watcher[w].copy, buffer)
    BY <1>1, <1>6 DEF CatchUp, Served
  <2>2. watcher[w].copy \o SubSeq(buffer, Len(watcher[w].copy) + 1, Len(buffer)) = buffer
    BY <1>1, <2>1, BeginsAndRest
  <2>3. PICK x : x = [pc |-> "on", copy |-> <<>>, got |-> buffer]
    OBVIOUS
  <2>4. watcher' = [watcher EXCEPT ![w] = x]
    BY <1>6, <2>1, <2>2, <2>3 DEF CatchUp
  <2>5. x \in [pc : {"no", "sending", "on"}, copy : Seq(Pieces), got : Seq(Pieces)]
    BY <1>1, <2>3
  <2>6. watcher'[w] = x
    BY <1>1, <2>4
  <2>7. Served(w)'
    BY <1>2, <2>1, <2>3, <2>6 DEF Served
  <2>8. QED  BY <1>2, <2>4, <2>5, <2>7, WatcherStep
<1>7. CASE AddListener(w)
  <2>1. PICK x : x = [pc |-> "on", copy |-> <<>>, got |-> buffer]
    OBVIOUS
  <2>2. watcher' = [watcher EXCEPT ![w] = x] /\ kind = "test"
    BY <1>7, <2>1 DEF AddListener
  <2>3. x \in [pc : {"no", "sending", "on"}, copy : Seq(Pieces), got : Seq(Pieces)]
    BY <1>1, <2>1
  <2>4. watcher'[w] = x
    BY <1>1, <2>2
  <2>5. Served(w)'
    BY <1>1, <1>2, <1>3, <2>1, <2>2, <2>4 DEF Served
  <2>6. QED  BY <1>2, <2>2, <2>3, <2>5, WatcherStep
<1>8. CASE Unsubscribe(w)
  <2>1. watcher' = [watcher EXCEPT ![w] = NotYet]
    BY <1>8 DEF Unsubscribe
  <2>2. NotYet \in [pc : {"no", "sending", "on"}, copy : Seq(Pieces), got : Seq(Pieces)]
    BY DEF NotYet
  <2>3. watcher'[w] = NotYet
    BY <1>1, <2>1
  <2>4. Served(w)'
    BY <2>3 DEF Served, NotYet
  <2>5. QED  BY <1>2, <2>1, <2>2, <2>4, WatcherStep
<1>9. QED  BY <1>4, <1>5, <1>6, <1>7, <1>8

------------------------------------------------------------------------------
(* The initial state. *)
LEMMA InitHolds == Init => Inv
<1> SUFFICES ASSUME Init PROVE Inv
  OBVIOUS
<1>1. /\ outputs = 0 /\ wire = <<>> /\ old = <<>> /\ buffer = <<>>
      /\ damaged = FALSE /\ kind \in {"test", "deployment"}
      /\ watcher = [w \in Watchers |-> NotYet]
  BY DEF Init
<1>2. NotYet \in [pc : {"no", "sending", "on"}, copy : Seq(Pieces), got : Seq(Pieces)]
  BY DEF NotYet
<1>3. TypeInv
  <2>1. <<>> \in Seq(Messages) /\ <<>> \in Seq(Pieces)
    OBVIOUS
  <2>2. watcher \in [Watchers -> [pc : {"no", "sending", "on"}, copy : Seq(Pieces),
                                  got : Seq(Pieces)]]
    BY <1>1, <1>2
  <2>3. 0 \in Nat /\ FALSE \in BOOLEAN
    OBVIOUS
  <2>4. QED  BY <1>1, <2>1, <2>2, <2>3 DEF TypeInv
<1>4. Len(<<>>) = 0 /\ Len(wire) = 0 /\ 0 - 0 = 0
  BY <1>1
<1>5. ~AllFirst /\ Base = 0
  <2>1. ~AllFirst
    BY <1>1 DEF AllFirst
  <2>2. Base = 0 - 0
    BY <1>1, <1>4, <2>1 DEF Base
  <2>3. QED  BY <1>4, <2>1, <2>2
<1>6. WireInv /\ LogInv
  BY <1>1, <1>4, <1>5, EmptyLog DEF WireInv, LogInv
<1>7. WatcherInv
  BY <1>1 DEF WatcherInv, Served, NotYet
<1>8. QED  BY <1>3, <1>6, <1>7 DEF Inv

(* Every step keeps the invariant. *)
LEMMA InvStep ==
  ASSUME Inv, [Next]_vars, Oldest \in Nat
  PROVE  Inv'
<1>1. CASE UNCHANGED vars
  BY <1>1 DEF vars, Inv, TypeInv, WatcherInv, Served, WireInv, LogInv, InOrder, Repeats,
              AllFirst, Base
<1>2. CASE Next
  <2>1. kind' = kind
    BY <1>2 DEF Next
  <2>2. CASE Output
    BY <2>1, <2>2, OutputStep
  <2>3. CASE Deliver
    BY <2>1, <2>3, DeliverStep
  <2>4. CASE DeliverLate
    BY <2>1, <2>4, DeliverLateStep
  <2>5. CASE Break
    BY <2>1, <2>5, BreakStep
  <2>6. CASE OldSessionEnds
    BY <2>1, <2>6, OldSessionEndsStep
  <2>7. CASE AddNote
    BY <2>1, <2>7, AddNoteStep
  <2>8. ASSUME NEW w \in Watchers,
               \/ Subscribe(w) \/ SendCopy(w) \/ CatchUp(w)
               \/ AddListener(w) \/ Unsubscribe(w)
        PROVE  Inv'
    BY <2>1, <2>8, WatchersStep
  <2>9. CASE CatchUpFails
    BY <2>1, <2>9, CatchUpFailsStep
  <2>10. CASE DeliverHeartbeat
    BY <2>1, <2>10, DeliverHeartbeatStep
  <2>11. CASE Restart
    BY <2>1, <2>11, RestartStep
  <2>12. QED  BY <1>2, <2>2, <2>3, <2>4, <2>5, <2>6, <2>7, <2>8, <2>9, <2>10, <2>11 DEF Next
<1>3. QED  BY <1>1, <1>2

(* What the invariant says to those who watch. *)
LEMMA InvShows == Inv => OutputArrives
<1> SUFFICES ASSUME Inv PROVE OutputArrives
  OBVIOUS
<1> USE DEF Inv
<1>1. buffer \in Seq(Pieces) /\ Len(buffer) \in Nat
  BY LenProperties DEF TypeInv
<1>2. ASSUME NEW w \in Watchers
      PROVE  /\ watcher[w].pc = "on" => IsSuffix(buffer, watcher[w].got)
             /\ kind = "deployment" => IsPrefix(watcher[w].got, buffer)
  <2>1. /\ watcher[w].pc \in {"no", "sending", "on"} /\ watcher[w].copy \in Seq(Pieces)
        /\ watcher[w].got \in Seq(Pieces) /\ Served(w) /\ kind \in {"test", "deployment"}
    BY DEF TypeInv, WatcherInv
  <2>2. Ends(buffer, buffer) /\ Begins(buffer, buffer) /\ Begins(<<>>, buffer)
    <3>1. \A i \in 1 .. Len(buffer) : Len(buffer) - Len(buffer) + i = i
      BY <1>1
    <3>2. Len(<<>>) = 0
      OBVIOUS
    <3>3. QED  BY <1>1, <3>1, <3>2 DEF Begins, Ends
  <2>3. ASSUME watcher[w].pc = "on" PROVE IsSuffix(buffer, watcher[w].got)
    <3>1. Ends(buffer, watcher[w].got)
      BY <2>1, <2>2, <2>3 DEF Served
    <3>2. QED  BY <1>1, <2>1, <3>1, EndsIsSuffix
  <2>4. ASSUME kind = "deployment" PROVE IsPrefix(watcher[w].got, buffer)
    <3>1. Begins(watcher[w].got, buffer)
      <4>1. CASE watcher[w].pc = "no"
        BY <2>1, <2>2, <4>1 DEF Served
      <4>2. CASE watcher[w].pc = "on"
        BY <2>1, <2>2, <2>4, <4>2 DEF Served
      <4>3. CASE watcher[w].pc = "sending"
        <5>1. Begins(watcher[w].copy, buffer) /\ Begins(watcher[w].got, watcher[w].copy)
          BY <2>1, <2>4, <4>3 DEF Served
        <5>2. QED  BY <1>1, <2>1, <5>1, BeginsTransitive
      <4>4. QED  BY <2>1, <4>1, <4>2, <4>3
    <3>2. QED  BY <1>1, <2>1, <3>1, BeginsIsPrefix
  <2>5. QED  BY <2>3, <2>4
<1>3. ASSUME ~damaged, NEW i \in 1 .. Len(buffer), buffer[i] > 0
      PROVE  buffer[i] <= outputs /\ Received(i - 1) = 1 .. (buffer[i] - 1)
  <2>1. outputs \in Nat /\ wire \in Seq(Messages) /\ Len(wire) \in Nat /\ buffer[i] \in Int
    BY LenProperties, ElementOfSeq DEF TypeInv, Pieces
  <2>2. Base <= outputs
    <3>1. AllFirst => Len(wire) # 0
      BY <2>1, EmptySeq DEF AllFirst
    <3>2. QED  BY <2>1, <3>1 DEF Base
  <2>3. PICK n \in Nat : Log(buffer, n) /\ n <= Base
    BY <1>3 DEF LogInv
  <2>4. buffer[i] \in 1 .. n
    <3>1. buffer[i] \in PiecesIn(buffer, Len(buffer))
      BY <1>1, <1>3 DEF PiecesIn
    <3>2. QED  BY <2>3, <3>1 DEF Log
  <2>5. buffer[i] <= outputs
    BY <2>1, <2>2, <2>3, <2>4 DEF WireInv
  <2>6. PiecesIn(buffer, i - 1) = 1 .. (buffer[i] - 1)
    BY <1>3, <2>3 DEF Log
  <2>7. QED  BY <2>5, <2>6 DEF Received, PiecesIn
<1>4. QED  BY <1>2, <1>3 DEF OutputArrives, WatchersSeeAll, LogIsOutput

(* However connections break, servers start again and old sessions read on,   *)
(* and whenever people subscribe, everyone has received the whole buffer in   *)
(* order and once, and the output in the buffer is what the worker wrote, in  *)
(* order, without gaps or repetitions, as long as the server's count is right *)
(* (MessageBuffer and HeartbeatHandler, for every number of watchers, pieces, *)
(* breaks, heartbeats and notes, and whatever the length at which a log is    *)
(* trimmed).                                                                *)
THEOREM OutputAlwaysArrives ==
  ASSUME Oldest \in Nat
  PROVE  Spec => []OutputArrives
<1>1. Init => Inv
  BY InitHolds
<1>2. Inv /\ [Next]_vars => Inv'
  BY InvStep
<1>3. Inv => OutputArrives
  BY InvShows
<1>4. QED  BY <1>1, <1>2, <1>3, PTL DEF Spec

------------------------------------------------------------------------------
(* Commits, branches and tests (CommitParsing) *)

CONSTANTS Commits, Repos, Branches, Tests, None, RepoOf, LookingBack, Refs, Includes, TestsOf,
          DepsOf, NoFile, Old, PinsOf, MorePinsOf, Template, Listings, Heads, MaxPushes
VARIABLES remote, tip, clone, hook, db, task, fetched, pushes
CP == INSTANCE CommitParsing

(* The kinds of tasks. *)
TaskKinds == {"RefreshRepos", "RefreshBranches", "FirstRefresh", "UpdateBranchTopCommit",
              "UpdateCommitData", "CommitTestParse", "CheckBranchAutocreate"}

(* What is assumed of git and of the definitions: the log of a commit begins   *)
(* with it and contains the logs of those in it; no definitions refer to each  *)
(* other in a circle, because they name hashes; a branch is made in the        *)
(* repository of the one it is made for, from one of the commits there are.    *)
Sound ==
    /\ None \notin Commits /\ None \notin Branches
    /\ \A k \in TaskKinds, r \in Repos : None # CP!Task(k, r)
    /\ \A c \in Commits : /\ LookingBack[c] \in Seq(Commits) /\ c \in CP!Reachable(c)
                          /\ \A x \in CP!Reachable(c) : CP!Reachable(x) \subseteq CP!Reachable(c)
    /\ \A c \in Commits : /\ Refs[c] \subseteq Commits /\ PinsOf[c] \subseteq Branches
                          /\ MorePinsOf[c] \subseteq Branches
    /\ \A c \in Commits : \A S \in SUBSET Refs[c] :
          S # {} => \E x \in S : \A y \in S : x \notin Refs[y]
    /\ \A c \in Commits : TestsOf[c] \subseteq Tests
    /\ \A t \in Tests : DepsOf[t] \subseteq Tests
    /\ \A x \in Commits \cup Branches : RepoOf[x] \in Repos
    /\ \A r \in Listings : r \subseteq Repos
    /\ Heads \subseteq [Branches -> Commits \cup {None}]
    /\ \A b \in Branches : Template[b] # None =>
          /\ Template[b].new \in Branches /\ Template[b].commit \in Commits
          /\ RepoOf[Template[b].new] = RepoOf[b]

(* Tasks, and the database. *)
TaskSet == [kind : TaskKinds, of : Commits \cup Repos \cup Branches \cup {None}]
Database ==
    [repo : [Repos -> {"unknown", "active", "inactive"}], branch : SUBSET Branches,
     head : [Branches -> Commits \cup {None}], tracks : [Branches -> Branches \cup {None}],
     known : SUBSET Commits, data : SUBSET Commits, parsed : SUBSET Commits,
     error : SUBSET Commits, noTests : SUBSET Commits, repos : [Commits -> SUBSET Branches],
     pins : [Branches -> SUBSET Branches],
     needsRepo : SUBSET (Commits \X Repos), needsCommit : SUBSET (Commits \X Commits),
     test : SUBSET Tests, testDep : SUBSET (Tests \X Tests),
     needsTest : SUBSET (Tests \X Tests), commitTest : SUBSET (Commits \X Tests),
     new : SUBSET TaskSet]

(* A database that differs in one field. *)
SetParsed(d, p) == [d EXCEPT !.parsed = p]
SetNoTests(d, p) == [d EXCEPT !.noTests = p]
SetError(d, p) == [d EXCEPT !.error = p]

(* It is one. *)
LEMMA SetIn ==
  ASSUME NEW d \in Database, NEW p \in SUBSET Commits
  PROVE  /\ SetParsed(d, p) \in Database /\ SetNoTests(d, p) \in Database
         /\ SetError(d, p) \in Database
<1>1. SetParsed(d, p) \in Database
  BY DEF Database, SetParsed
<1>2. SetNoTests(d, p) \in Database
  BY DEF Database, SetNoTests
<1>3. SetError(d, p) \in Database
  BY DEF Database, SetError
<1>4. QED  BY <1>1, <1>2, <1>3

(* What is parsed then, and what has no tests. *)
LEMMA SetIs ==
  ASSUME NEW d \in Database, NEW p \in SUBSET Commits
  PROVE  /\ SetParsed(d, p).parsed = p /\ SetParsed(d, p).noTests = d.noTests
         /\ SetNoTests(d, p).parsed = d.parsed /\ SetNoTests(d, p).noTests = p
         /\ SetError(d, p).parsed = d.parsed /\ SetError(d, p).noTests = d.noTests
BY DEF Database, SetParsed, SetNoTests, SetError

(* The parts of a task. *)
LEMMA TaskIs ==
  ASSUME NEW k \in TaskKinds, NEW x \in Commits \cup Repos \cup Branches \cup {None}
  PROVE  CP!Task(k, x) \in TaskSet /\ CP!Task(k, x).kind = k /\ CP!Task(k, x).of = x
BY DEF CP!Task, TaskSet

(* Tests: what they wait for, or are linked with. *)
Links(d) ==
    /\ \A w \in d.testDep \cup d.needsTest : w[1] \in d.test
    /\ \A t \in d.test : \A x \in DepsOf[t] :
          IF x \in d.test THEN <<t, x>> \in d.testDep /\ <<t, x>> \notin d.needsTest
          ELSE <<t, x>> \in d.needsTest /\ <<t, x>> \notin d.testDep

(* Creating tests keeps them so. *)
LEMMA CreateTestsLinks ==
  ASSUME Sound, NEW d \in Database, Links(d), NEW c \in Commits
  PROVE  Links(CP!CreateTests(d, c)) /\ CP!CreateTests(d, c) \in Database
<1>1. PICK new : new = TestsOf[c] \ d.test
  OBVIOUS
<1>2. PICK deps : deps = {w \in new \X Tests : w[2] \in DepsOf[w[1]]}
  OBVIOUS
<1>3. PICK exist : exist = d.test \cup new
  OBVIOUS
<1>4. PICK linked : linked = {w \in deps : w[2] \in exist}
  OBVIOUS
<1>5. PICK marked : marked = {w \in d.needsTest : w[2] \in new}
  OBVIOUS
<1>6. PICK e : e = CP!CreateTests(d, c)
  OBVIOUS
<1>7. e = [d EXCEPT !.test = exist, !.testDep = @ \cup linked \cup marked,
                  !.needsTest = ((@ \cup deps) \ linked) \ marked,
                  !.commitTest = @ \cup {<<c, t>> : t \in TestsOf[c]}]
  BY <1>1, <1>2, <1>3, <1>4, <1>5, <1>6 DEF CP!CreateTests, CP!DepsOfNew, CP!Linked, CP!Marked
<1>8. /\ d.test \subseteq Tests /\ d.testDep \subseteq Tests \X Tests
      /\ d.needsTest \subseteq Tests \X Tests /\ d.commitTest \subseteq Commits \X Tests
      /\ TestsOf[c] \subseteq Tests /\ \A t \in Tests : DepsOf[t] \subseteq Tests
  BY DEF Database, Sound
<1>9. /\ e.test = exist /\ e.testDep = d.testDep \cup linked \cup marked
      /\ e.needsTest = ((d.needsTest \cup deps) \ linked) \ marked
  BY <1>7 DEF Database
<1>10. e \in Database
  <2>1. /\ exist \subseteq Tests /\ d.testDep \cup linked \cup marked \subseteq Tests \X Tests
        /\ ((d.needsTest \cup deps) \ linked) \ marked \subseteq Tests \X Tests
        /\ d.commitTest \cup {<<c, t>> : t \in TestsOf[c]} \subseteq Commits \X Tests
    BY <1>1, <1>2, <1>3, <1>4, <1>5, <1>8
  <2>2. QED  BY <1>7, <2>1 DEF Database
<1>11. Links(e)
  <2>1. \A w \in e.testDep \cup e.needsTest : w[1] \in e.test
    BY <1>2, <1>3, <1>4, <1>5, <1>9 DEF Links
  <2>2. ASSUME NEW t \in e.test, NEW x \in DepsOf[t]
        PROVE  IF x \in e.test THEN <<t, x>> \in e.testDep /\ <<t, x>> \notin e.needsTest
               ELSE <<t, x>> \in e.needsTest /\ <<t, x>> \notin e.testDep
    <3>1. t \in Tests /\ x \in Tests
      BY <1>1, <1>3, <1>8, <1>9, <2>2
    <3>2. /\ <<t, x>> \in deps <=> t \in new
          /\ <<t, x>> \in linked <=> t \in new /\ x \in exist
          /\ <<t, x>> \in marked <=> <<t, x>> \in d.needsTest /\ x \in new
      BY <1>2, <1>4, <1>5, <2>2, <3>1
    <3>3. t \notin d.test => <<t, x>> \notin d.testDep /\ <<t, x>> \notin d.needsTest
      BY DEF Links
    <3>4. t \in d.test => IF x \in d.test
                          THEN <<t, x>> \in d.testDep /\ <<t, x>> \notin d.needsTest
                          ELSE <<t, x>> \in d.needsTest /\ <<t, x>> \notin d.testDep
      BY <2>2 DEF Links
    <3>5. /\ t \in new <=> t \in exist /\ t \notin d.test
          /\ x \in new <=> x \in exist /\ x \notin d.test
          /\ x \in d.test => x \in exist
      BY <1>1, <1>3
    <3>6. /\ <<t, x>> \in e.testDep <=> \/ <<t, x>> \in d.testDep \/ <<t, x>> \in linked
                                        \/ <<t, x>> \in marked
          /\ <<t, x>> \in e.needsTest <=> /\ <<t, x>> \in d.needsTest \/ <<t, x>> \in deps
                                          /\ <<t, x>> \notin linked /\ <<t, x>> \notin marked
      BY <1>9
    <3>7. t \in exist /\ e.test = exist
      BY <1>9, <2>2
    <3>8. QED  BY <3>2, <3>3, <3>4, <3>5, <3>6, <3>7, Zenon
  <2>3. QED  BY <2>1, <2>2 DEF Links
<1>12. QED  BY <1>6, <1>10, <1>11

(* The branches and repositories of a database. *)
SameBranches(d, e) ==
    e.repo = d.repo /\ e.branch = d.branch /\ e.head = d.head /\ e.tracks = d.tracks

(* It touches nothing else. *)
LEMMA CreateTestsFields ==
  ASSUME NEW d \in Database, NEW c, NEW e, e = CP!CreateTests(d, c)
  PROVE  /\ SameBranches(d, e) /\ e.data = d.data /\ e.parsed = d.parsed /\ e.noTests = d.noTests
         /\ e.repos = d.repos /\ e.pins = d.pins /\ e.new = d.new
         /\ e.needsRepo = d.needsRepo /\ e.needsCommit = d.needsCommit
BY DEF CP!CreateTests, Database, SameBranches

(* What c may come to wait for: repositories that are unknown and commits that *)
(* are not loaded.                                                          *)
NewNeeds(d, e, c) ==
    /\ d.needsRepo \subseteq e.needsRepo /\ d.needsCommit \subseteq e.needsCommit
    /\ \A w \in e.needsRepo \ d.needsRepo : w[1] = c /\ d.repo[w[2]] = "unknown"
    /\ \A w \in e.needsCommit \ d.needsCommit : w[1] = c /\ w[2] \notin d.data

(* A commit that is missing is waited for. *)
LEMMA CreateSourceDepWaits ==
  ASSUME Sound, NEW d \in Database, NEW c \in Commits, NEW x \in Commits,
         d.repo[RepoOf[x]] = "unknown" \/ x \notin d.data
  PROVE  LET e == CP!CreateSourceDep(d, c, x)
         IN  /\ e \in Database /\ NewNeeds(d, e, c) /\ CP!Waits(e, c)
             /\ SameBranches(d, e) /\ e.data = d.data /\ e.parsed = d.parsed /\ e.noTests = d.noTests
             /\ e.repos = d.repos /\ e.pins = d.pins /\ e.new = d.new
             /\ Links(d) => Links(e)
<1> DEFINE e == CP!CreateSourceDep(d, c, x)
<1>0. /\ RepoOf[x] \in Repos /\ <<c, RepoOf[x]>> \in Commits \X Repos
      /\ <<c, x>> \in Commits \X Commits
  BY DEF Sound
<1>1. CASE d.repo[RepoOf[x]] = "unknown"
  <2>1. e = [d EXCEPT !.needsRepo = @ \cup {<<c, RepoOf[x]>>}]
    BY <1>1 DEF CP!CreateSourceDep
  <2>2. e \in Database /\ e.needsRepo = d.needsRepo \cup {<<c, RepoOf[x]>>}
    <3>1. PICK n : n = d.needsRepo \cup {<<c, RepoOf[x]>>}
      OBVIOUS
    <3>2. n \in SUBSET (Commits \X Repos)
      BY <1>0, <3>1 DEF Database
    <3>3. e = [d EXCEPT !.needsRepo = n]
      BY <2>1, <3>1
    <3> HIDE DEF e
    <3>4. e.needsRepo = n
      BY <3>3 DEF Database
    <3>5. e \in Database
      BY <3>2, <3>3 DEF Database
    <3>6. QED  BY <3>1, <3>4, <3>5
  <2>3. /\ SameBranches(d, e) /\ e.data = d.data /\ e.parsed = d.parsed /\ e.noTests = d.noTests
        /\ e.repos = d.repos /\ e.pins = d.pins /\ e.new = d.new
        /\ e.needsCommit = d.needsCommit
        /\ e.test = d.test /\ e.testDep = d.testDep /\ e.needsTest = d.needsTest
    BY <2>1 DEF Database, SameBranches
  <2> HIDE DEF e
  <2>4. NewNeeds(d, e, c) /\ CP!Waits(e, c)
    BY <1>0, <1>1, <2>2, <2>3 DEF NewNeeds, CP!Waits
  <2>5. Links(d) => Links(e)
    BY <2>3 DEF Links
  <2>6. QED  BY <2>2, <2>3, <2>4, <2>5 DEF e
<1>2. CASE d.repo[RepoOf[x]] # "unknown"
  <2>1. e = [d EXCEPT !.needsCommit = @ \cup {<<c, x>>}]
    BY <1>2 DEF CP!CreateSourceDep
  <2>2. e \in Database /\ e.needsCommit = d.needsCommit \cup {<<c, x>>}
    <3>1. PICK n : n = d.needsCommit \cup {<<c, x>>}
      OBVIOUS
    <3>2. n \in SUBSET (Commits \X Commits)
      BY <1>0, <3>1 DEF Database
    <3>3. e = [d EXCEPT !.needsCommit = n]
      BY <2>1, <3>1
    <3> HIDE DEF e
    <3>4. e.needsCommit = n
      BY <3>3 DEF Database
    <3>5. e \in Database
      BY <3>2, <3>3 DEF Database
    <3>6. QED  BY <3>1, <3>4, <3>5
  <2>3. /\ SameBranches(d, e) /\ e.data = d.data /\ e.parsed = d.parsed /\ e.noTests = d.noTests
        /\ e.repos = d.repos /\ e.pins = d.pins /\ e.new = d.new
        /\ e.needsRepo = d.needsRepo
        /\ e.test = d.test /\ e.testDep = d.testDep /\ e.needsTest = d.needsTest
    BY <2>1 DEF Database, SameBranches
  <2> HIDE DEF e
  <2>4. NewNeeds(d, e, c) /\ CP!Waits(e, c)
    BY <1>2, <2>2, <2>3 DEF NewNeeds, CP!Waits
  <2>5. Links(d) => Links(e)
    BY <2>3 DEF Links
  <2>6. QED  BY <2>2, <2>3, <2>4, <2>5 DEF e
<1>3. QED  BY <1>1, <1>2

(* The repositories that a commit pins are noted. *)
Pinning(d, c, P) == [d EXCEPT !.repos[c] = P]

(* That changes nothing else. *)
LEMMA PinningDb ==
  ASSUME NEW d \in Database, NEW c \in Commits, NEW P \in SUBSET Branches,
         NEW e, e = Pinning(d, c, P)
  PROVE  /\ e \in Database /\ e.repos = [d.repos EXCEPT ![c] = P]
         /\ SameBranches(d, e) /\ e.data = d.data /\ e.pins = d.pins /\ e.new = d.new
         /\ e.parsed = d.parsed /\ e.noTests = d.noTests
         /\ e.needsRepo = d.needsRepo /\ e.needsCommit = d.needsCommit
         /\ e.test = d.test /\ e.testDep = d.testDep /\ e.needsTest = d.needsTest
         /\ Links(d) => Links(e)
<1>1. PICK R : R = [d.repos EXCEPT ![c] = P]
  OBVIOUS
<1>2. R \in [Commits -> SUBSET Branches]
  BY <1>1 DEF Database
<1>3. e = [d EXCEPT !.repos = R]
  BY <1>1 DEF Pinning
<1>4. e \in Database /\ e.repos = R
  BY <1>2, <1>3 DEF Database
<1>5. /\ SameBranches(d, e) /\ e.data = d.data /\ e.pins = d.pins /\ e.new = d.new
      /\ e.parsed = d.parsed /\ e.noTests = d.noTests
      /\ e.needsRepo = d.needsRepo /\ e.needsCommit = d.needsCommit
      /\ e.test = d.test /\ e.testDep = d.testDep /\ e.needsTest = d.needsTest
  BY <1>3 DEF Database, SameBranches
<1>6. Links(d) => Links(e)
  BY <1>5 DEF Links
<1>7. QED  BY <1>1, <1>4, <1>5, <1>6

(* What parsing c does not touch, save its own pins. *)
Untouched(d, e) ==
    /\ SameBranches(d, e) /\ e.data = d.data /\ e.pins = d.pins /\ e.new = d.new
    /\ e.needsRepo = d.needsRepo /\ e.needsCommit = d.needsCommit

(* One field is set. *)
LEMMA SetDb ==
  ASSUME NEW d \in Database, Links(d), NEW p \in SUBSET Commits, NEW e,
         e \in {SetParsed(d, p), SetNoTests(d, p), SetError(d, p)}
  PROVE  Links(e) /\ Untouched(d, e) /\ e.repos = d.repos
<1>1. /\ e.test = d.test /\ e.testDep = d.testDep /\ e.needsTest = d.needsTest
      /\ Untouched(d, e) /\ e.repos = d.repos
  BY DEF Database, SetParsed, SetNoTests, SetError, Untouched, SameBranches
<1>2. QED  BY <1>1 DEF Links

(* A commit is done with; and it is noted that it has no tests, or an error. *)
LEMMA DoneDb ==
  ASSUME NEW d \in Database, Links(d), NEW p \in SUBSET Commits, NEW n \in SUBSET Commits,
         NEW q \in SUBSET Commits, NEW e, e = SetError(SetNoTests(SetParsed(d, p), n), q)
  PROVE  /\ e \in Database /\ Links(e) /\ Untouched(d, e) /\ e.repos = d.repos
         /\ e.parsed = p /\ e.noTests = n
<1>1. PICK f : f = SetParsed(d, p)
  OBVIOUS
<1>2. PICK g : g = SetNoTests(f, n)
  OBVIOUS
<1>3. e = SetError(g, q)
  BY <1>1, <1>2
<1>4. f \in Database /\ f.parsed = p /\ Links(f) /\ Untouched(d, f) /\ f.repos = d.repos
  BY <1>1, SetIn, SetIs, SetDb
<1>5. /\ g \in Database /\ g.parsed = p /\ g.noTests = n
      /\ Links(g) /\ Untouched(f, g) /\ g.repos = f.repos
  BY <1>2, <1>4, SetIn, SetIs, SetDb
<1>6. /\ e \in Database /\ e.parsed = p /\ e.noTests = n
      /\ Links(e) /\ Untouched(g, e) /\ e.repos = g.repos
  BY <1>3, <1>5, SetIn, SetIs, SetDb
<1>7. Untouched(d, e)
  BY <1>4, <1>5, <1>6 DEF Untouched, SameBranches
<1>8. QED  BY <1>4, <1>5, <1>6, <1>7

(* Commits whose definitions are still to be taken in, and those that have     *)
(* been looked into.                                                        *)
Unfinished(d) == d.data \ (d.parsed \cup d.noTests)
Looked(d) == Unfinished(d) \cup d.parsed

(* A commit is parsed, with or without an error, or has no tests, or comes to  *)
(* wait with the pins of its own file.                                       *)
LEMMA ParseDb ==
  ASSUME Sound, NEW d \in Database, Links(d), NEW c \in Looked(d), NEW local,
         d.data \subseteq local, c \in Commits, NEW e, e = CP!Parse(d, local, c)
  PROVE  /\ e \in Database /\ Links(e) /\ NewNeeds(d, e, c)
         /\ SameBranches(d, e) /\ e.data = d.data /\ e.pins = d.pins /\ e.new = d.new
         /\ e.parsed \in {d.parsed, d.parsed \cup {c}}
         /\ e.noTests \in {d.noTests, d.noTests \cup {c}}
         /\ c \in e.parsed \/ (CP!Waits(e, c) /\ c \in Unfinished(e) /\ e.repos[c] = PinsOf[c])
         /\ \A x \in Commits : x # c \/ c \in d.parsed => e.repos[x] = d.repos[x]
<1>0. /\ d.repos \in [Commits -> SUBSET Branches]
      /\ PinsOf[c] \in SUBSET Branches /\ PinsOf[c] \cup MorePinsOf[c] \in SUBSET Branches
  BY DEF Database, Sound
<1>1. CASE c \in d.parsed
  <2>1. e = d
    BY <1>1 DEF CP!Parse
  <2>2. NewNeeds(d, e, c) /\ SameBranches(d, e)
    BY <2>1 DEF NewNeeds, SameBranches
  <2>3. QED  BY <1>1, <2>1, <2>2
<1>2. CASE c \notin d.parsed
  <2>1. PICK own : own = Pinning(d, c, PinsOf[c])
    OBVIOUS
  <2>2. PICK missing : missing = {x \in Refs[c] : ~CP!There(d, local, x)}
    OBVIOUS
  <2>3. PICK nearest : nearest = {x \in missing : \A y \in missing : x \notin Refs[y]}
    OBVIOUS
  <2>a. PICK whole : whole = Pinning(d, c, PinsOf[c] \cup MorePinsOf[c])
    OBVIOUS
  <2>4. \/ e = [d EXCEPT !.parsed = @ \cup {c}, !.noTests = @ \cup {c}]
        \/ e = [own EXCEPT !.parsed = @ \cup {c}, !.error = @ \cup {c}]
        \/ missing # {} /\ e = CP!CreateSourceDep(own, c, CHOOSE x \in nearest : TRUE)
        \/ e = [CP!CreateTests(whole, c) EXCEPT !.parsed = @ \cup {c}]
    <3>1. [own EXCEPT !.repos[c] = PinsOf[c] \cup MorePinsOf[c]] = whole
      BY <2>1, <2>a DEF Pinning, Database
    <3>2. [d EXCEPT !.repos[c] = PinsOf[c]] = own
      BY <2>1 DEF Pinning
    <3>3. QED  BY <1>2, <2>2, <2>3, <3>1, <3>2 DEF CP!Parse
  <2>5. /\ own \in Database /\ own.repos = [d.repos EXCEPT ![c] = PinsOf[c]]
        /\ Untouched(d, own) /\ own.parsed = d.parsed /\ own.noTests = d.noTests /\ Links(own)
    BY <1>0, <2>1, PinningDb DEF Untouched
  <2>b. /\ whole \in Database
        /\ whole.repos = [d.repos EXCEPT ![c] = PinsOf[c] \cup MorePinsOf[c]]
        /\ Untouched(d, whole) /\ whole.parsed = d.parsed /\ whole.noTests = d.noTests
        /\ Links(whole)
    <3>1. PICK P \in SUBSET Branches : P = PinsOf[c] \cup MorePinsOf[c]
      BY <1>0
    <3>2. whole = Pinning(d, c, P)
      BY <2>a, <3>1
    <3>3. /\ whole \in Database /\ whole.repos = [d.repos EXCEPT ![c] = P]
          /\ Untouched(d, whole) /\ whole.parsed = d.parsed /\ whole.noTests = d.noTests
          /\ Links(whole)
      BY <3>2, PinningDb DEF Untouched
    <3>4. QED  BY <3>1, <3>3
  <2>c. /\ \A x \in Commits : x # c => own.repos[x] = d.repos[x] /\ whole.repos[x] = d.repos[x]
        /\ own.repos[c] = PinsOf[c]
    BY <1>0, <2>5, <2>b
  <2>6. CASE e = [d EXCEPT !.parsed = @ \cup {c}, !.noTests = @ \cup {c}]
    <3>1. PICK p \in SUBSET Commits, n \in SUBSET Commits, q \in SUBSET Commits :
             p = d.parsed \cup {c} /\ n = d.noTests \cup {c} /\ q = d.error
      BY DEF Database
    <3>2. e = SetError(SetNoTests(SetParsed(d, p), n), q)
      BY <2>6, <3>1 DEF Database, SetParsed, SetNoTests, SetError
    <3>3. /\ e \in Database /\ Links(e) /\ Untouched(d, e) /\ e.repos = d.repos
          /\ e.parsed = p /\ e.noTests = n
      BY <3>2, DoneDb
    <3>4. NewNeeds(d, e, c)
      BY <3>3 DEF NewNeeds, Untouched
    <3>5. QED  BY <1>2, <3>1, <3>3, <3>4 DEF Untouched
  <2>7. CASE e = [own EXCEPT !.parsed = @ \cup {c}, !.error = @ \cup {c}]
    <3>0. own \in Database
      BY <2>5
    <3>1. PICK p \in SUBSET Commits, n \in SUBSET Commits, q \in SUBSET Commits :
             p = own.parsed \cup {c} /\ n = own.noTests /\ q = own.error \cup {c}
      BY <3>0 DEF Database
    <3>2. e = SetError(SetNoTests(SetParsed(own, p), n), q)
      BY <2>7, <3>0, <3>1 DEF Database, SetParsed, SetNoTests, SetError
    <3>3. /\ e \in Database /\ Links(e) /\ Untouched(own, e) /\ e.repos = own.repos
          /\ e.parsed = p /\ e.noTests = n
      BY <2>5, <3>2, DoneDb
    <3>4. Untouched(d, e)
      BY <2>5, <3>3 DEF Untouched, SameBranches
    <3>5. NewNeeds(d, e, c)
      BY <3>4 DEF NewNeeds, Untouched
    <3>6. QED  BY <1>2, <2>5, <2>c, <3>1, <3>3, <3>4, <3>5 DEF Untouched
  <2>8. CASE missing # {} /\ e = CP!CreateSourceDep(own, c, CHOOSE x \in nearest : TRUE)
    <3>1. missing \in SUBSET Commits /\ missing \in SUBSET Refs[c]
      BY <2>2 DEF Sound
    <3>2. nearest # {}
      <4>1. \E x \in missing : \A y \in missing : x \notin Refs[y]
        BY <2>8, <3>1 DEF Sound
      <4>2. QED  BY <2>3, <4>1
    <3>3. PICK x \in nearest : e = CP!CreateSourceDep(own, c, x)
      BY <2>8, <3>2
    <3>4. x \in Commits /\ (own.repo[RepoOf[x]] = "unknown" \/ x \notin own.data)
      BY <2>2, <2>3, <2>5, <3>1 DEF CP!There, SameBranches, Untouched
    <3>5. /\ e \in Database /\ NewNeeds(own, e, c) /\ CP!Waits(e, c)
          /\ SameBranches(own, e) /\ e.data = own.data /\ e.parsed = own.parsed
          /\ e.noTests = own.noTests
          /\ e.repos = own.repos /\ e.pins = own.pins /\ e.new = own.new /\ Links(e)
      BY <2>5, <3>3, <3>4, CreateSourceDepWaits
    <3>6. c \in Unfinished(e)
      BY <1>2, <2>5, <3>5 DEF Looked, Unfinished, Untouched
    <3>7. QED  BY <1>2, <2>5, <2>c, <3>5, <3>6 DEF NewNeeds, SameBranches, Untouched
  <2>9. CASE e = [CP!CreateTests(whole, c) EXCEPT !.parsed = @ \cup {c}]
    <3>1. PICK f : f = CP!CreateTests(whole, c)
      OBVIOUS
    <3>2. /\ Untouched(whole, f) /\ f.parsed = whole.parsed /\ f.noTests = whole.noTests
          /\ f.repos = whole.repos /\ f \in Database /\ Links(f)
      BY <2>b, <3>1, CreateTestsFields, CreateTestsLinks DEF Untouched
    <3>3. f \in Database
      BY <3>2
    <3>4. PICK p \in SUBSET Commits, n \in SUBSET Commits, q \in SUBSET Commits :
             p = f.parsed \cup {c} /\ n = f.noTests /\ q = f.error
      BY <3>3 DEF Database
    <3>5. e = SetError(SetNoTests(SetParsed(f, p), n), q)
      BY <2>9, <3>1, <3>3, <3>4 DEF Database, SetParsed, SetNoTests, SetError
    <3>6. /\ e \in Database /\ Links(e) /\ Untouched(f, e) /\ e.repos = f.repos
          /\ e.parsed = p /\ e.noTests = n
      BY <3>2, <3>5, DoneDb
    <3>7. Untouched(d, e)
      BY <2>b, <3>2, <3>6 DEF Untouched, SameBranches
    <3>8. NewNeeds(d, e, c)
      BY <3>7 DEF NewNeeds, Untouched
    <3>9. QED  BY <1>2, <2>b, <2>c, <3>2, <3>4, <3>6, <3>7, <3>8 DEF Untouched
  <2>10. QED  BY <2>4, <2>6, <2>7, <2>8, <2>9
<1>3. QED  BY <1>1, <1>2

------------------------------------------------------------------------------
(* What a commit waits for is really missing. *)
Needs(d) ==
    /\ \A w \in d.needsRepo : w[1] \in Looked(d) /\ d.repo[w[2]] = "unknown"
    /\ \A w \in d.needsCommit : w[1] \in Looked(d) /\ w[2] \notin d.data
    /\ d.parsed \subseteq d.data /\ d.noTests \subseteq d.data

(* Nobody waits, and nothing is queued, on behalf of a commit. *)
Unmentioned(d, c) ==
    /\ \A w \in d.needsRepo \cup d.needsCommit : w[1] # c
    /\ \A t \in d.new : t.kind = "CommitTestParse" => t.of # c

(* A commit is parsed, or has no tests, or will be parsed: T and d.new are the *)
(* tasks there are.                                                         *)
Remembered(d, T, c) ==
    \/ c \in d.parsed \cup d.noTests
    \/ CP!Task("CommitTestParse", c) \in T \cup d.new \/ CP!Waits(d, c)

(* The pins of a branch are those of the head, or those of the head's own file. *)
PinsOk(d, b) ==
    IF d.head[b] \notin d.data THEN d.pins[b] = {}
    ELSE \/ d.pins[b] = d.repos[d.head[b]]
         \/ d.head[b] \in d.parsed /\ d.pins[b] = PinsOf[d.head[b]]

(* As long as a commit is not finished its pins are those of its own file, and *)
(* a branch that is not there has no head.                                    *)
OwnPins(d, c) == c \in Unfinished(d) => d.repos[c] = PinsOf[c]
Headless(d) == \A b \in Branches : b \notin d.branch => d.head[b] = None
PinsExact(d) ==
    /\ \A b \in Branches : PinsOk(d, b)
    /\ Headless(d) /\ \A x \in Commits : OwnPins(d, x)

(* The same, but for commit c. *)
PinsBut(d, c) ==
    /\ \A b \in Branches : d.head[b] # c => PinsOk(d, b)
    /\ Headless(d) /\ \A x \in Commits : x # c => OwnPins(d, x)

(* What is queued by the loading of commits. *)
NewTasks(d) == \A t \in d.new :
    \/ t.kind = "UpdateCommitData"
    \/ t.kind = "CommitTestParse" /\ t.of \in Looked(d)

LooseInv(d, c) == d \in Database /\ Links(d) /\ Needs(d) /\ PinsBut(d, c) /\ NewTasks(d)
DbInv(d) == d \in Database /\ Links(d) /\ Needs(d) /\ PinsExact(d) /\ NewTasks(d)

(* Tasks that are queued. *)
LEMMA QueueDb ==
  ASSUME NEW d \in Database, NEW what, NEW e, e = CP!Queue(d, what),
         what \subseteq TaskSet
  PROVE  /\ e \in Database /\ e.new = d.new \cup what /\ SameBranches(d, e)
         /\ e.data = d.data /\ e.parsed = d.parsed /\ e.noTests = d.noTests /\ e.repos = d.repos /\ e.pins = d.pins
         /\ e.needsRepo = d.needsRepo /\ e.needsCommit = d.needsCommit
         /\ e.test = d.test /\ e.testDep = d.testDep /\ e.needsTest = d.needsTest
<1>1. PICK n : n = d.new \cup what
  OBVIOUS
<1>2. e = [d EXCEPT !.new = n]
  BY <1>1 DEF CP!Queue
<1>3. n \in SUBSET TaskSet
  BY <1>1 DEF Database
<1>4. e \in Database /\ e.new = n
  BY <1>2, <1>3 DEF Database
<1>5. QED  BY <1>1, <1>2, <1>4 DEF Database, SameBranches

(* Commits that become known have their data loaded. *)
LEMMA LookupCommitsDb ==
  ASSUME NEW d \in Database, NEW cs \in SUBSET Commits, NEW e, e = CP!LookupCommits(d, cs)
  PROVE  /\ e \in Database /\ SameBranches(d, e) /\ d.new \subseteq e.new
         /\ \A t \in e.new \ d.new : t.kind = "UpdateCommitData"
         /\ e.data = d.data /\ e.parsed = d.parsed /\ e.noTests = d.noTests /\ e.repos = d.repos /\ e.pins = d.pins
         /\ e.needsRepo = d.needsRepo /\ e.needsCommit = d.needsCommit
         /\ e.test = d.test /\ e.testDep = d.testDep /\ e.needsTest = d.needsTest
<1>1. PICK k : k = d.known \cup cs
  OBVIOUS
<1>2. PICK f : f = [d EXCEPT !.known = k]
  OBVIOUS
<1>3. k \in SUBSET Commits
  BY <1>1 DEF Database
<1>4. /\ f \in Database /\ f.new = d.new /\ SameBranches(d, f)
      /\ f.data = d.data /\ f.parsed = d.parsed /\ f.noTests = d.noTests /\ f.repos = d.repos /\ f.pins = d.pins
      /\ f.needsRepo = d.needsRepo /\ f.needsCommit = d.needsCommit
      /\ f.test = d.test /\ f.testDep = d.testDep /\ f.needsTest = d.needsTest
  BY <1>2, <1>3 DEF Database, SameBranches
<1>5. PICK what : what = {CP!Task("UpdateCommitData", c) : c \in cs \ d.data}
  OBVIOUS
<1>6. /\ what \subseteq TaskSet
      /\ \A t \in what : t.kind = "UpdateCommitData"
  <2>1. ASSUME NEW c \in cs
        PROVE  /\ CP!Task("UpdateCommitData", c).kind = "UpdateCommitData"
               /\ CP!Task("UpdateCommitData", c) \in TaskSet
    <3>1. c \in Commits \cup Repos \cup Branches \cup {None} /\ "UpdateCommitData" \in TaskKinds
      BY DEF TaskKinds
    <3>2. QED  BY <3>1, TaskIs
  <2>2. QED  BY <1>5, <2>1
<1>7. e = CP!Queue(f, what)
  <2>1. [d EXCEPT !.known = @ \cup cs] = f
    BY <1>1, <1>2
  <2>2. QED  BY <1>5, <2>1, Zenon DEF CP!LookupCommits
<1>8. QED  BY <1>4, <1>6, <1>7, QueueDb DEF SameBranches

(* Those who have lost what they waited for are parsed again, or wait on. *)
LEMMA TriggerDb ==
  ASSUME NEW d \in Database, NEW cs \in SUBSET Commits, NEW e, e = CP!TriggerCommitTestParse(d, cs)
  PROVE  /\ e \in Database /\ SameBranches(d, e) /\ d.new \subseteq e.new
         /\ \A t \in e.new \ d.new : t.kind = "CommitTestParse" /\ t.of \in cs
         /\ \A c \in cs : CP!Task("CommitTestParse", c) \in e.new \/ CP!Waits(e, c)
         /\ e.data = d.data /\ e.parsed = d.parsed /\ e.noTests = d.noTests /\ e.repos = d.repos /\ e.pins = d.pins
         /\ e.needsRepo = d.needsRepo /\ e.needsCommit = d.needsCommit
         /\ e.test = d.test /\ e.testDep = d.testDep /\ e.needsTest = d.needsTest
<1>1. PICK what : what = {CP!Task("CommitTestParse", c) : c \in {x \in cs : ~CP!Waits(d, x)}}
  OBVIOUS
<1>2. /\ what \subseteq TaskSet
      /\ \A t \in what : t.kind = "CommitTestParse" /\ t.of \in cs
      /\ \A c \in cs : CP!Task("CommitTestParse", c) \in what \/ CP!Waits(d, c)
  <2>1. ASSUME NEW c \in cs
        PROVE  /\ CP!Task("CommitTestParse", c).kind = "CommitTestParse"
               /\ CP!Task("CommitTestParse", c).of = c
               /\ CP!Task("CommitTestParse", c) \in TaskSet
    <3>1. c \in Commits \cup Repos \cup Branches \cup {None} /\ "CommitTestParse" \in TaskKinds
      BY DEF TaskKinds
    <3>2. QED  BY <3>1, TaskIs
  <2>2. QED  BY <1>1, <2>1
<1>3. e = CP!Queue(d, what)
  BY <1>1 DEF CP!TriggerCommitTestParse
<1>4. /\ e \in Database /\ e.new = d.new \cup what /\ SameBranches(d, e)
      /\ e.data = d.data /\ e.parsed = d.parsed /\ e.noTests = d.noTests /\ e.repos = d.repos /\ e.pins = d.pins
      /\ e.needsRepo = d.needsRepo /\ e.needsCommit = d.needsCommit
      /\ e.test = d.test /\ e.testDep = d.testDep /\ e.needsTest = d.needsTest
  BY <1>2, <1>3, QueueDb
<1>5. \A c \in cs : CP!Waits(d, c) => CP!Waits(e, c)
  BY <1>4 DEF CP!Waits
<1>6. QED  BY <1>2, <1>4, <1>5

(* The pins of branches are taken from their heads. *)
LEMMA RecalculateDb ==
  ASSUME Sound, NEW d \in Database, NEW bs, NEW e, e = CP!RecalculateBranchPins(d, bs)
  PROVE  /\ e \in Database /\ SameBranches(d, e) /\ e.new = d.new
         /\ \A b \in Branches : e.pins[b] = IF b \notin bs THEN d.pins[b]
                ELSE IF d.head[b] \in d.data THEN d.repos[d.head[b]] ELSE {}
         /\ e.data = d.data /\ e.parsed = d.parsed /\ e.noTests = d.noTests /\ e.repos = d.repos
         /\ e.needsRepo = d.needsRepo /\ e.needsCommit = d.needsCommit
         /\ e.test = d.test /\ e.testDep = d.testDep /\ e.needsTest = d.needsTest
<1>1. PICK p : p = [b \in Branches |-> IF b \notin bs THEN d.pins[b]
                     ELSE IF d.head[b] \in d.data THEN d.repos[d.head[b]] ELSE {}]
  OBVIOUS
<1>2. p \in [Branches -> SUBSET Branches]
  <2>1. /\ d.pins \in [Branches -> SUBSET Branches]
        /\ d.repos \in [Commits -> SUBSET Branches] /\ d.data \subseteq Commits
    BY DEF Database
  <2>2. QED  BY <1>1, <2>1
<1>3. e = [d EXCEPT !.pins = p]
  BY <1>1 DEF CP!RecalculateBranchPins
<1>4. e \in Database /\ e.pins = p
  BY <1>2, <1>3 DEF Database
<1>5. /\ SameBranches(d, e) /\ e.new = d.new
      /\ e.data = d.data /\ e.parsed = d.parsed /\ e.noTests = d.noTests /\ e.repos = d.repos
      /\ e.needsRepo = d.needsRepo /\ e.needsCommit = d.needsCommit
      /\ e.test = d.test /\ e.testDep = d.testDep /\ e.needsTest = d.needsTest
  BY <1>3 DEF Database, SameBranches
<1>6. QED  BY <1>1, <1>4, <1>5

(* The parents of a commit are commits. *)
LEMMA ParentsAre ==
  ASSUME Sound, NEW c \in Commits
  PROVE  CP!Parents(c) \subseteq Commits
<1>1. LookingBack[c] \in Seq(Commits) /\ c \in CP!Reachable(c)
  BY DEF Sound
<1>2. Len(LookingBack[c]) \in Nat /\ Len(LookingBack[c]) # 0
  <2>1. PICK i \in DOMAIN LookingBack[c] : TRUE
    BY <1>1 DEF CP!Reachable, CP!Range
  <2>2. QED  BY <1>1, <2>1
<1>3. Len(LookingBack[c]) # 1 => LookingBack[c][2] \in Commits
  <2>1. PICK s \in Seq(Commits) : s = LookingBack[c]
    BY <1>1
  <2>2. PICK n \in Nat : n = Len(s)
    BY LenProperties
  <2>3. n # 0 /\ n # 1 => 2 \in 1 .. n
    BY SMT
  <2>4. QED  BY <1>2, <2>1, <2>2, <2>3, ElementOfSeq
<1>4. QED  BY <1>3 DEF CP!Parents

(* The data of a commit arrives, and whoever waited for it is told. *)
Arrived(d, c) ==
    CP!TriggerCommitTestParse([CP!LookupCommits(d, {c} \cup CP!Parents(c)) EXCEPT
                                !.data = @ \cup {c}, !.needsCommit = {w \in @ : w[2] # c}],
                           {x \in Commits : <<x, c>> \in d.needsCommit})

(* What this does to the database. *)
LEMMA ArrivesDb ==
  ASSUME Sound, NEW d, DbInv(d), NEW c \in Commits, c \notin d.data, NEW g, g = Arrived(d, c)
  PROVE  /\ LooseInv(g, c) /\ SameBranches(d, g) /\ d.new \subseteq g.new
         /\ g.data = d.data \cup {c} /\ c \in Unfinished(g) /\ Looked(d) \subseteq Looked(g)
         /\ Unmentioned(g, c)
         /\ \A T, x : x \in Commits /\ Remembered(d, T, x) => Remembered(g, T, x)
<1>0. PICK known : known = CP!LookupCommits(d, {c} \cup CP!Parents(c))
  OBVIOUS
<1>1. d \in Database /\ Links(d) /\ Needs(d) /\ NewTasks(d)
  BY DEF DbInv
<1>2. {c} \cup CP!Parents(c) \in SUBSET Commits
  BY ParentsAre
<1>3. /\ known \in Database /\ SameBranches(d, known) /\ d.new \subseteq known.new
      /\ \A t \in known.new \ d.new : t.kind = "UpdateCommitData"
      /\ known.data = d.data /\ known.parsed = d.parsed /\ known.noTests = d.noTests /\ known.repos = d.repos
      /\ known.pins = d.pins
      /\ known.needsRepo = d.needsRepo /\ known.needsCommit = d.needsCommit
      /\ known.test = d.test /\ known.testDep = d.testDep /\ known.needsTest = d.needsTest
  BY <1>0, <1>1, <1>2, LookupCommitsDb
<1>4. PICK dat, nc : dat = d.data \cup {c} /\ nc = {w \in d.needsCommit : w[2] # c}
  OBVIOUS
<1>5. dat \in SUBSET Commits /\ nc \in SUBSET (Commits \X Commits)
  BY <1>1, <1>4 DEF Database
<1>6. PICK there : there = [known EXCEPT !.data = dat, !.needsCommit = nc]
  OBVIOUS
<1>7. there \in Database /\ there.data = dat /\ there.needsCommit = nc
  <2>1. known \in Database
    BY <1>3
  <2>2. QED  BY <1>5, <1>6, <2>1 DEF Database
<1>8. /\ SameBranches(known, there) /\ there.new = known.new
      /\ there.parsed = known.parsed /\ there.noTests = known.noTests /\ there.repos = known.repos
      /\ there.pins = known.pins /\ there.needsRepo = known.needsRepo
      /\ there.test = known.test /\ there.testDep = known.testDep
      /\ there.needsTest = known.needsTest
  <2>1. known \in Database
    BY <1>3
  <2>2. QED  BY <1>6, <2>1 DEF Database, SameBranches
<1>9. PICK waiting \in SUBSET Commits : waiting = {x \in Commits : <<x, c>> \in d.needsCommit}
  OBVIOUS
<1>a. g = CP!TriggerCommitTestParse(there, waiting)
  <2>1. there = [known EXCEPT !.data = @ \cup {c}, !.needsCommit = {w \in @ : w[2] # c}]
    BY <1>3, <1>4, <1>6
  <2>2. QED  BY <1>0, <1>9, <2>1, Zenon DEF Arrived
<1>10. /\ g \in Database /\ SameBranches(there, g) /\ there.new \subseteq g.new
       /\ \A t \in g.new \ there.new : t.kind = "CommitTestParse" /\ t.of \in waiting
       /\ \A x \in waiting : CP!Task("CommitTestParse", x) \in g.new \/ CP!Waits(g, x)
       /\ g.data = there.data /\ g.parsed = there.parsed /\ g.noTests = there.noTests /\ g.repos = there.repos
       /\ g.pins = there.pins
       /\ g.needsRepo = there.needsRepo /\ g.needsCommit = there.needsCommit
       /\ g.test = there.test /\ g.testDep = there.testDep /\ g.needsTest = there.needsTest
  <2>1. there \in Database
    BY <1>7
  <2>2. QED  BY <1>a, <2>1, TriggerDb
<1>11. Links(g)
  <2>1. g.test = d.test /\ g.testDep = d.testDep /\ g.needsTest = d.needsTest
    BY <1>3, <1>8, <1>10
  <2>2. QED  BY <1>1, <2>1 DEF Links
<1>11a. /\ g.data = d.data \cup {c} /\ g.parsed = d.parsed /\ g.noTests = d.noTests
        /\ g.repos = d.repos /\ g.pins = d.pins /\ SameBranches(d, g) /\ d.new \subseteq g.new
        /\ g.needsRepo = d.needsRepo /\ g.needsCommit = {w \in d.needsCommit : w[2] # c}
  <2>1. SameBranches(d, g)
    BY <1>3, <1>8, <1>10 DEF SameBranches
  <2>2. QED  BY <1>3, <1>4, <1>7, <1>8, <1>10, <2>1
<1>12. \A x \in waiting : x \in Looked(d)
  BY <1>1, <1>9 DEF Needs
<1>12a. /\ c \in Unfinished(g) /\ Looked(d) \subseteq Looked(g)
        /\ \A x \in Commits : x # c => (x \in Unfinished(g) <=> x \in Unfinished(d))
  BY <1>1, <1>11a DEF Needs, Looked, Unfinished
<1>13. NewTasks(g)
  <2> SUFFICES ASSUME NEW t \in g.new
               PROVE  t.kind = "UpdateCommitData" \/ (t.kind = "CommitTestParse" /\ t.of \in Looked(g))
    BY DEF NewTasks
  <2>2. CASE t \in d.new
    BY <1>1, <1>12a, <2>2 DEF NewTasks
  <2>3. CASE t \notin d.new
    BY <1>3, <1>8, <1>10, <1>12, <1>12a, <2>3
  <2>4. QED  BY <2>2, <2>3
<1>14. Needs(g)
  <2>1. \A w \in g.needsRepo : w[1] \in Looked(g) /\ g.repo[w[2]] = "unknown"
    BY <1>1, <1>11a, <1>12a DEF Needs, SameBranches
  <2>2. \A w \in g.needsCommit : w[1] \in Looked(g) /\ w[2] \notin g.data
    BY <1>1, <1>11a, <1>12a DEF Needs
  <2>3. g.parsed \subseteq g.data /\ g.noTests \subseteq g.data
    BY <1>1, <1>11a DEF Needs
  <2>4. QED  BY <2>1, <2>2, <2>3 DEF Needs
<1>15. PinsBut(g, c)
  <2>0. PinsExact(d)
    BY DEF DbInv
  <2>1. ASSUME NEW b \in Branches, g.head[b] # c  PROVE PinsOk(g, b)
    <3>1. g.head[b] = d.head[b] /\ g.pins[b] = d.pins[b] /\ PinsOk(d, b)
      BY <1>11a, <2>0 DEF SameBranches, PinsExact
    <3>2. g.head[b] \in g.data <=> d.head[b] \in d.data
      BY <1>11a, <2>1, <3>1
    <3>3. QED  BY <1>11a, <3>1, <3>2 DEF PinsOk
  <2>2. Headless(g)
    BY <1>11a, <2>0 DEF SameBranches, PinsExact, Headless
  <2>3. \A x \in Commits : x # c => OwnPins(g, x)
    BY <1>11a, <1>12a, <2>0 DEF PinsExact, OwnPins
  <2>4. QED  BY <2>1, <2>2, <2>3 DEF PinsBut
<1>16. ASSUME NEW T, NEW x \in Commits, Remembered(d, T, x)  PROVE Remembered(g, T, x)
  <2>1. CASE <<x, c>> \in d.needsCommit
    BY <1>9, <1>10, <2>1 DEF Remembered
  <2>2. CASE <<x, c>> \notin d.needsCommit
    <3>1. CP!Waits(d, x) => CP!Waits(g, x)
      BY <1>11a, <2>2 DEF CP!Waits
    <3>2. QED  BY <1>11a, <1>16, <3>1 DEF Remembered
  <2>3. QED  BY <2>1, <2>2
<1>17. Unmentioned(g, c)
  <2>1. c \notin Looked(d)
    BY <1>1 DEF Needs, Looked, Unfinished
  <2>2. \A w \in g.needsRepo \cup g.needsCommit : w[1] # c
    BY <1>1, <1>11a, <2>1 DEF Needs
  <2>3. \A t \in d.new : t.kind = "CommitTestParse" => t.of # c
    BY <1>1, <2>1 DEF NewTasks
  <2>4. \A t \in g.new : t.kind = "CommitTestParse" => t \in d.new \/ t.of \in waiting
    BY <1>3, <1>8, <1>10
  <2>5. QED  BY <1>12, <2>1, <2>2, <2>3, <2>4 DEF Unmentioned
<1>18. QED  BY <1>10, <1>11, <1>11a, <1>12a, <1>13, <1>14, <1>15, <1>16, <1>17 DEF LooseInv

(* A commit is parsed, perhaps again. *)
LEMMA ParseLoose ==
  ASSUME Sound, NEW d, NEW c \in Commits, LooseInv(d, c), c \in Looked(d), NEW local,
         d.data \subseteq local, NEW e, e = CP!Parse(d, local, c)
  PROVE  /\ LooseInv(e, c) /\ OwnPins(e, c) /\ SameBranches(d, e)
         /\ e.data = d.data /\ e.new = d.new /\ e.pins = d.pins
         /\ e.parsed = d.parsed \cup {c} \/ (e.parsed = d.parsed /\ e.repos[c] = PinsOf[c])
            \/ e = d
         /\ Looked(d) \subseteq Looked(e)
         /\ \A T, x : x = c \/ Remembered(d, T, x) => Remembered(e, T, x)
<1>1. d \in Database /\ Links(d) /\ Needs(d) /\ PinsBut(d, c) /\ NewTasks(d)
  BY DEF LooseInv
<1>2. /\ e \in Database /\ Links(e) /\ NewNeeds(d, e, c)
      /\ SameBranches(d, e) /\ e.data = d.data /\ e.pins = d.pins /\ e.new = d.new
      /\ e.parsed \in {d.parsed, d.parsed \cup {c}}
      /\ e.noTests \in {d.noTests, d.noTests \cup {c}}
      /\ c \in e.parsed \/ (CP!Waits(e, c) /\ c \in Unfinished(e) /\ e.repos[c] = PinsOf[c])
      /\ \A x \in Commits : x # c \/ c \in d.parsed => e.repos[x] = d.repos[x]
  BY <1>1, ParseDb
<1>3. /\ c \in Looked(e) /\ Looked(d) \subseteq Looked(e) /\ c \in e.data
      /\ \A x \in Commits : x # c => (x \in Unfinished(e) <=> x \in Unfinished(d))
  BY <1>1, <1>2 DEF Looked, Unfinished, Needs
<1>4. Needs(e)
  <2>1. \A w \in e.needsRepo : w[1] \in Looked(e) /\ e.repo[w[2]] = "unknown"
    BY <1>1, <1>2, <1>3 DEF Needs, NewNeeds, SameBranches
  <2>2. \A w \in e.needsCommit : w[1] \in Looked(e) /\ w[2] \notin e.data
    BY <1>1, <1>2, <1>3 DEF Needs, NewNeeds
  <2>3. e.parsed \subseteq e.data /\ e.noTests \subseteq e.data
    BY <1>1, <1>2, <1>3 DEF Needs
  <2>4. QED  BY <2>1, <2>2, <2>3 DEF Needs
<1>5. OwnPins(e, c)
  BY <1>2 DEF OwnPins, Unfinished
<1>6. PinsBut(e, c)
  <2>1. ASSUME NEW b \in Branches, e.head[b] # c  PROVE PinsOk(e, b)
    <3>1. e.head[b] = d.head[b] /\ e.pins[b] = d.pins[b] /\ PinsOk(d, b)
      BY <1>1, <1>2, <2>1 DEF SameBranches, PinsBut
    <3>2. /\ d.head[b] \in d.data => d.head[b] \in Commits
          /\ d.parsed \subseteq e.parsed
      BY <1>1, <1>2 DEF Database
    <3>3. d.head[b] \in d.data => e.repos[d.head[b]] = d.repos[d.head[b]]
      BY <1>2, <2>1, <3>1, <3>2
    <3>4. QED  BY <1>2, <3>1, <3>2, <3>3 DEF PinsOk
  <2>2. Headless(e)
    BY <1>1, <1>2 DEF SameBranches, PinsBut, Headless
  <2>3. \A x \in Commits : x # c => OwnPins(e, x)
    BY <1>1, <1>2, <1>3 DEF PinsBut, OwnPins
  <2>4. QED  BY <2>1, <2>2, <2>3 DEF PinsBut
<1>7. NewTasks(e)
  BY <1>1, <1>2, <1>3 DEF NewTasks
<1>8. ASSUME NEW T, NEW x, x = c \/ Remembered(d, T, x)  PROVE Remembered(e, T, x)
  <2>1. CASE x = c
    BY <1>2, <2>1 DEF Remembered
  <2>2. CASE x # c
    <3>1. Remembered(d, T, x) /\ d.parsed \subseteq e.parsed /\ d.noTests \subseteq e.noTests
      BY <1>2, <1>8, <2>2
    <3>2. CP!Waits(d, x) => CP!Waits(e, x)
      BY <1>2 DEF CP!Waits, NewNeeds
    <3>3. QED  BY <1>2, <3>1, <3>2 DEF Remembered
  <2>3. QED  BY <2>1, <2>2
<1>9. \/ e.parsed = d.parsed \cup {c} \/ (e.parsed = d.parsed /\ e.repos[c] = PinsOf[c])
      \/ e = d
  <2>1. c \in d.parsed => e = d
    BY DEF CP!Parse
  <2>2. QED  BY <1>2, <2>1
<1>10. QED  BY <1>2, <1>3, <1>4, <1>5, <1>6, <1>7, <1>8, <1>9 DEF LooseInv

(* The pins of its branches are taken from it. *)
LEMMA RecalculateExact ==
  ASSUME Sound, NEW d, NEW c \in Commits, LooseInv(d, c), OwnPins(d, c), NEW bs,
         \A b \in d.branch : d.head[b] = c => b \in bs,
         NEW e, e = CP!RecalculateBranchPins(d, bs)
  PROVE  /\ DbInv(e) /\ SameBranches(d, e) /\ e.data = d.data /\ e.new = d.new
         /\ Looked(e) = Looked(d)
         /\ \A T, x : Remembered(d, T, x) => Remembered(e, T, x)
<1>1. d \in Database /\ Links(d) /\ Needs(d) /\ PinsBut(d, c) /\ NewTasks(d)
  BY DEF LooseInv
<1>2. /\ e \in Database /\ SameBranches(d, e) /\ e.new = d.new
      /\ \A b \in Branches : e.pins[b] = IF b \notin bs THEN d.pins[b]
             ELSE IF d.head[b] \in d.data THEN d.repos[d.head[b]] ELSE {}
      /\ e.data = d.data /\ e.parsed = d.parsed /\ e.noTests = d.noTests /\ e.repos = d.repos
      /\ e.needsRepo = d.needsRepo /\ e.needsCommit = d.needsCommit
      /\ e.test = d.test /\ e.testDep = d.testDep /\ e.needsTest = d.needsTest
  BY <1>1, RecalculateDb
<1>3. Looked(e) = Looked(d) /\ Unfinished(e) = Unfinished(d)
  BY <1>2 DEF Looked, Unfinished
<1>4. Links(e) /\ Needs(e) /\ NewTasks(e)
  BY <1>1, <1>2, <1>3 DEF Links, Needs, NewTasks, SameBranches
<1>5. PinsExact(e)
  <2>1. ASSUME NEW b \in Branches  PROVE PinsOk(e, b)
    <3>1. e.head[b] = d.head[b]
      BY <1>2 DEF SameBranches
    <3>2. CASE b \in bs
      BY <1>2, <3>1, <3>2 DEF PinsOk
    <3>3. CASE b \notin bs
      <4>1. d.head[b] # c
        <5>1. b \notin d.branch => d.head[b] = None
          BY <1>1 DEF PinsBut, Headless
        <5>2. None # c
          BY DEF Sound
        <5>3. QED  BY <3>3, <5>1, <5>2
      <4>2. PinsOk(d, b)
        BY <1>1, <4>1 DEF PinsBut
      <4>3. QED  BY <1>2, <3>1, <3>3, <4>2 DEF PinsOk
    <3>4. QED  BY <3>2, <3>3
  <2>2. Headless(e)
    BY <1>1, <1>2 DEF PinsBut, Headless, SameBranches
  <2>3. \A x \in Commits : OwnPins(e, x)
    BY <1>1, <1>2, <1>3 DEF PinsBut, OwnPins
  <2>4. QED  BY <2>1, <2>2, <2>3 DEF PinsExact
<1>6. \A T, x : Remembered(d, T, x) => Remembered(e, T, x)
  BY <1>2 DEF Remembered, CP!Waits
<1>7. QED  BY <1>2, <1>3, <1>4, <1>5, <1>6 DEF DbInv

(* A commit that is too old is noted to have no tests. *)
TooOld(d, c) == [d EXCEPT !.noTests = @ \cup {c}, !.error = @ \cup {c}]

(* It is not looked into. *)
LEMMA TooOldDb ==
  ASSUME NEW d, NEW c \in Commits, LooseInv(d, c), c \in Unfinished(d), Unmentioned(d, c),
         NEW e, e = TooOld(d, c)
  PROVE  /\ LooseInv(e, c) /\ OwnPins(e, c) /\ SameBranches(d, e)
         /\ e.data = d.data /\ e.new = d.new
         /\ Looked(d) \ {c} \subseteq Looked(e)
         /\ \A T, x : x = c \/ Remembered(d, T, x) => Remembered(e, T, x)
<1>1. /\ d \in Database /\ Links(d) /\ Needs(d) /\ PinsBut(d, c) /\ NewTasks(d)
      /\ c \in d.data /\ \A w \in d.needsRepo \cup d.needsCommit : w[1] # c
      /\ \A t \in d.new : t.kind = "CommitTestParse" => t.of # c
  BY DEF LooseInv, Unfinished, Unmentioned
<1>2. PICK p \in SUBSET Commits, n \in SUBSET Commits, q \in SUBSET Commits :
         p = d.parsed /\ n = d.noTests \cup {c} /\ q = d.error \cup {c}
  BY <1>1 DEF Database
<1>3. e = SetError(SetNoTests(SetParsed(d, p), n), q)
  BY <1>1, <1>2 DEF Database, TooOld, SetParsed, SetNoTests, SetError
<1>4. /\ e \in Database /\ Links(e) /\ Untouched(d, e) /\ e.repos = d.repos
      /\ e.parsed = d.parsed /\ e.noTests = d.noTests \cup {c}
  BY <1>1, <1>2, <1>3, DoneDb
<1>5. /\ \A x : x # c => (x \in Looked(e) <=> x \in Looked(d))
      /\ \A x : x # c => (x \in Unfinished(e) <=> x \in Unfinished(d)) /\ c \notin Unfinished(e)
  BY <1>4 DEF Looked, Unfinished, Untouched
<1>6. Needs(e)
  <2>1. \A w \in e.needsRepo : w[1] \in Looked(e) /\ e.repo[w[2]] = "unknown"
    BY <1>1, <1>4, <1>5 DEF Needs, Untouched, SameBranches
  <2>2. \A w \in e.needsCommit : w[1] \in Looked(e) /\ w[2] \notin e.data
    BY <1>1, <1>4, <1>5 DEF Needs, Untouched
  <2>3. e.parsed \subseteq e.data /\ e.noTests \subseteq e.data
    BY <1>1, <1>4 DEF Needs, Untouched
  <2>4. QED  BY <2>1, <2>2, <2>3 DEF Needs
<1>7. NewTasks(e)
  BY <1>1, <1>4, <1>5 DEF NewTasks, Untouched
<1>8. OwnPins(e, c)
  BY <1>5 DEF OwnPins
<1>9. PinsBut(e, c)
  <2>1. \A b \in Branches : e.head[b] # c => PinsOk(e, b)
    BY <1>1, <1>4 DEF PinsBut, PinsOk, Untouched, SameBranches
  <2>2. Headless(e)
    BY <1>1, <1>4 DEF PinsBut, Headless, Untouched, SameBranches
  <2>3. \A x \in Commits : x # c => OwnPins(e, x)
    BY <1>1, <1>4, <1>5 DEF PinsBut, OwnPins
  <2>4. QED  BY <2>1, <2>2, <2>3 DEF PinsBut
<1>10. \A T, x : x = c \/ Remembered(d, T, x) => Remembered(e, T, x)
  BY <1>4 DEF Remembered, CP!Waits, Untouched
<1>11. QED  BY <1>4, <1>5, <1>6, <1>7, <1>8, <1>9, <1>10 DEF LooseInv, Untouched

(* One commit of a history is loaded. *)
LEMMA LoadCommitDb ==
  ASSUME Sound, NEW d, DbInv(d), NEW c \in Commits, NEW local, d.data \cup {c} \subseteq local,
         NEW T, \A x \in d.data : Remembered(d, T, x), NEW e, e = CP!LoadCommit(d, local, c)
  PROVE  /\ DbInv(e) /\ SameBranches(d, e) /\ e.data = d.data \cup {c} /\ d.new \subseteq e.new
         /\ Looked(d) \subseteq Looked(e) /\ \A x \in e.data : Remembered(e, T, x)
<1>1. CASE c \in d.data
  <2>1. e = d
    BY <1>1 DEF CP!LoadCommit
  <2>2. QED  BY <1>1, <2>1 DEF SameBranches
<1>2. CASE c \notin d.data
  <2>1. PICK g : g = Arrived(d, c)
    OBVIOUS
  <2>2. PICK f : f = IF c \in Old THEN TooOld(g, c) ELSE CP!Parse(g, local, c)
    OBVIOUS
  <2>3. PICK bs : bs = CP!HeadAt(d, c)
    OBVIOUS
  <2>4. e = CP!RecalculateBranchPins(f, bs)
    BY <1>2, <2>1, <2>2, <2>3, Zenon DEF CP!LoadCommit, Arrived, TooOld
  <2>5. /\ LooseInv(g, c) /\ SameBranches(d, g) /\ d.new \subseteq g.new
        /\ g.data = d.data \cup {c} /\ c \in Unfinished(g) /\ Looked(d) \subseteq Looked(g)
        /\ Unmentioned(g, c)
        /\ \A U, x : x \in Commits /\ Remembered(d, U, x) => Remembered(g, U, x)
    BY <1>2, <2>1, ArrivesDb
  <2>6. /\ c \in Looked(g) /\ c \notin Looked(d) /\ d.data \subseteq Commits
    BY <1>2, <2>5 DEF Looked, Unfinished, DbInv, Needs, Database
  <2>7. /\ LooseInv(f, c) /\ OwnPins(f, c) /\ SameBranches(g, f)
        /\ f.data = g.data /\ f.new = g.new /\ Looked(g) \ {c} \subseteq Looked(f)
        /\ \A U, x : x = c \/ Remembered(g, U, x) => Remembered(f, U, x)
    <3>1. CASE c \in Old
      <4>1. f = TooOld(g, c)
        BY <2>2, <3>1
      <4>2. QED  BY <2>5, <4>1, TooOldDb
    <3>2. CASE c \notin Old
      <4>1. f = CP!Parse(g, local, c) /\ g.data \subseteq local
        BY <2>2, <2>5, <3>2
      <4>2. LooseInv(g, c)
        BY <2>5
      <4>3. QED  BY <2>6, <4>1, <4>2, ParseLoose
    <3>3. QED  BY <3>1, <3>2
  <2>8. \A b \in f.branch : f.head[b] = c => b \in bs
    BY <2>3, <2>5, <2>7 DEF CP!HeadAt, SameBranches
  <2>9. /\ DbInv(e) /\ SameBranches(f, e) /\ e.data = f.data /\ e.new = f.new
        /\ Looked(e) = Looked(f) /\ \A U, x : Remembered(f, U, x) => Remembered(e, U, x)
    <3>1. LooseInv(f, c) /\ OwnPins(f, c)
      BY <2>7
    <3>2. QED  BY <2>4, <2>8, <3>1, RecalculateExact
  <2>10. \A x \in e.data : Remembered(e, T, x)
    <3>1. \A x \in d.data : Remembered(g, T, x)
      BY <2>5, <2>6
    <3>2. QED  BY <2>5, <2>7, <2>9, <3>1
  <2>11. SameBranches(d, e)
    BY <2>5, <2>7, <2>9 DEF SameBranches
  <2>12. QED  BY <2>5, <2>6, <2>7, <2>9, <2>10, <2>11
<1>3. QED  BY <1>1, <1>2

(* A step of the recursion of LoadHistory. *)
LoadStep(d, c, F, i) == IF i = 0 THEN d ELSE CP!LoadCommit(F[i - 1], clone, LookingBack[c][i])

(* Counting up to a number. *)
LEMMA CountingUp ==
  ASSUME NEW n \in Nat, NEW T, 0 \in T, \A i \in 0 .. n - 1 : i \in T => i + 1 \in T
  PROVE  \A i \in 0 .. n : i \in T
<1> SUFFICES ASSUME NEW j \in 0 .. n, j \notin T  PROVE FALSE
  OBVIOUS
<1>1. PICK Bad : Bad = {i \in 0 .. n : i \notin T}
  OBVIOUS
<1>2. Bad \subseteq Nat /\ Bad # {}
  BY <1>1
<1>3. PICK x \in Bad : \A y \in Bad : ~(<<y, x>> \in OpToRel(<, Nat))
  BY <1>2, NatLessThanWellFounded, WFMin
<1>4. \A y \in Bad : ~(y < x)
  BY <1>2, <1>3 DEF OpToRel
<1>5. x # 0 /\ x \in 0 .. n /\ x - 1 \in 0 .. n - 1 /\ x - 1 < x
  <2>1. x \in 0 .. n /\ x # 0
    BY <1>1
  <2>2. QED  BY <2>1
<1>6. x - 1 \in T
  BY <1>1, <1>4, <1>5
<1>7. QED  BY <1>1, <1>5, <1>6

(* It is well defined. *)
LEMMA LoadExists ==
  ASSUME NEW d, NEW c, NEW n \in Nat
  PROVE  \E F : F = [i \in 0 .. n |-> LoadStep(d, c, F, i)]
<1>1. PICK T : T = {m \in 0 .. n : \E F : F = [i \in 0 .. m |-> LoadStep(d, c, F, i)]}
  OBVIOUS
<1>2. 0 \in T
  <2>1. PICK G : G = [i \in 0 .. 0 |-> d]
    OBVIOUS
  <2>2. G = [i \in 0 .. 0 |-> LoadStep(d, c, G, i)]
    BY <2>1 DEF LoadStep
  <2>3. QED  BY <1>1, <2>2
<1>3. ASSUME NEW m \in 0 .. n - 1, m \in T  PROVE m + 1 \in T
  <2>1. PICK F : F = [i \in 0 .. m |-> LoadStep(d, c, F, i)]
    BY <1>1, <1>3
  <2>2. PICK G : G = [i \in 0 .. m + 1 |->
                        IF i = m + 1 THEN LoadStep(d, c, F, m + 1) ELSE F[i]]
    OBVIOUS
  <2>3. \A i \in 0 .. m + 1 : G[i] = LoadStep(d, c, G, i)
    <3> TAKE i \in 0 .. m + 1
    <3>1. i # 0 => i - 1 \in 0 .. m /\ G[i - 1] = F[i - 1]
      BY <2>2
    <3>2. i # m + 1 => F[i] = LoadStep(d, c, F, i)
      BY <2>1
    <3>3. LoadStep(d, c, G, i) = LoadStep(d, c, F, i)
      BY <3>1 DEF LoadStep
    <3>4. QED  BY <2>2, <3>2, <3>3
  <2>4. G = [i \in 0 .. m + 1 |-> LoadStep(d, c, G, i)]
    BY <2>2, <2>3
  <2>5. m + 1 \in 0 .. n
    OBVIOUS
  <2>6. QED  BY <1>1, <2>4, <2>5
<1>4. n \in T
  BY <1>2, <1>3, CountingUp
<1>5. QED  BY <1>1, <1>4

(* A whole history is loaded. *)
LEMMA LoadHistoryDb ==
  ASSUME Sound, NEW d, DbInv(d), NEW c \in Commits, d.data \subseteq clone,
         c \in clone, CP!Reachable(c) \subseteq clone,
         c \in d.data => CP!Reachable(c) \subseteq d.data,
         NEW T, \A x \in d.data : Remembered(d, T, x), NEW e, e = CP!LoadHistory(d, c)
  PROVE  /\ DbInv(e) /\ SameBranches(d, e) /\ e.data = d.data \cup CP!Reachable(c)
         /\ d.new \subseteq e.new /\ Looked(d) \subseteq Looked(e)
         /\ \A x \in e.data : Remembered(e, T, x)
<1>1. CASE c \in d.data
  <2>1. e = d
    BY <1>1 DEF CP!LoadHistory
  <2>2. QED  BY <1>1, <2>1 DEF SameBranches
<1>2. CASE c \notin d.data
  <2>1. PICK s \in Seq(Commits) : s = LookingBack[c]
    BY DEF Sound
  <2>2. PICK n \in Nat : n = Len(s)
    BY LenProperties
  <2> DEFINE F == CHOOSE F : F = [i \in 0 .. n |-> LoadStep(d, c, F, i)]
  <2>3. e = F[n]
    BY <1>2, <2>1, <2>2 DEF CP!LoadHistory, LoadStep
  <2>4. F = [i \in 0 .. n |-> LoadStep(d, c, F, i)]
    BY LoadExists
  <2> HIDE DEF F
  <2>5. \A i \in 0 .. n : F[i] = LoadStep(d, c, F, i)
    BY <2>4
  <2>6. PICK U : U = {i \in 0 .. n :
          /\ DbInv(F[i]) /\ SameBranches(d, F[i]) /\ d.new \subseteq F[i].new
          /\ Looked(d) \subseteq Looked(F[i])
          /\ F[i].data = d.data \cup {s[j] : j \in 1 .. i}
          /\ \A x \in F[i].data : Remembered(F[i], T, x)}
    OBVIOUS
  <2>7. 0 \in U
    <3>1. 0 \in 0 .. n /\ {s[j] : j \in 1 .. 0} = {}
      OBVIOUS
    <3>2. F[0] = d
      BY <2>5, <3>1 DEF LoadStep
    <3>3. SameBranches(d, d)
      BY DEF SameBranches
    <3>4. QED  BY <2>6, <3>1, <3>2, <3>3
  <2>8. ASSUME NEW i \in 0 .. n - 1, i \in U  PROVE i + 1 \in U
    <3>1. i + 1 \in 0 .. n /\ i + 1 \in 1 .. n /\ i + 1 # 0 /\ (i + 1) - 1 = i
      OBVIOUS
    <3>2. PICK f : f = F[i]
      OBVIOUS
    <3>3. /\ DbInv(f) /\ SameBranches(d, f) /\ d.new \subseteq f.new
          /\ Looked(d) \subseteq Looked(f)
          /\ f.data = d.data \cup {s[j] : j \in 1 .. i} /\ \A x \in f.data : Remembered(f, T, x)
      BY <2>6, <2>8, <3>2
    <3>4. PICK y : y = s[i + 1]
      OBVIOUS
    <3>5. y \in Commits
      BY <2>2, <3>1, <3>4, ElementOfSeq
    <3>6. \A j \in 1 .. n : s[j] \in clone
      <4>1. \A j \in 1 .. n : s[j] \in CP!Reachable(c)
        BY <2>1, <2>2 DEF CP!Reachable, CP!Range
      <4>2. QED  BY <4>1
    <3>7. PICK g : g = CP!LoadCommit(f, clone, y)
      OBVIOUS
    <3>8. F[i + 1] = g
      <4>1. F[i + 1] = LoadStep(d, c, F, i + 1)
        BY <2>5, <3>1
      <4>2. QED  BY <2>1, <3>1, <3>2, <3>4, <3>7, <4>1 DEF LoadStep
    <3>9. f.data \cup {y} \subseteq clone
      <4>1. \A j \in 1 .. i : j \in 1 .. n
        OBVIOUS
      <4>2. QED  BY <3>1, <3>3, <3>4, <3>6, <4>1
    <3>10. /\ DbInv(g) /\ SameBranches(f, g) /\ g.data = f.data \cup {y} /\ f.new \subseteq g.new
           /\ Looked(f) \subseteq Looked(g) /\ \A x \in g.data : Remembered(g, T, x)
      <4>1. DbInv(f) /\ \A x \in f.data : Remembered(f, T, x)
        BY <3>3
      <4>2. QED  BY <3>5, <3>7, <3>9, <4>1, LoadCommitDb, Zenon
    <3>11. SameBranches(d, g) /\ d.new \subseteq g.new /\ Looked(d) \subseteq Looked(g)
      <4>1. /\ SameBranches(d, f) /\ SameBranches(f, g)
            /\ Looked(d) \subseteq Looked(f) /\ Looked(f) \subseteq Looked(g)
            /\ d.new \subseteq f.new /\ f.new \subseteq g.new
        BY <3>3, <3>10
      <4>2. QED  BY <4>1 DEF SameBranches
    <3>12. g.data = d.data \cup {s[j] : j \in 1 .. i + 1}
      <4>1. \A j : j \in 1 .. i + 1 <=> j \in 1 .. i \/ j = i + 1
        OBVIOUS
      <4>2. QED  BY <3>3, <3>4, <3>10, <4>1
    <3>13. QED  BY <2>6, <3>1, <3>8, <3>10, <3>11, <3>12
  <2>9. n \in U
    <3>1. \A i \in 0 .. n - 1 : i \in U => i + 1 \in U
      BY <2>8
    <3>2. \A i \in 0 .. n : i \in U
      BY <2>7, <3>1, CountingUp, Zenon
    <3>3. QED  BY <3>2
  <2>10. {s[j] : j \in 1 .. n} = CP!Reachable(c)
    BY <2>1, <2>2 DEF CP!Reachable, CP!Range
  <2>11. QED  BY <2>3, <2>6, <2>9, <2>10
<1>3. QED  BY <1>1, <1>2

------------------------------------------------------------------------------
(* The server is going to look at a repository. *)
Pending(r) == \/ r \in hook \/ CP!Task("RefreshBranches", r) \in task
              \/ CP!Task("FirstRefresh", r) \in task
Fetching(r) == fetched # None /\ fetched.of = r

(* What the clone has is what the git server has, and the database has it, or  *)
(* will be told.                                                            *)
Agrees(r) == \A b \in CP!Of(r) :
    /\ tip[b] = remote[b]
    /\ b \in db.branch <=> remote[b] # None
    /\ b \in db.branch => \/ db.head[b] = remote[b]
                          \/ CP!Task("UpdateBranchTopCommit", b) \in task

GitTypes ==
    /\ remote \in [Branches -> Commits \cup {None}] /\ tip \in [Branches -> Commits \cup {None}]
    /\ clone \subseteq Commits /\ task \subseteq TaskSet

(* Histories are complete: in the clones, and in the database. *)
Closed ==
    /\ \A c \in clone : CP!Reachable(c) \subseteq clone
    /\ db.data \subseteq clone /\ \A c \in db.data : CP!Reachable(c) \subseteq db.data
    /\ \A b \in Branches : /\ tip[b] # None => tip[b] \in clone
                           /\ db.head[b] # None => db.head[b] \in db.data

(* Tasks are about what is known. *)
Visited(r) == \/ CP!Task("RefreshBranches", r) \in task \/ CP!Task("FirstRefresh", r) \in task
              \/ Fetching(r)
TasksKnown ==
    /\ \A c \in Commits : CP!Task("CommitTestParse", c) \in task => c \in Looked(db)
    /\ \A r \in Repos : Visited(r) => db.repo[r] # "unknown"
    /\ \A b \in db.branch : db.repo[RepoOf[b]] # "unknown"
    /\ fetched # None => fetched.of \in Repos

Tracked == \A r \in Repos : db.repo[r] # "unknown" =>
    Pending(r) \/ (Fetching(r) /\ \A b \in CP!Of(r) : tip[b] = remote[b]) \/ Agrees(r)

ParsingInv ==
    /\ DbInv(db) /\ db.new = {} /\ \A c \in db.data : Remembered(db, task, c)
    /\ GitTypes /\ Closed /\ TasksKnown /\ Tracked

(* The tasks were taken over. *)
LEMMA TakenOver ==
  ASSUME NEW e, DbInv(e), NEW D, D = [e EXCEPT !.new = {}]
  PROVE  /\ DbInv(D) /\ D.new = {} /\ SameBranches(e, D) /\ D.data = e.data
         /\ Looked(D) = Looked(e)
         /\ \A T, U, c : Remembered(e, T, c) /\ T \cup e.new \subseteq U => Remembered(D, U, c)
<1>1. e \in Database /\ Links(e) /\ Needs(e) /\ PinsExact(e) /\ {} \in SUBSET TaskSet
  BY DEF DbInv
<1>2. D \in Database /\ D.new = {}
  BY <1>1 DEF Database
<1>3. /\ SameBranches(e, D) /\ D.data = e.data /\ D.parsed = e.parsed /\ D.noTests = e.noTests /\ D.repos = e.repos
      /\ D.pins = e.pins /\ D.needsRepo = e.needsRepo /\ D.needsCommit = e.needsCommit
      /\ D.test = e.test /\ D.testDep = e.testDep /\ D.needsTest = e.needsTest
  BY <1>1 DEF Database, SameBranches
<1>a. Looked(D) = Looked(e) /\ Unfinished(D) = Unfinished(e)
  BY <1>3 DEF Looked, Unfinished
<1>4. Links(D) /\ Needs(D) /\ PinsExact(D) /\ NewTasks(D)
  <2>1. Links(D)
    BY <1>1, <1>3 DEF Links
  <2>2. Needs(D)
    BY <1>1, <1>3, <1>a DEF Needs, SameBranches
  <2>3. PinsExact(D)
    BY <1>1, <1>3, <1>a DEF PinsExact, PinsOk, OwnPins, Headless, SameBranches
  <2>4. QED  BY <1>2, <2>1, <2>2, <2>3 DEF NewTasks
<1>5. \A c : CP!Waits(e, c) => CP!Waits(D, c)
  BY <1>3 DEF CP!Waits
<1>6. \A T, U, c : Remembered(e, T, c) /\ T \cup e.new \subseteq U => Remembered(D, U, c)
  BY <1>3, <1>5 DEF Remembered
<1>7. QED  BY <1>2, <1>3, <1>a, <1>4, <1>6 DEF DbInv

(* Tasks of commits differ from those of branches and repositories. *)
LEMMA TasksDiffer ==
  ASSUME NEW k, NEW x, NEW m, NEW y, CP!Task(k, x) = CP!Task(m, y)
  PROVE  k = m /\ x = y
BY DEF CP!Task

(* A task about commits leads to the database e: nothing becomes known of      *)
(* repositories, and no head moves but to where the clone has it.           *)
HeadsMove(k, x, e) == \A b \in Branches :
    /\ e.head[b] \in {db.head[b], tip[b]}
    /\ e.head[b] # None => e.head[b] \in e.data
    /\ k = "UpdateBranchTopCommit" /\ x = b =>
          tip[b] = None \/ e.head[b] = tip[b] \/ b \notin db.branch
Leads(k, x, e) ==
    /\ DbInv(e) /\ e.repo = db.repo /\ e.branch = db.branch
    /\ db.data \subseteq e.data /\ e.data \subseteq clone /\ Looked(db) \subseteq Looked(e)
    /\ \A c \in e.data : CP!Reachable(c) \subseteq e.data
    /\ \A c \in e.data : Remembered(e, task \ {CP!Task(k, x)}, c)
    /\ HeadsMove(k, x, e)

(* Such a task keeps the invariant. *)
LEMMA CommitStep ==
  ASSUME Sound, ParsingInv, NEW k, NEW x, NEW e, CP!Commit(k, x, e), UNCHANGED CP!git,
         k \in {"UpdateCommitData", "CommitTestParse", "UpdateBranchTopCommit",
                "CheckBranchAutocreate"},
         Leads(k, x, e)
  PROVE  ParsingInv'
<1>0. /\ DbInv(e) /\ e.repo = db.repo /\ e.branch = db.branch
      /\ db.data \subseteq e.data /\ e.data \subseteq clone /\ Looked(db) \subseteq Looked(e)
      /\ \A c \in e.data : CP!Reachable(c) \subseteq e.data
      /\ \A c \in e.data : Remembered(e, task \ {CP!Task(k, x)}, c)
      /\ \A b \in Branches :
            /\ e.head[b] \in {db.head[b], tip[b]}
            /\ e.head[b] # None => e.head[b] \in e.data
            /\ k = "UpdateBranchTopCommit" /\ x = b =>
                  tip[b] = None \/ e.head[b] = tip[b] \/ b \notin db.branch
  BY DEF Leads, HeadsMove
<1>1. /\ db' = [e EXCEPT !.new = {}] /\ task' = (task \ {CP!Task(k, x)}) \cup e.new
      /\ UNCHANGED <<fetched, remote, tip, clone, hook>>
  BY <1>0 DEF CP!Commit, CP!git
<1>2. /\ DbInv(db') /\ db'.new = {} /\ SameBranches(e, db') /\ db'.data = e.data
      /\ Looked(db') = Looked(e)
      /\ \A T, U, c : Remembered(e, T, c) /\ T \cup e.new \subseteq U => Remembered(db', U, c)
  BY <1>0, <1>1, TakenOver
<1>3. \A c \in db'.data : Remembered(db', task', c)
  BY <1>0, <1>1, <1>2
<1>4. /\ db'.repo = db.repo /\ db'.branch = db.branch /\ db'.head = e.head
  BY <1>0, <1>2 DEF SameBranches
<1>5. GitTypes'
  <2>1. e.new \subseteq TaskSet
    BY <1>0 DEF DbInv, Database
  <2>2. QED  BY <1>0, <1>1, <2>1 DEF ParsingInv, GitTypes
<1>6. Closed'
  BY <1>0, <1>1, <1>2, <1>4 DEF ParsingInv, Closed, CP!Reachable
<1>7. ASSUME NEW t \in TaskSet
      PROVE  /\ t \in task' => \/ t \in task \/ t.kind = "UpdateCommitData"
                               \/ t.kind = "CommitTestParse" /\ t.of \in Looked(e)
             /\ t \in task /\ t # CP!Task(k, x) => t \in task'
  BY <1>0, <1>1 DEF DbInv, NewTasks
<1>8. TasksKnown'
  <2>1. ASSUME NEW c \in Commits, CP!Task("CommitTestParse", c) \in task'  PROVE c \in Looked(e)
    <3>1. /\ CP!Task("CommitTestParse", c) \in TaskSet /\ CP!Task("CommitTestParse", c).of = c
          /\ CP!Task("CommitTestParse", c).kind = "CommitTestParse"
      BY <1>0, TaskIs DEF TaskKinds
    <3>2. QED  BY <1>0, <1>7, <2>1, <3>1 DEF ParsingInv, TasksKnown
  <2>2. ASSUME NEW r \in Repos, NEW m \in {"RefreshBranches", "FirstRefresh"},
               CP!Task(m, r) \in task'
        PROVE  CP!Task(m, r) \in task
    <3>1. CP!Task(m, r) \in TaskSet /\ CP!Task(m, r).kind = m
      BY <1>0, TaskIs DEF TaskKinds
    <3>2. QED  BY <1>0, <1>7, <2>2, <3>1
  <2>3. \A r \in Repos : Visited(r)' => Visited(r)
    BY <1>0, <1>1, <2>2 DEF Visited, Fetching
  <2>4. \A c \in Commits : CP!Task("CommitTestParse", c) \in task' => c \in Looked(db')
    BY <1>2, <2>1
  <2>5. QED  BY <1>0, <1>1, <1>2, <1>4, <2>3, <2>4 DEF ParsingInv, TasksKnown
<1>9. Tracked'
  <2> SUFFICES ASSUME NEW r \in Repos, db.repo[r] # "unknown"
               PROVE  \/ Pending(r)' \/ (Fetching(r)' /\ \A b \in CP!Of(r) : tip[b] = remote[b])
                      \/ Agrees(r)'
    BY <1>0, <1>1, <1>4 DEF Tracked, CP!Of
  <2>1. Pending(r) => Pending(r)'
    <3>1. ASSUME NEW m \in {"RefreshBranches", "FirstRefresh"}, CP!Task(m, r) \in task
          PROVE  CP!Task(m, r) \in task'
      <4>1. CP!Task(m, r) # CP!Task(k, x)
        BY <1>0, TasksDiffer
      <4>2. QED  BY <1>0, <1>1, <3>1, <4>1
    <3>2. QED  BY <1>0, <1>1, <3>1 DEF Pending
  <2>2. Fetching(r) => Fetching(r)'
    BY <1>0, <1>1 DEF Fetching
  <2>3. ASSUME Agrees(r)  PROVE Agrees(r)'
    <3> SUFFICES ASSUME NEW b \in Branches, RepoOf[b] = r
                 PROVE  /\ tip[b] = remote[b] /\ (b \in db.branch <=> remote[b] # None)
                        /\ b \in db.branch => \/ e.head[b] = remote[b]
                                              \/ CP!Task("UpdateBranchTopCommit", b) \in task'
      BY <1>0, <1>1, <1>4 DEF Agrees, CP!Of
    <3>1. /\ tip[b] = remote[b] /\ (b \in db.branch <=> remote[b] # None)
          /\ b \in db.branch => \/ db.head[b] = remote[b]
                                \/ CP!Task("UpdateBranchTopCommit", b) \in task
      BY <1>0, <2>3 DEF Agrees, CP!Of
    <3>2. CASE k = "UpdateBranchTopCommit" /\ x = b
      BY <1>0, <3>1, <3>2
    <3>3. CASE ~(k = "UpdateBranchTopCommit" /\ x = b)
      <4>1. CP!Task("UpdateBranchTopCommit", b) # CP!Task(k, x)
        BY <1>0, <3>3, TasksDiffer
      <4>2. QED  BY <1>0, <1>1, <3>1, <4>1
    <3>4. QED  BY <1>0, <3>2, <3>3
  <2>4. QED  BY <1>0, <2>1, <2>2, <2>3 DEF ParsingInv, Tracked
<1>10. QED  BY <1>0, <1>2, <1>3, <1>5, <1>6, <1>8, <1>9 DEF ParsingInv

(* What the invariant says of the database and the clones. *)
LEMMA ParsingFacts ==
  ASSUME Sound, ParsingInv
  PROVE  /\ DbInv(db) /\ db.new = {} /\ db.data \subseteq clone /\ db.data \subseteq Commits
         /\ clone \subseteq Commits /\ \A c \in clone : CP!Reachable(c) \subseteq clone
         /\ \A c \in db.data : CP!Reachable(c) \subseteq db.data
         /\ \A c \in db.data : Remembered(db, task, c)
         /\ db.head \in [Branches -> Commits \cup {None}]
         /\ \A b \in Branches : /\ tip[b] \in Commits \cup {None}
                                /\ tip[b] # None => tip[b] \in clone
                                /\ db.head[b] # None => db.head[b] \in db.data
BY DEF ParsingInv, Closed, GitTypes, DbInv, Database

(* The task of something else is not that of a parse. *)
LEMMA StillRemembered ==
  ASSUME NEW d, NEW T, NEW c, Remembered(d, T, c), NEW k, NEW x,
         k # "CommitTestParse" \/ x # c
  PROVE  Remembered(d, T \ {CP!Task(k, x)}, c)
<1>1. CP!Task("CommitTestParse", c) # CP!Task(k, x)
  BY TasksDiffer
<1>2. QED  BY <1>1 DEF Remembered

(* A commit is parsed. *)
LEMMA CommitTestParseStep ==
  ASSUME Sound, ParsingInv, NEW c \in Commits, CP!CommitTestParse(c)
  PROVE  ParsingInv'
<1>1. PICK e : e = CP!Parse(db, clone, c)
  OBVIOUS
<1>2. /\ CP!Commit("CommitTestParse", c, e) /\ UNCHANGED CP!git
      /\ CP!Task("CommitTestParse", c) \in task
  BY <1>1 DEF CP!CommitTestParse, CP!Takes
<1>3. c \in Looked(db)
  BY <1>2 DEF ParsingInv, TasksKnown
<1>4. \A x \in db.data : x # c => Remembered(db, task \ {CP!Task("CommitTestParse", c)}, x)
  BY ParsingFacts, StillRemembered
<1>5. /\ db.data \subseteq clone /\ db \in Database /\ Links(db) /\ Needs(db) /\ NewTasks(db)
      /\ PinsExact(db)
  BY ParsingFacts DEF DbInv
<1>a. LooseInv(db, c)
  BY <1>5 DEF LooseInv, PinsExact, PinsBut
<1>b. /\ LooseInv(e, c) /\ OwnPins(e, c) /\ SameBranches(db, e)
      /\ e.data = db.data /\ e.new = db.new /\ e.pins = db.pins
      /\ e.parsed = db.parsed \cup {c} \/ (e.parsed = db.parsed /\ e.repos[c] = PinsOf[c])
         \/ e = db
      /\ Looked(db) \subseteq Looked(e)
      /\ \A T, x : x = c \/ Remembered(db, T, x) => Remembered(e, T, x)
  BY <1>1, <1>3, <1>5, <1>a, ParseLoose
<1>c. DbInv(e)
  <2>1. ASSUME NEW b \in Branches  PROVE PinsOk(e, b)
    <3>1. CASE e.head[b] # c
      BY <1>b, <3>1 DEF LooseInv, PinsBut
    <3>2. CASE e.head[b] = c
      <4>1. PinsOk(db, b) /\ OwnPins(db, c)
        BY <1>5 DEF PinsExact
      <4>2. db.head[b] = c
        BY <1>b, <3>2 DEF SameBranches
      <4>3. c \in db.parsed => e = db
        BY <1>1 DEF CP!Parse
      <4>4. c \notin db.parsed => c \in db.data /\ db.repos[c] = PinsOf[c]
        BY <1>3, <4>1 DEF OwnPins, Looked, Unfinished
      <4>5. CASE e = db
        BY <4>1, <4>5
      <4>6. CASE e # db
        <5>1. c \in db.data /\ db.pins[b] = PinsOf[c]
          BY <4>1, <4>2, <4>3, <4>4, <4>6 DEF PinsOk
        <5>2. c \in e.parsed \/ e.repos[c] = PinsOf[c]
          BY <1>b, <4>6
        <5>3. QED  BY <1>b, <3>2, <5>1, <5>2 DEF PinsOk
      <4>7. QED  BY <4>5, <4>6
    <3>3. QED  BY <3>1, <3>2
  <2>2. Headless(e) /\ \A x \in Commits : OwnPins(e, x)
    BY <1>b DEF LooseInv, PinsBut
  <2>3. QED  BY <1>b, <2>1, <2>2 DEF LooseInv, DbInv, PinsExact
<1>6. /\ DbInv(e) /\ SameBranches(db, e) /\ e.data = db.data /\ e.new = db.new
      /\ \A x \in e.data : Remembered(e, task \ {CP!Task("CommitTestParse", c)}, x)
  BY <1>4, <1>b, <1>c
<1>7. e.repo = db.repo /\ e.branch = db.branch /\ e.head = db.head
  BY <1>6 DEF SameBranches
<1>8. \A b \in Branches : /\ e.head[b] \in {db.head[b], tip[b]}
                          /\ e.head[b] # None => e.head[b] \in e.data
  BY <1>6, <1>7, ParsingFacts
<1>9. /\ db.data \subseteq e.data /\ e.data \subseteq clone
      /\ \A x \in e.data : CP!Reachable(x) \subseteq e.data
  BY <1>6, ParsingFacts
<1>10. Leads("CommitTestParse", c, e)
  <2>1. HeadsMove("CommitTestParse", c, e)
    BY <1>8 DEF HeadsMove
  <2>2. QED  BY <1>6, <1>7, <1>9, <1>b, <2>1 DEF Leads
<1>11. QED  BY <1>2, <1>10, CommitStep

(* The data of a commit and its history is loaded. *)
LEMMA UpdateCommitDataStep ==
  ASSUME Sound, ParsingInv, NEW c \in Commits, CP!UpdateCommitData(c)
  PROVE  ParsingInv'
<1>1. PICK e : e = CP!LoadHistory(db, c)
  OBVIOUS
<1>2. CP!Commit("UpdateCommitData", c, e) /\ UNCHANGED CP!git
  BY <1>1 DEF CP!UpdateCommitData
<1>3. PICK T : T = task \ {CP!Task("UpdateCommitData", c)}
  OBVIOUS
<1>4. \A x \in db.data : Remembered(db, T, x)
  BY <1>3, ParsingFacts, StillRemembered
<1>5. /\ DbInv(e) /\ SameBranches(db, e) /\ db.data \subseteq e.data /\ e.data \subseteq clone
      /\ Looked(db) \subseteq Looked(e)
      /\ \A x \in e.data : CP!Reachable(x) \subseteq e.data
      /\ \A x \in e.data : Remembered(e, T, x)
  <2>1. CASE c \notin clone
    <3>1. e = db
      BY <1>1, <2>1 DEF CP!LoadHistory
    <3>2. QED  BY <1>4, <3>1, ParsingFacts DEF SameBranches
  <2>2. CASE c \in clone
    <3>1. /\ DbInv(e) /\ SameBranches(db, e) /\ e.data = db.data \cup CP!Reachable(c)
          /\ Looked(db) \subseteq Looked(e)
          /\ \A x \in e.data : Remembered(e, T, x)
      BY <1>1, <1>4, <2>2, ParsingFacts, LoadHistoryDb
    <3>2. e.data \subseteq clone
      BY <2>2, <3>1, ParsingFacts
    <3>3. \A x \in CP!Reachable(c) : CP!Reachable(x) \subseteq CP!Reachable(c)
      BY DEF Sound
    <3>4. \A x \in e.data : CP!Reachable(x) \subseteq e.data
      BY <3>1, <3>3, ParsingFacts
    <3>5. QED  BY <3>1, <3>2, <3>4
  <2>3. QED  BY <2>1, <2>2
<1>6. e.repo = db.repo /\ e.branch = db.branch /\ e.head = db.head
  BY <1>5 DEF SameBranches
<1>7. \A b \in Branches : /\ e.head[b] \in {db.head[b], tip[b]}
                          /\ e.head[b] # None => e.head[b] \in e.data
  BY <1>5, <1>6, ParsingFacts
<1>8. Leads("UpdateCommitData", c, e)
  <2>1. HeadsMove("UpdateCommitData", c, e)
    BY <1>7 DEF HeadsMove
  <2>2. QED  BY <1>3, <1>5, <1>6, <2>1 DEF Leads
<1>9. QED  BY <1>2, <1>8, CommitStep

(* A branch after its head moved. *)
MovedHead(d, b, c) == [CP!LookupCommits(d, {c}) EXCEPT !.head[b] = c]
MovedNow(d, b, c) == CP!RecalculateBranchPins(MovedHead(d, b, c), {b})

(* Its pins move along. *)
LEMMA HeadMoves ==
  ASSUME Sound, NEW d, DbInv(d), NEW b \in d.branch, NEW c \in Commits, NEW e,
         e = MovedNow(d, b, c)
  PROVE  /\ DbInv(e) /\ e.repo = d.repo /\ e.branch = d.branch /\ e.data = d.data
         /\ e.head = [d.head EXCEPT ![b] = c] /\ Looked(e) = Looked(d)
         /\ \A T, x : Remembered(d, T, x) => Remembered(e, T, x)
<1>1. PICK known : known = CP!LookupCommits(d, {c})
  OBVIOUS
<1>2. d \in Database /\ Links(d) /\ Needs(d) /\ PinsExact(d) /\ NewTasks(d)
  BY DEF DbInv
<1>3. /\ known \in Database /\ SameBranches(d, known) /\ d.new \subseteq known.new
      /\ \A t \in known.new \ d.new : t.kind = "UpdateCommitData"
      /\ known.data = d.data /\ known.parsed = d.parsed /\ known.noTests = d.noTests /\ known.repos = d.repos
      /\ known.pins = d.pins
      /\ known.needsRepo = d.needsRepo /\ known.needsCommit = d.needsCommit
      /\ known.test = d.test /\ known.testDep = d.testDep /\ known.needsTest = d.needsTest
  <2>1. {c} \in SUBSET Commits
    OBVIOUS
  <2>2. QED  BY <1>1, <1>2, <2>1, LookupCommitsDb
<1>4. PICK h : h = [d.head EXCEPT ![b] = c]
  OBVIOUS
<1>5. /\ h \in [Branches -> Commits \cup {None}] /\ b \in Branches /\ h[b] = c
      /\ \A x \in Branches : x # b => h[x] = d.head[x]
  BY <1>2, <1>4 DEF Database
<1>6. PICK moved : moved = [known EXCEPT !.head = h]
  OBVIOUS
<1>7. moved = [known EXCEPT !.head[b] = c]
  <2>1. known.head = d.head
    BY <1>3 DEF SameBranches
  <2>2. QED  BY <1>4, <1>6, <2>1
<1>8. moved \in Database /\ moved.head = h
  <2>1. known \in Database
    BY <1>3
  <2>2. QED  BY <1>5, <1>6, <2>1 DEF Database
<1>9. /\ moved.repo = known.repo /\ moved.branch = known.branch /\ moved.tracks = known.tracks
      /\ moved.new = known.new /\ moved.data = known.data
      /\ moved.parsed = known.parsed /\ moved.noTests = known.noTests /\ moved.repos = known.repos /\ moved.pins = known.pins
      /\ moved.needsRepo = known.needsRepo /\ moved.needsCommit = known.needsCommit
      /\ moved.test = known.test /\ moved.testDep = known.testDep
      /\ moved.needsTest = known.needsTest
  <2>1. known \in Database
    BY <1>3
  <2>2. QED  BY <1>6, <2>1 DEF Database
<1>a. PICK bs : bs = {b}
  OBVIOUS
<1>10. e = CP!RecalculateBranchPins(moved, bs)
  BY <1>1, <1>7, <1>a DEF MovedNow, MovedHead
<1>11. /\ e \in Database /\ SameBranches(moved, e) /\ e.new = moved.new
       /\ \A x \in Branches : e.pins[x] = IF x \notin bs THEN moved.pins[x]
              ELSE IF moved.head[x] \in moved.data THEN moved.repos[moved.head[x]] ELSE {}
       /\ e.data = moved.data /\ e.parsed = moved.parsed /\ e.noTests = moved.noTests /\ e.repos = moved.repos
       /\ e.needsRepo = moved.needsRepo /\ e.needsCommit = moved.needsCommit
       /\ e.test = moved.test /\ e.testDep = moved.testDep /\ e.needsTest = moved.needsTest
  <2>1. moved \in Database
    BY <1>8
  <2>2. PICK f : f = CP!RecalculateBranchPins(moved, bs)
    OBVIOUS
  <2>3. /\ f \in Database /\ SameBranches(moved, f) /\ f.new = moved.new
        /\ \A y \in Branches : f.pins[y] = IF y \notin bs THEN moved.pins[y]
             ELSE IF moved.head[y] \in moved.data THEN moved.repos[moved.head[y]] ELSE {}
        /\ f.data = moved.data /\ f.parsed = moved.parsed /\ f.noTests = moved.noTests /\ f.repos = moved.repos
        /\ f.needsRepo = moved.needsRepo /\ f.needsCommit = moved.needsCommit
        /\ f.test = moved.test /\ f.testDep = moved.testDep /\ f.needsTest = moved.needsTest
    BY <2>1, <2>2, RecalculateDb
  <2>4. QED  BY <1>10, <2>2, <2>3, Zenon
<1>12. /\ e.repo = d.repo /\ e.branch = d.branch /\ e.head = h /\ e.data = d.data
       /\ e.parsed = d.parsed /\ e.noTests = d.noTests /\ e.repos = d.repos
       /\ e.needsRepo = d.needsRepo /\ e.needsCommit = d.needsCommit
       /\ e.test = d.test /\ e.testDep = d.testDep /\ e.needsTest = d.needsTest
       /\ d.new \subseteq e.new /\ \A t \in e.new \ d.new : t.kind = "UpdateCommitData"
  BY <1>3, <1>8, <1>9, <1>11 DEF SameBranches
<1>b. Looked(e) = Looked(d) /\ Unfinished(e) = Unfinished(d)
  BY <1>12 DEF Looked, Unfinished
<1>13. Links(e) /\ Needs(e)
  BY <1>2, <1>12, <1>b DEF Links, Needs
<1>14. NewTasks(e)
  BY <1>2, <1>12, <1>b DEF NewTasks
<1>15. PinsExact(e)
  <2>1. ASSUME NEW x \in Branches
        PROVE  PinsOk(e, x)
    <3>1. CASE x = b
      BY <1>8, <1>9, <1>11, <1>12, <1>a, <3>1 DEF PinsOk
    <3>2. CASE x # b
      <4>1. e.pins[x] = d.pins[x] /\ e.head[x] = d.head[x]
        <5>1. e.pins[x] = moved.pins[x]
          BY <1>11, <1>a, <3>2
        <5>2. moved.pins = d.pins
          BY <1>3, <1>9
        <5>3. QED  BY <1>5, <1>12, <3>2, <5>1, <5>2
      <4>2. QED  BY <1>2, <1>12, <4>1 DEF PinsExact, PinsOk
    <3>3. QED  BY <3>1, <3>2
  <2>2. Headless(e)
    BY <1>2, <1>5, <1>12 DEF PinsExact, Headless
  <2>3. \A x \in Commits : OwnPins(e, x)
    BY <1>2, <1>12, <1>b DEF PinsExact, OwnPins
  <2>4. QED  BY <2>1, <2>2, <2>3 DEF PinsExact
<1>16. \A T, x : Remembered(d, T, x) => Remembered(e, T, x)
  BY <1>12 DEF Remembered, CP!Waits
<1>17. QED  BY <1>4, <1>11, <1>12, <1>b, <1>13, <1>14, <1>15, <1>16 DEF DbInv

(* A branch gets the head that the clone has, and what it reaches is loaded. *)
LEMMA UpdateBranchTopCommitStep ==
  ASSUME Sound, ParsingInv, NEW b \in Branches, CP!UpdateBranchTopCommit(b)
  PROVE  ParsingInv'
<1>1. PICK new : new = IF tip[b] = db.head[b] THEN db
               ELSE CP!RecalculateBranchPins([CP!LookupCommits(db, {tip[b]})
                                              EXCEPT !.head[b] = tip[b]], {b})
  OBVIOUS
<1>2. PICK e : e = IF b \notin db.branch \/ tip[b] = None THEN db ELSE CP!LoadHistory(new, tip[b])
  OBVIOUS
<1>3. CP!Commit("UpdateBranchTopCommit", b, e) /\ UNCHANGED CP!git
  BY <1>1, <1>2, Zenon DEF CP!UpdateBranchTopCommit
<1>4. PICK T : T = task \ {CP!Task("UpdateBranchTopCommit", b)}
  OBVIOUS
<1>5. \A x \in db.data : Remembered(db, T, x)
  BY <1>4, ParsingFacts, StillRemembered
<1>6. Leads("UpdateBranchTopCommit", b, e)
  <2>1. CASE b \notin db.branch \/ tip[b] = None
    <3>1. e = db
      BY <1>2, <2>1
    <3>2. \A x \in e.data : Remembered(e, task \ {CP!Task("UpdateBranchTopCommit", b)}, x)
      BY <1>4, <1>5, <3>1
    <3>3. HeadsMove("UpdateBranchTopCommit", b, e)
      BY <2>1, <3>1, ParsingFacts DEF HeadsMove
    <3>4. QED  BY <3>1, <3>2, <3>3, ParsingFacts DEF Leads
  <2>2. CASE b \in db.branch /\ tip[b] # None
    <3>1. e = CP!LoadHistory(new, tip[b])
      BY <1>2, <2>2
    <3>2. /\ DbInv(db) /\ tip[b] \in Commits /\ tip[b] \in clone
          /\ CP!Reachable(tip[b]) \subseteq clone
      BY <2>2, ParsingFacts
    <3>3. /\ DbInv(new) /\ new.repo = db.repo /\ new.branch = db.branch /\ new.data = db.data
          /\ new.head = [db.head EXCEPT ![b] = tip[b]] /\ Looked(new) = Looked(db)
          /\ \A U, x : Remembered(db, U, x) => Remembered(new, U, x)
      <4>1. CASE tip[b] = db.head[b]
        <5>1. new = db
          BY <1>1, <4>1
        <5>2. db.head = [db.head EXCEPT ![b] = tip[b]]
          BY <4>1, ParsingFacts
        <5>3. QED  BY <3>2, <5>1, <5>2
      <4>2. CASE tip[b] # db.head[b]
        <5>1. PICK c \in Commits : c = tip[b]
          BY <3>2
        <5>2. new = MovedNow(db, b, c)
          BY <1>1, <4>2, <5>1 DEF MovedNow, MovedHead
        <5>3. DbInv(db) /\ b \in db.branch
          BY <2>2, <3>2
        <5>4. /\ DbInv(new) /\ new.repo = db.repo /\ new.branch = db.branch /\ new.data = db.data
              /\ new.head = [db.head EXCEPT ![b] = c] /\ Looked(new) = Looked(db)
              /\ \A U, x : Remembered(db, U, x) => Remembered(new, U, x)
          BY <5>2, <5>3, HeadMoves
        <5>5. QED  BY <5>1, <5>4
      <4>3. QED  BY <4>1, <4>2
    <3>4. /\ new.data \subseteq clone
          /\ tip[b] \in new.data => CP!Reachable(tip[b]) \subseteq new.data
          /\ \A x \in new.data : Remembered(new, T, x)
      BY <1>5, <3>3, ParsingFacts
    <3>5. /\ DbInv(e) /\ SameBranches(new, e) /\ e.data = new.data \cup CP!Reachable(tip[b])
          /\ Looked(new) \subseteq Looked(e)
          /\ \A x \in e.data : Remembered(e, T, x)
      <4>1. DbInv(new)
        BY <3>3
      <4>2. QED  BY <3>1, <3>2, <3>4, <4>1, LoadHistoryDb
    <3>6. /\ \A x \in CP!Reachable(tip[b]) : CP!Reachable(x) \subseteq CP!Reachable(tip[b])
          /\ tip[b] \in CP!Reachable(tip[b])
      BY <3>2 DEF Sound
    <3>7. /\ db.data \subseteq e.data /\ e.data \subseteq clone
          /\ \A x \in e.data : CP!Reachable(x) \subseteq e.data
      BY <3>2, <3>3, <3>5, <3>6, ParsingFacts
    <3>8. /\ e.repo = db.repo /\ e.branch = db.branch
          /\ e.head = [db.head EXCEPT ![b] = tip[b]]
      BY <3>3, <3>5 DEF SameBranches
    <3>9. /\ e.head[b] = tip[b] /\ tip[b] \in e.data
          /\ \A x \in Branches : x # b => e.head[x] = db.head[x]
      BY <3>5, <3>6, <3>8, ParsingFacts
    <3>10. HeadsMove("UpdateBranchTopCommit", b, e)
      BY <3>7, <3>9, ParsingFacts DEF HeadsMove
    <3>11. Looked(db) \subseteq Looked(e)
      BY <3>3, <3>5
    <3>12. QED  BY <1>4, <3>5, <3>7, <3>8, <3>10, <3>11 DEF Leads
  <2>3. QED  BY <2>1, <2>2
<1>7. QED  BY <1>3, <1>6, CommitStep

(* Steps that leave the database and the clones alone. *)
LEMMA DatabaseSame ==
  ASSUME Sound, ParsingInv, db' = db, UNCHANGED <<tip, clone>>,
         remote' \in [Branches -> Commits \cup {None}], task' \subseteq TaskSet,
         \A c : CP!Task("CommitTestParse", c) \in task' <=> CP!Task("CommitTestParse", c) \in task,
         TasksKnown', Tracked'
  PROVE  ParsingInv'
<1>1. DbInv(db') /\ db'.new = {}
  BY DEF ParsingInv
<1>2. \A c \in db'.data : Remembered(db', task', c)
  <2>1. ASSUME NEW c \in db.data  PROVE Remembered(db, task', c)
    <3>1. Remembered(db, task, c)
      BY ParsingFacts
    <3>2. QED  BY <3>1 DEF Remembered
  <2>2. QED  BY <2>1
<1>3. GitTypes'
  BY DEF ParsingInv, GitTypes
<1>4. Closed'
  BY DEF ParsingInv, Closed, CP!Reachable
<1>5. QED  BY <1>1, <1>2, <1>3, <1>4 DEF ParsingInv

(* A user pushes: the git server will tell. *)
LEMMA PushStep ==
  ASSUME Sound, ParsingInv, NEW b \in Branches, NEW c \in Commits \cup {None}, CP!Push(b, c)
  PROVE  ParsingInv'
<1>1. /\ remote' = [remote EXCEPT ![b] = c] /\ hook' = hook \cup {RepoOf[b]}
      /\ UNCHANGED <<tip, clone, db, task, fetched>>
      /\ remote \in [Branches -> Commits \cup {None}] /\ task \subseteq TaskSet
  BY DEF CP!Push, ParsingInv, GitTypes
<1>2. TasksKnown'
  BY <1>1 DEF ParsingInv, TasksKnown, Visited, Fetching
<1>3. Tracked'
  <2> SUFFICES ASSUME NEW r \in Repos, db.repo[r] # "unknown", r # RepoOf[b]
               PROVE  \/ Pending(r)' \/ Agrees(r)'
                      \/ Fetching(r)' /\ \A x \in CP!Of(r) : tip'[x] = remote'[x]
    BY <1>1 DEF Tracked, Pending, CP!Of
  <2>1. \A x \in CP!Of(r) : x \in Branches /\ remote'[x] = remote[x]
    BY <1>1 DEF CP!Of
  <2>2. Pending(r) => Pending(r)'
    BY <1>1 DEF Pending
  <2>3. Agrees(r) => Agrees(r)'
    BY <1>1, <2>1 DEF Agrees, CP!Of
  <2>4. Fetching(r) => Fetching(r)'
    BY <1>1 DEF Fetching
  <2>5. QED  BY <1>1, <2>1, <2>2, <2>3, <2>4 DEF ParsingInv, Tracked
<1>4. QED  BY <1>1, <1>2, <1>3, DatabaseSame

(* The webhook: a refresh of the repository is queued. *)
LEMMA WebhookStep ==
  ASSUME Sound, ParsingInv, NEW r \in Repos, CP!Webhook(r)
  PROVE  ParsingInv'
<1>1. /\ hook' = hook \ {r} /\ UNCHANGED <<remote, tip, clone, db, fetched>>
      /\ task' = IF db.repo[r] = "unknown" THEN task ELSE task \cup {CP!Task("RefreshBranches", r)}
      /\ remote \in [Branches -> Commits \cup {None}] /\ task \subseteq TaskSet
  BY DEF CP!Webhook, ParsingInv, GitTypes
<1>2. /\ task \subseteq task'
      /\ \A t \in task' \ task : t = CP!Task("RefreshBranches", r) /\ db.repo[r] # "unknown"
  BY <1>1
<1>3. task' \subseteq TaskSet
  <2>1. CP!Task("RefreshBranches", r) \in TaskSet
    BY TaskIs DEF TaskKinds
  <2>2. QED  BY <1>1, <1>2, <2>1
<1>4. \A k, x : k # "RefreshBranches" \/ x # r =>
         (CP!Task(k, x) \in task' <=> CP!Task(k, x) \in task)
  BY <1>2, TasksDiffer
<1>5. \A c : CP!Task("CommitTestParse", c) \in task' <=> CP!Task("CommitTestParse", c) \in task
  BY <1>4
<1>6. TasksKnown'
  <2>1. ASSUME NEW x \in Repos, Visited(x)'  PROVE db.repo[x] # "unknown"
    <3>1. CASE Visited(x)
      BY <3>1 DEF ParsingInv, TasksKnown
    <3>2. CASE ~Visited(x)
      <4>1. x = r /\ task' # task
        BY <1>1, <1>4, <2>1, <3>2 DEF Visited, Fetching
      <4>2. QED  BY <1>1, <4>1
    <3>3. QED  BY <3>1, <3>2
  <2>2. QED  BY <1>1, <1>5, <2>1 DEF ParsingInv, TasksKnown
<1>7. Tracked'
  <2> SUFFICES ASSUME NEW x \in Repos, db.repo[x] # "unknown"
               PROVE  \/ Pending(x)' \/ Agrees(x)'
                      \/ Fetching(x)' /\ \A b \in CP!Of(x) : tip'[b] = remote'[b]
    BY <1>1 DEF Tracked, CP!Of
  <2>1. Pending(x) => Pending(x)'
    <3>1. CASE x = r
      BY <1>1, <3>1 DEF Pending
    <3>2. CASE x # r
      BY <1>1, <1>2, <3>2 DEF Pending
    <3>3. QED  BY <3>1, <3>2
  <2>2. Agrees(x) => Agrees(x)'
    BY <1>1, <1>2 DEF Agrees, CP!Of
  <2>3. Fetching(x) => Fetching(x)'
    BY <1>1 DEF Fetching
  <2>4. QED  BY <1>1, <2>1, <2>2, <2>3 DEF ParsingInv, Tracked
<1>8. QED  BY <1>1, <1>3, <1>5, <1>6, <1>7, DatabaseSame

(* The repositories are going to be listed again. *)
LEMMA RefreshStep ==
  ASSUME Sound, ParsingInv, CP!Refresh
  PROVE  ParsingInv'
<1>1. /\ UNCHANGED <<remote, tip, clone, hook, db, fetched>>
      /\ task' = task \cup {CP!Task("RefreshRepos", None)}
      /\ remote \in [Branches -> Commits \cup {None}] /\ task \subseteq TaskSet
  BY DEF CP!Refresh, CP!git, ParsingInv, GitTypes
<1>2. task' \subseteq TaskSet
  <2>1. CP!Task("RefreshRepos", None) \in TaskSet
    BY TaskIs DEF TaskKinds
  <2>2. QED  BY <1>1, <2>1
<1>3. \A k, x : k # "RefreshRepos" => (CP!Task(k, x) \in task' <=> CP!Task(k, x) \in task)
  BY <1>1, TasksDiffer
<1>4. \A c : CP!Task("CommitTestParse", c) \in task' <=> CP!Task("CommitTestParse", c) \in task
  BY <1>3
<1>5. \A r : /\ Visited(r)' <=> Visited(r)
             /\ Pending(r)' <=> Pending(r)
             /\ Fetching(r)' <=> Fetching(r)
  BY <1>1, <1>3 DEF Visited, Pending, Fetching
<1>6. TasksKnown'
  BY <1>1, <1>4, <1>5 DEF ParsingInv, TasksKnown
<1>7. \A r : Agrees(r) => Agrees(r)'
  BY <1>1 DEF Agrees, CP!Of
<1>8. Tracked'
  BY <1>1, <1>5, <1>7 DEF ParsingInv, Tracked, CP!Of
<1>9. QED  BY <1>1, <1>2, <1>4, <1>6, <1>8, DatabaseSame

(* What is reached from a commit is complete. *)
LEMMA ReachableIs ==
  ASSUME Sound, NEW c \in Commits
  PROVE  /\ CP!Reachable(c) \subseteq Commits /\ c \in CP!Reachable(c)
         /\ \A x \in CP!Reachable(c) : CP!Reachable(x) \subseteq CP!Reachable(c)
<1>1. /\ LookingBack[c] \in Seq(Commits) /\ c \in CP!Reachable(c)
      /\ \A x \in CP!Reachable(c) : CP!Reachable(x) \subseteq CP!Reachable(c)
  BY DEF Sound
<1>2. CP!Reachable(c) \subseteq Commits
  <2> SUFFICES ASSUME NEW i \in DOMAIN LookingBack[c]  PROVE LookingBack[c][i] \in Commits
    BY DEF CP!Reachable, CP!Range
  <2>1. PICK s \in Seq(Commits) : s = LookingBack[c]
    BY <1>1
  <2>2. i \in 1 .. Len(s)
    BY <2>1
  <2>3. QED  BY <2>1, <2>2, ElementOfSeq
<1>3. QED  BY <1>1, <1>2

(* The repository is fetched. *)
LEMMA FetchOriginStep ==
  ASSUME Sound, ParsingInv, NEW k \in {"RefreshBranches", "FirstRefresh"}, NEW r \in Repos,
         CP!FetchOrigin(k, r)
  PROVE  ParsingInv'
<1>1. /\ fetched = None /\ CP!Task(k, r) \in task /\ fetched' = CP!Task(k, r)
      /\ tip' = [b \in Branches |-> IF b \in CP!Of(r) THEN remote[b] ELSE tip[b]]
      /\ clone' = clone \cup CP!AtServer(r) /\ task' = task \ {CP!Task(k, r)}
      /\ UNCHANGED <<remote, hook, db>>
      /\ remote \in [Branches -> Commits \cup {None}] /\ tip \in [Branches -> Commits \cup {None}]
      /\ clone \subseteq Commits /\ task \subseteq TaskSet
  BY DEF CP!FetchOrigin, CP!Takes, ParsingInv, GitTypes
<1>2. fetched' # None /\ fetched'.of = r
  <2>1. k \in TaskKinds
    BY DEF TaskKinds
  <2>2. QED  BY <1>1, <2>1, TaskIs DEF Sound
<1>3. /\ CP!AtServer(r) \subseteq Commits
      /\ \A c \in CP!AtServer(r) : CP!Reachable(c) \subseteq CP!AtServer(r)
      /\ \A b \in CP!Of(r) : remote[b] # None => remote[b] \in CP!AtServer(r)
  <2>1. \A b \in CP!Of(r) : remote[b] # None => remote[b] \in Commits
    BY <1>1 DEF CP!Of
  <2>2. \A c : c \in CP!AtServer(r) <=>
           \E b \in CP!Of(r) : remote[b] # None /\ c \in CP!Reachable(remote[b])
    BY DEF CP!AtServer
  <2>3. QED  BY <2>1, <2>2, ReachableIs
<1>4. /\ tip' \in [Branches -> Commits \cup {None}]
      /\ \A b \in CP!Of(r) : tip'[b] = remote[b]
      /\ \A b \in Branches : RepoOf[b] # r => tip'[b] = tip[b]
  BY <1>1 DEF CP!Of
<1>5. GitTypes'
  BY <1>1, <1>3, <1>4 DEF GitTypes
<1>6. \A j, x : CP!Task(j, x) \in task' <=> CP!Task(j, x) \in task /\ (j # k \/ x # r)
  BY <1>1, TasksDiffer
<1>7. \A c \in db'.data : Remembered(db', task', c)
  <2>1. \A c \in db.data : Remembered(db, task', c)
    BY <1>1, ParsingFacts, StillRemembered
  <2>2. QED  BY <1>1, <2>1
<1>8. Closed'
  <2>1. \A c \in clone' : CP!Reachable(c) \subseteq clone'
    BY <1>1, <1>3, ParsingFacts
  <2>2. \A b \in Branches : tip'[b] # None => tip'[b] \in clone'
    <3> TAKE b \in Branches
    <3>1. CASE b \in CP!Of(r)
      BY <1>1, <1>3, <1>4, <3>1
    <3>2. CASE b \notin CP!Of(r)
      BY <1>1, <1>4, <3>2, ParsingFacts DEF CP!Of
    <3>3. QED  BY <3>1, <3>2
  <2>3. db.data \subseteq clone'
    BY <1>1, ParsingFacts
  <2>4. QED  BY <1>1, <2>1, <2>2, <2>3, ParsingFacts DEF Closed, CP!Reachable
<1>9. TasksKnown'
  <2>1. ASSUME NEW x \in Repos, Visited(x)'  PROVE Visited(x)
    <3>1. CASE x = r
      BY <1>1, <3>1 DEF Visited
    <3>2. CASE x # r
      BY <1>2, <1>6, <2>1, <3>2 DEF Visited, Fetching
    <3>3. QED  BY <3>1, <3>2
  <2>2. \A c \in Commits : CP!Task("CommitTestParse", c) \in task' => c \in Looked(db)
    BY <1>6 DEF ParsingInv, TasksKnown
  <2>3. QED  BY <1>1, <1>2, <2>1, <2>2 DEF ParsingInv, TasksKnown
<1>10. Tracked'
  <2> SUFFICES ASSUME NEW x \in Repos, db.repo[x] # "unknown"
               PROVE  \/ Pending(x)' \/ Agrees(x)'
                      \/ Fetching(x)' /\ \A b \in CP!Of(x) : tip'[b] = remote'[b]
    BY <1>1 DEF Tracked, CP!Of
  <2>1. CASE x = r
    BY <1>1, <1>2, <1>4, <2>1 DEF Fetching
  <2>2. CASE x # r
    <3>1. Pending(x) => Pending(x)'
      BY <1>1, <1>6, <2>2 DEF Pending
    <3>2. ~Fetching(x)
      BY <1>1 DEF Fetching
    <3>3. ASSUME Agrees(x)  PROVE Agrees(x)'
      <4>1. \A b \in Branches : RepoOf[b] = x => tip'[b] = tip[b]
        BY <1>4, <2>2
      <4>2. \A b : CP!Task("UpdateBranchTopCommit", b) \in task
                     => CP!Task("UpdateBranchTopCommit", b) \in task'
        BY <1>6
      <4>3. QED  BY <1>1, <3>3, <4>1, <4>2 DEF Agrees, CP!Of
    <3>4. QED  BY <3>1, <3>2, <3>3 DEF ParsingInv, Tracked
  <2>3. QED  BY <2>1, <2>2
<1>11. QED  BY <1>1, <1>5, <1>7, <1>8, <1>9, <1>10 DEF ParsingInv

(* The branches that are listed are those there are. *)
ListedNow(d, gone, listed) == [CP!BranchesDeleted(d, gone) EXCEPT !.branch = @ \cup listed]

Separate(gone, listed) ==
    gone \subseteq Branches /\ listed \subseteq Branches /\ gone \cap listed = {}

(* What this does to the database. *)
LEMMA ListedDb ==
  ASSUME Sound, NEW d, DbInv(d), NEW gone, NEW listed, Separate(gone, listed),
         NEW e, e = ListedNow(d, gone, listed)
  PROVE  /\ DbInv(e) /\ e.new = d.new /\ e.repo = d.repo /\ e.data = d.data
         /\ e.branch = (d.branch \ gone) \cup listed
         /\ \A b \in Branches \ gone : e.head[b] = d.head[b]
         /\ \A b \in gone : e.head[b] = None
         /\ Looked(e) = Looked(d)
         /\ \A T, c : Remembered(d, T, c) => Remembered(e, T, c)
<1>1. /\ d \in Database /\ Links(d) /\ Needs(d) /\ PinsExact(d) /\ NewTasks(d)
      /\ d.branch \subseteq Branches /\ d.head \in [Branches -> Commits \cup {None}]
      /\ d.tracks \in [Branches -> Branches \cup {None}] /\ d.data \subseteq Commits
      /\ d.pins \in [Branches -> SUBSET Branches]
      /\ gone \subseteq Branches /\ listed \subseteq Branches /\ gone \cap listed = {}
  BY DEF DbInv, Database, Separate
<1>2. PICK h, p, tr, br :
         /\ h = [b \in Branches |-> IF b \in gone THEN None ELSE d.head[b]]
         /\ p = [b \in Branches |-> IF b \in gone THEN {} ELSE d.pins[b]]
         /\ tr = [b \in Branches |-> IF b \in gone THEN None ELSE d.tracks[b]]
         /\ br = (d.branch \ gone) \cup listed
  OBVIOUS
<1>3. /\ h \in [Branches -> Commits \cup {None}] /\ p \in [Branches -> SUBSET Branches]
      /\ tr \in [Branches -> Branches \cup {None}] /\ br \in SUBSET Branches
  BY <1>1, <1>2
<1>4. PICK f : f = [d EXCEPT !.branch = br, !.head = h, !.pins = p, !.tracks = tr]
  OBVIOUS
<1>5. e = f
  BY <1>1, <1>2, <1>4 DEF ListedNow, CP!BranchesDeleted, Database
<1>6. f \in Database /\ f.branch = br /\ f.head = h /\ f.pins = p
  BY <1>1, <1>3, <1>4 DEF Database
<1>7. /\ f.repo = d.repo /\ f.new = d.new /\ f.data = d.data
      /\ f.parsed = d.parsed /\ f.noTests = d.noTests /\ f.repos = d.repos
      /\ f.needsRepo = d.needsRepo /\ f.needsCommit = d.needsCommit
      /\ f.test = d.test /\ f.testDep = d.testDep /\ f.needsTest = d.needsTest
  BY <1>1, <1>4 DEF Database
<1>a. Looked(f) = Looked(d) /\ Unfinished(f) = Unfinished(d)
  BY <1>7 DEF Looked, Unfinished
<1>8. Links(f) /\ Needs(f) /\ NewTasks(f)
  BY <1>1, <1>7, <1>a DEF Links, Needs, NewTasks
<1>9. \A b \in Branches : f.head[b] = IF b \in gone THEN None ELSE d.head[b]
  BY <1>2, <1>6
<1>10. PinsExact(f)
  <2>1. ASSUME NEW b \in Branches
        PROVE  PinsOk(f, b)
    <3>1. CASE b \in gone
      <4>1. f.pins[b] = {} /\ f.head[b] = None /\ None \notin f.data
        BY <1>1, <1>2, <1>6, <1>7, <3>1 DEF Sound
      <4>2. QED  BY <4>1 DEF PinsOk
    <3>2. CASE b \notin gone
      <4>1. f.pins[b] = d.pins[b] /\ f.head[b] = d.head[b]
        BY <1>2, <1>6, <3>2
      <4>2. QED  BY <1>1, <1>7, <4>1 DEF PinsExact, PinsOk
    <3>3. QED  BY <3>1, <3>2
  <2>2. Headless(f)
    BY <1>1, <1>2, <1>6, <1>9 DEF PinsExact, Headless
  <2>3. \A x \in Commits : OwnPins(f, x)
    BY <1>1, <1>7, <1>a DEF PinsExact, OwnPins
  <2>4. QED  BY <2>1, <2>2, <2>3 DEF PinsExact
<1>11. \A T, c : Remembered(d, T, c) => Remembered(f, T, c)
  BY <1>7 DEF Remembered, CP!Waits
<1>12. /\ \A b \in Branches \ gone : f.head[b] = d.head[b]
       /\ \A b \in gone : f.head[b] = None
  BY <1>1, <1>9
<1>13. QED  BY <1>2, <1>5, <1>6, <1>7, <1>a, <1>8, <1>10, <1>11, <1>12 DEF DbInv

(* The branches that the server has are compared with those of the database. *)
LEMMA ListBranchesStep ==
  ASSUME Sound, ParsingInv, CP!ListBranches
  PROVE  ParsingInv'
<1>1. PICK r : r = fetched.of
  OBVIOUS
<1>2. PICK listed : listed = {b \in CP!Of(r) : remote[b] # None}
  OBVIOUS
<1>3. PICK gone : gone = {b \in db.branch \cap CP!Of(r) : b \notin listed}
  OBVIOUS
<1>4. PICK now : now = ListedNow(db, gone, listed)
  OBVIOUS
<1>5. PICK made : made = CP!TrackingBranches(gone)
  OBVIOUS
<1>6. PICK created : created = {CP!Task("CheckBranchAutocreate", b) : b \in listed \ db.branch}
  OBVIOUS
<1>7. PICK moving : moving = {CP!Task("UpdateBranchTopCommit", b) :
                                b \in {x \in listed : now.head[x] # remote[x]}}
  OBVIOUS
<1>8. /\ fetched # None /\ fetched' = None /\ UNCHANGED <<tip, clone>>
      /\ remote' = [b \in Branches |-> IF b \in made THEN None ELSE remote[b]]
      /\ hook' = hook \cup {RepoOf[b] : b \in made}
      /\ db' = now /\ task' = task \cup created \cup moving
  BY <1>1, <1>2, <1>3, <1>4, <1>5, <1>6, <1>7 DEF CP!ListBranches, ListedNow
<1>9. /\ r \in Repos /\ db.repo[r] # "unknown"
      /\ listed \subseteq Branches /\ gone \subseteq Branches /\ gone \cap listed = {}
      /\ remote \in [Branches -> Commits \cup {None}] /\ task \subseteq TaskSet
      /\ \A b \in listed \cup gone : RepoOf[b] = r
  BY <1>1, <1>2, <1>3, <1>8 DEF ParsingInv, TasksKnown, Visited, Fetching, GitTypes, CP!Of
<1>10. /\ DbInv(now) /\ now.new = db.new /\ now.repo = db.repo /\ now.data = db.data
       /\ now.branch = (db.branch \ gone) \cup listed
       /\ \A b \in Branches \ gone : now.head[b] = db.head[b]
       /\ \A b \in gone : now.head[b] = None
       /\ Looked(now) = Looked(db)
       /\ \A T, c : Remembered(db, T, c) => Remembered(now, T, c)
  <2>1. DbInv(db) /\ Separate(gone, listed)
    BY <1>9, ParsingFacts DEF Separate
  <2>2. QED  BY <1>4, <2>1, ListedDb
<1>11. /\ task' \subseteq TaskSet /\ task \subseteq task'
       /\ \A k, x : CP!Task(k, x) \in task' =>
             CP!Task(k, x) \in task \/ k \in {"CheckBranchAutocreate", "UpdateBranchTopCommit"}
  <2>1. \A k, x : CP!Task(k, x) \in created => k = "CheckBranchAutocreate"
    BY <1>6, TasksDiffer
  <2>2. \A k, x : CP!Task(k, x) \in moving => k = "UpdateBranchTopCommit"
    BY <1>7, TasksDiffer
  <2>3. \A b \in Branches : /\ CP!Task("CheckBranchAutocreate", b) \in TaskSet
                            /\ CP!Task("UpdateBranchTopCommit", b) \in TaskSet
    BY TaskIs DEF TaskKinds
  <2>4. created \subseteq TaskSet /\ moving \subseteq TaskSet
    BY <1>6, <1>7, <1>9, <2>3
  <2>5. QED  BY <1>8, <1>9, <2>1, <2>2, <2>4
<1>12. \A c \in db'.data : Remembered(db', task', c)
  <2>1. ASSUME NEW c \in db.data  PROVE Remembered(now, task', c)
    <3>1. Remembered(db, task, c)
      BY ParsingFacts
    <3>2. Remembered(now, task, c)
      BY <1>10, <3>1
    <3>3. QED  BY <1>11, <3>2 DEF Remembered
  <2>2. QED  BY <1>8, <1>10, <2>1
<1>13. GitTypes'
  BY <1>8, <1>9, <1>11 DEF ParsingInv, GitTypes
<1>14. Closed'
  <2>1. \A b \in Branches : now.head[b] # None => now.head[b] \in now.data
    BY <1>10, ParsingFacts
  <2>2. QED  BY <1>8, <1>10, <2>1 DEF ParsingInv, Closed, CP!Reachable
<1>15. TasksKnown'
  <2>1. \A x \in Repos : Visited(x)' => Visited(x)
    BY <1>8, <1>11 DEF Visited, Fetching
  <2>2. \A c \in Commits : CP!Task("CommitTestParse", c) \in task' => c \in Looked(db)
    BY <1>11 DEF ParsingInv, TasksKnown
  <2>3. \A b \in now.branch : db.repo[RepoOf[b]] # "unknown"
    BY <1>9, <1>10 DEF ParsingInv, TasksKnown
  <2>4. QED  BY <1>8, <1>10, <2>1, <2>2, <2>3 DEF ParsingInv, TasksKnown
<1>16. Tracked'
  <2> SUFFICES ASSUME NEW x \in Repos, db.repo[x] # "unknown", ~Pending(x)'  PROVE Agrees(x)'
    BY <1>8, <1>10 DEF Tracked
  <2>1. ~Pending(x)
    BY <1>8, <1>11 DEF Pending
  <2>2. \A b \in Branches : RepoOf[b] = x => b \notin made /\ remote'[b] = remote[b]
    BY <1>8 DEF Pending
  <2>3. CASE x = r
    <3>1. \A b \in CP!Of(r) : tip[b] = remote[b]
      BY <2>1, <2>3 DEF ParsingInv, Tracked, Agrees
    <3>2. ASSUME NEW b \in CP!Of(r)
          PROVE  /\ tip'[b] = remote'[b] /\ (b \in db'.branch <=> remote'[b] # None)
                 /\ b \in db'.branch => \/ db'.head[b] = remote'[b]
                                        \/ CP!Task("UpdateBranchTopCommit", b) \in task'
      <4>1. /\ tip'[b] = remote'[b] /\ remote'[b] = remote[b]
        BY <1>8, <2>2, <2>3, <3>1 DEF CP!Of
      <4>2. b \in db'.branch <=> b \in listed
        BY <1>2, <1>3, <1>8, <1>10
      <4>3. b \in listed =>
               now.head[b] = remote[b] \/ CP!Task("UpdateBranchTopCommit", b) \in moving
        BY <1>7
      <4>4. QED  BY <1>2, <1>8, <4>1, <4>2, <4>3
    <3>3. QED  BY <2>3, <3>2 DEF Agrees, CP!Of
  <2>4. CASE x # r
    <3>1. Agrees(x)
      BY <1>1, <2>1, <2>4 DEF ParsingInv, Tracked, Fetching
    <3>2. ASSUME NEW b \in CP!Of(x)
          PROVE  /\ tip'[b] = remote'[b] /\ (b \in db'.branch <=> remote'[b] # None)
                 /\ b \in db'.branch => \/ db'.head[b] = remote'[b]
                                        \/ CP!Task("UpdateBranchTopCommit", b) \in task'
      <4>1. remote'[b] = remote[b] /\ b \in Branches
        BY <2>2 DEF CP!Of
      <4>2. b \notin gone /\ b \notin listed
        BY <1>9, <2>4 DEF CP!Of
      <4>3. (b \in db'.branch <=> b \in db.branch) /\ db'.head[b] = db.head[b]
        BY <1>8, <1>10, <4>1, <4>2
      <4>4. QED  BY <1>8, <1>11, <3>1, <4>1, <4>3 DEF Agrees
    <3>3. QED  BY <3>2 DEF Agrees, CP!Of
  <2>5. QED  BY <2>3, <2>4
<1>17. QED  BY <1>8, <1>10, <1>12, <1>13, <1>14, <1>15, <1>16, ParsingFacts DEF ParsingInv

(* A commit is no longer counted as parsed. *)
Unparsed(d, c) == [d EXCEPT !.parsed = @ \ {c}, !.noTests = @ \ {c}]

(* The others are remembered as they were. *)
LEMMA UnparsedDb ==
  ASSUME NEW d, DbInv(d), NEW c \in d.data, NEW e, e = Unparsed(d, c)
  PROVE  /\ LooseInv(e, c) /\ SameBranches(d, e) /\ e.data = d.data /\ e.new = d.new
         /\ Looked(d) \subseteq Looked(e) /\ c \in Looked(e)
         /\ \A T, x : x # c /\ Remembered(d, T, x) => Remembered(e, T, x)
<1>1. d \in Database /\ Links(d) /\ Needs(d) /\ PinsExact(d) /\ NewTasks(d)
  BY DEF DbInv
<1>2. PICK p \in SUBSET Commits, n \in SUBSET Commits, q \in SUBSET Commits :
         p = d.parsed \ {c} /\ n = d.noTests \ {c} /\ q = d.error
  BY <1>1 DEF Database
<1>3. e = SetError(SetNoTests(SetParsed(d, p), n), q)
  BY <1>1, <1>2 DEF Database, Unparsed, SetParsed, SetNoTests, SetError
<1>4. /\ e \in Database /\ Links(e) /\ Untouched(d, e) /\ e.repos = d.repos
      /\ e.parsed = d.parsed \ {c} /\ e.noTests = d.noTests \ {c}
  BY <1>1, <1>2, <1>3, DoneDb
<1>5. /\ Looked(d) \subseteq Looked(e) /\ c \in Looked(e)
      /\ \A x : x # c => (x \in Unfinished(e) <=> x \in Unfinished(d))
  BY <1>4 DEF Looked, Unfinished, Untouched
<1>6. Needs(e)
  BY <1>1, <1>4, <1>5 DEF Needs, Untouched, SameBranches
<1>7. NewTasks(e)
  BY <1>1, <1>4, <1>5 DEF NewTasks, Untouched
<1>8. PinsBut(e, c)
  <2>1. \A b \in Branches : e.head[b] # c => PinsOk(e, b)
    BY <1>1, <1>4 DEF PinsExact, PinsOk, Untouched, SameBranches
  <2>2. Headless(e)
    BY <1>1, <1>4 DEF PinsExact, Headless, Untouched, SameBranches
  <2>3. \A x \in Commits : x # c => OwnPins(e, x)
    BY <1>1, <1>4, <1>5 DEF PinsExact, OwnPins
  <2>4. QED  BY <2>1, <2>2, <2>3 DEF PinsBut
<1>9. \A T, x : x # c /\ Remembered(d, T, x) => Remembered(e, T, x)
  BY <1>4 DEF Remembered, CP!Waits, Untouched
<1>10. QED  BY <1>4, <1>5, <1>6, <1>7, <1>8, <1>9 DEF LooseInv, Untouched

(* A commit is parsed again because a user asks for it. *)
LEMMA ForceParseStep ==
  ASSUME Sound, ParsingInv, NEW c \in Commits, CP!ForceParse(c)
  PROVE  ParsingInv'
<1>1. PICK un : un = Unparsed(db, c)
  OBVIOUS
<1>2. PICK again : again = CP!Parse(un, clone, c)
  OBVIOUS
<1>3. PICK bs : bs = CP!HeadAt(db, c)
  OBVIOUS
<1>4. PICK e : e = CP!RecalculateBranchPins(again, bs)
  OBVIOUS
<1>5. /\ c \in db.data /\ db' = [e EXCEPT !.new = {}] /\ task' = task \cup e.new
      /\ UNCHANGED <<remote, tip, clone, hook, fetched>>
  BY <1>1, <1>2, <1>3, <1>4 DEF CP!ForceParse, Unparsed, CP!git
<1>6. /\ DbInv(db) /\ db.data \subseteq clone /\ db.new = {}
      /\ \A x \in db.data : Remembered(db, task, x)
  BY ParsingFacts
<1>7. /\ LooseInv(un, c) /\ SameBranches(db, un) /\ un.data = db.data /\ un.new = db.new
      /\ Looked(db) \subseteq Looked(un) /\ c \in Looked(un)
      /\ \A T, x : x # c /\ Remembered(db, T, x) => Remembered(un, T, x)
  BY <1>1, <1>5, <1>6, UnparsedDb
<1>8. /\ LooseInv(again, c) /\ OwnPins(again, c) /\ SameBranches(un, again)
      /\ again.data = un.data /\ again.new = un.new /\ Looked(un) \subseteq Looked(again)
      /\ \A T, x : x = c \/ Remembered(un, T, x) => Remembered(again, T, x)
  <2>1. LooseInv(un, c) /\ c \in Looked(un) /\ un.data \subseteq clone
    BY <1>6, <1>7
  <2>2. QED  BY <1>2, <2>1, ParseLoose
<1>9. /\ DbInv(e) /\ SameBranches(again, e) /\ e.data = again.data /\ e.new = again.new
      /\ Looked(e) = Looked(again)
      /\ \A T, x : Remembered(again, T, x) => Remembered(e, T, x)
  <2>1. LooseInv(again, c) /\ OwnPins(again, c)
    BY <1>8
  <2>2. \A b \in again.branch : again.head[b] = c => b \in bs
    BY <1>3, <1>7, <1>8 DEF CP!HeadAt, SameBranches
  <2>3. QED  BY <1>4, <2>1, <2>2, RecalculateExact
<1>10. /\ DbInv(db') /\ db'.new = {} /\ SameBranches(e, db') /\ db'.data = e.data
       /\ Looked(db') = Looked(e)
       /\ \A T, U, x : Remembered(e, T, x) /\ T \cup e.new \subseteq U => Remembered(db', U, x)
  <2>1. DbInv(e)
    BY <1>9
  <2>2. QED  BY <1>5, <2>1, TakenOver
<1>11. e.new = {} /\ task' = task
  BY <1>5, <1>6, <1>7, <1>8, <1>9
<1>12. db'.data = db.data /\ \A x \in db'.data : Remembered(db', task', x)
  <2>1. \A x \in db'.data : Remembered(e, task, x)
    BY <1>6, <1>7, <1>8, <1>9, <1>10
  <2>2. task \cup e.new \subseteq task'
    BY <1>11
  <2>3. QED  BY <1>7, <1>8, <1>9, <1>10, <2>1, <2>2
<1>13. SameBranches(db, db')
  BY <1>7, <1>8, <1>9, <1>10 DEF SameBranches
<1>14. GitTypes'
  BY <1>5, <1>11 DEF ParsingInv, GitTypes
<1>15. Closed'
  BY <1>5, <1>12, <1>13 DEF ParsingInv, Closed, CP!Reachable, SameBranches
<1>a. Looked(db) \subseteq Looked(db')
  BY <1>7, <1>8, <1>9, <1>10
<1>16. TasksKnown'
  BY <1>5, <1>11, <1>a, <1>13 DEF ParsingInv, TasksKnown, Visited, Fetching, SameBranches
<1>17. Tracked'
  BY <1>5, <1>11, <1>13 DEF ParsingInv, Tracked, Pending, Fetching, Agrees, CP!Of, SameBranches
<1>18. QED  BY <1>10, <1>12, <1>14, <1>15, <1>16, <1>17 DEF ParsingInv

(* A branch that was made is recorded, with the one that it tracks. *)
Recorded(d, x, b) == [d EXCEPT !.branch = @ \cup {x}, !.tracks[x] = b]

RecordedNow(d, x, b, what) == [CP!Queue(Recorded(d, x, b), what) EXCEPT !.new = {}]

(* It has no head yet. *)
LEMMA RecordedDb ==
  ASSUME Sound, NEW d, DbInv(d), d.new = {}, NEW x \in Branches, NEW b \in Branches,
         NEW what, NEW e, e = RecordedNow(d, x, b, what)
  PROVE  /\ DbInv(e) /\ e.new = {} /\ e.repo = d.repo /\ e.data = d.data
         /\ e.branch = d.branch \cup {x} /\ e.head = d.head /\ Looked(e) = Looked(d)
         /\ \A T, c : Remembered(d, T, c) => Remembered(e, T, c)
<1>1. /\ d \in Database /\ Links(d) /\ Needs(d) /\ PinsExact(d) /\ NewTasks(d)
      /\ d.branch \subseteq Branches /\ d.tracks \in [Branches -> Branches \cup {None}]
  BY DEF DbInv, Database
<1>2. PICK br, tr : br = d.branch \cup {x} /\ tr = [d.tracks EXCEPT ![x] = b]
  OBVIOUS
<1>3. br \in SUBSET Branches /\ tr \in [Branches -> Branches \cup {None}]
  BY <1>1, <1>2
<1>4. PICK f : f = [d EXCEPT !.branch = br, !.tracks = tr]
  OBVIOUS
<1>5. e = f
  <2>1. PICK f1 : f1 = Recorded(d, x, b)
    OBVIOUS
  <2>2. f1 = f
    BY <1>2, <1>4, <2>1 DEF Recorded
  <2>3. PICK n : n = f1.new \cup what
    OBVIOUS
  <2>4. e = [[f1 EXCEPT !.new = n] EXCEPT !.new = {}]
    BY <2>1, <2>3 DEF RecordedNow, CP!Queue
  <2>5. f = [[f EXCEPT !.new = n] EXCEPT !.new = {}]
    BY <1>1, <1>4 DEF Database
  <2>6. QED  BY <2>2, <2>4, <2>5
<1>6. f \in Database /\ f.branch = br
  BY <1>1, <1>3, <1>4 DEF Database
<1>7. /\ f.repo = d.repo /\ f.head = d.head /\ f.pins = d.pins /\ f.new = d.new
      /\ f.data = d.data /\ f.parsed = d.parsed /\ f.noTests = d.noTests /\ f.repos = d.repos
      /\ f.needsRepo = d.needsRepo /\ f.needsCommit = d.needsCommit
      /\ f.test = d.test /\ f.testDep = d.testDep /\ f.needsTest = d.needsTest
  BY <1>1, <1>4 DEF Database
<1>a. Looked(f) = Looked(d) /\ Unfinished(f) = Unfinished(d)
  BY <1>7 DEF Looked, Unfinished
<1>8. Links(f) /\ Needs(f) /\ NewTasks(f)
  BY <1>1, <1>7, <1>a DEF Links, Needs, NewTasks
<1>9. PinsExact(f)
  BY <1>1, <1>2, <1>6, <1>7, <1>a DEF PinsExact, PinsOk, Headless, OwnPins
<1>10. \A T, c : Remembered(d, T, c) => Remembered(f, T, c)
  BY <1>7 DEF Remembered, CP!Waits
<1>11. QED  BY <1>2, <1>5, <1>6, <1>7, <1>a, <1>8, <1>9, <1>10 DEF DbInv

(* A branch is made for another one, or is not. *)
LEMMA CheckBranchAutocreateStep ==
  ASSUME Sound, ParsingInv, NEW b \in Branches, CP!CheckBranchAutocreate(b)
  PROVE  ParsingInv'
<1>1. PICK x, y : x = Template[b].new /\ y = Template[b].commit
  OBVIOUS
<1>2. \/ CP!Commit("CheckBranchAutocreate", b, db) /\ UNCHANGED CP!git
      \/ /\ b \in db.branch /\ Template[b] # None
         /\ CP!Commit("CheckBranchAutocreate", b,
                   CP!Queue(Recorded(db, x, b), {CP!Task("UpdateBranchTopCommit", x)}))
         /\ remote' = [remote EXCEPT ![x] = y] /\ tip' = [tip EXCEPT ![x] = y]
         /\ clone' = clone \cup CP!Reachable(y) /\ hook' = hook \cup {RepoOf[b]}
  BY <1>1 DEF CP!CheckBranchAutocreate, Recorded
<1>3. CASE CP!Commit("CheckBranchAutocreate", b, db) /\ UNCHANGED CP!git
  <2>1. \A c \in db.data : Remembered(db, task \ {CP!Task("CheckBranchAutocreate", b)}, c)
    BY ParsingFacts, StillRemembered
  <2>2. HeadsMove("CheckBranchAutocreate", b, db)
    BY ParsingFacts DEF HeadsMove
  <2>3. Leads("CheckBranchAutocreate", b, db)
    BY <2>1, <2>2, ParsingFacts DEF Leads
  <2>4. QED  BY <1>3, <2>3, CommitStep
<1>4. CASE /\ b \in db.branch /\ Template[b] # None
           /\ CP!Commit("CheckBranchAutocreate", b,
                     CP!Queue(Recorded(db, x, b), {CP!Task("UpdateBranchTopCommit", x)}))
           /\ remote' = [remote EXCEPT ![x] = y] /\ tip' = [tip EXCEPT ![x] = y]
           /\ clone' = clone \cup CP!Reachable(y) /\ hook' = hook \cup {RepoOf[b]}
  <2>1. /\ x \in Branches /\ y \in Commits /\ RepoOf[x] = RepoOf[b]
    BY <1>1, <1>4 DEF Sound
  <2>2. PICK made : made = {CP!Task("UpdateBranchTopCommit", x)}
    OBVIOUS
  <2>3. /\ db' = [CP!Queue(Recorded(db, x, b), made) EXCEPT !.new = {}]
        /\ task' = (task \ {CP!Task("CheckBranchAutocreate", b)})
                   \cup CP!Queue(Recorded(db, x, b), made).new
        /\ fetched' = fetched
    BY <1>4, <2>2 DEF CP!Commit
  <2>4. DbInv(db) /\ db.new = {} /\ db \in Database
    BY ParsingFacts DEF DbInv
  <2>5. task' = (task \ {CP!Task("CheckBranchAutocreate", b)}) \cup made
    <3>1. CP!Queue(Recorded(db, x, b), made).new = made
      BY <2>4 DEF CP!Queue, Recorded, Database
    <3>2. QED  BY <2>3, <3>1
  <2>6. /\ DbInv(db') /\ db'.new = {} /\ db'.repo = db.repo /\ db'.data = db.data
        /\ db'.branch = db.branch \cup {x} /\ db'.head = db.head /\ Looked(db') = Looked(db)
        /\ \A T, c : Remembered(db, T, c) => Remembered(db', T, c)
    <3>1. db' = RecordedNow(db, x, b, made)
      BY <2>3 DEF RecordedNow
    <3>2. QED  BY <2>1, <2>4, <3>1, RecordedDb
  <2>7. /\ remote' \in [Branches -> Commits \cup {None}]
        /\ tip' \in [Branches -> Commits \cup {None}] /\ tip'[x] = y
        /\ \A z \in Branches : z # x => remote'[z] = remote[z] /\ tip'[z] = tip[z]
    BY <1>4, <2>1 DEF ParsingInv, GitTypes
  <2>8. \A k, z : CP!Task(k, z) \in task' =>
           CP!Task(k, z) \in task \/ k = "UpdateBranchTopCommit"
    BY <2>2, <2>5, TasksDiffer
  <2>9. \A k, z : k # "CheckBranchAutocreate" /\ CP!Task(k, z) \in task => CP!Task(k, z) \in task'
    BY <2>5, TasksDiffer
  <2>10. GitTypes'
    <3>1. CP!Task("UpdateBranchTopCommit", x) \in TaskSet
      BY <2>1, TaskIs DEF TaskKinds
    <3>2. QED  BY <1>4, <2>1, <2>2, <2>5, <2>7, <3>1, ReachableIs DEF ParsingInv, GitTypes
  <2>11. \A c \in db'.data : Remembered(db', task', c)
    <3>1. ASSUME NEW c \in db.data  PROVE Remembered(db', task', c)
      <4>1. Remembered(db, task, c)
        BY ParsingFacts
      <4>2. Remembered(db, task', c)
        BY <2>9, <4>1 DEF Remembered
      <4>3. QED  BY <2>6, <4>2
    <3>2. QED  BY <2>6, <3>1
  <2>12. Closed'
    <3>1. \A c \in clone' : CP!Reachable(c) \subseteq clone'
      BY <1>4, <2>1, ParsingFacts, ReachableIs
    <3>2. \A z \in Branches : tip'[z] # None => tip'[z] \in clone'
      BY <1>4, <2>1, <2>7, ParsingFacts, ReachableIs
    <3>3. db.data \subseteq clone'
      BY <1>4, ParsingFacts
    <3>4. QED  BY <2>6, <3>1, <3>2, <3>3, ParsingFacts DEF Closed, CP!Reachable
  <2>13. TasksKnown'
    <3>1. \A r \in Repos : Visited(r)' => Visited(r)
      BY <2>3, <2>8 DEF Visited, Fetching
    <3>2. \A c \in Commits : CP!Task("CommitTestParse", c) \in task' => c \in Looked(db)
      BY <2>8 DEF ParsingInv, TasksKnown
    <3>3. \A z \in db'.branch : db.repo[RepoOf[z]] # "unknown"
      BY <1>4, <2>1, <2>6 DEF ParsingInv, TasksKnown
    <3>4. QED  BY <2>3, <2>6, <3>1, <3>2, <3>3 DEF ParsingInv, TasksKnown
  <2>14. Tracked'
    <3> SUFFICES ASSUME NEW r \in Repos, db.repo[r] # "unknown", r # RepoOf[b]
                 PROVE  \/ Pending(r)' \/ Agrees(r)'
                        \/ Fetching(r)' /\ \A z \in CP!Of(r) : tip'[z] = remote'[z]
      BY <1>4, <2>6 DEF Tracked, Pending, CP!Of
    <3>1. \A z \in CP!Of(r) :
             /\ z \in Branches /\ remote'[z] = remote[z] /\ tip'[z] = tip[z]
             /\ z \in db'.branch <=> z \in db.branch
      BY <2>1, <2>6, <2>7 DEF CP!Of
    <3>2. Pending(r) => Pending(r)'
      BY <1>4, <2>9 DEF Pending
    <3>3. Fetching(r) => Fetching(r)'
      BY <2>3 DEF Fetching
    <3>4. ASSUME Agrees(r)  PROVE Agrees(r)'
      BY <2>6, <2>9, <3>1, <3>4 DEF Agrees, CP!Of
    <3>5. QED  BY <3>1, <3>2, <3>3, <3>4 DEF ParsingInv, Tracked
  <2>15. QED  BY <2>6, <2>10, <2>11, <2>12, <2>13, <2>14 DEF ParsingInv
<1>5. QED  BY <1>2, <1>3, <1>4

(* Repositories that are listed become known. *)
ReposListed(d, listed) ==
    CP!CreateRepos([d EXCEPT !.repo = [r \in Repos |->
                    IF @[r] = "unknown" THEN @[r]
                    ELSE IF r \in listed THEN "active" ELSE "inactive"]],
                {r \in listed : d.repo[r] = "unknown"})

(* Who waited for them is parsed again, or waits on for another one. *)
LEMMA ReposListedDb ==
  ASSUME Sound, NEW d, DbInv(d), NEW listed \in SUBSET Repos, NEW e, e = ReposListed(d, listed)
  PROVE  /\ DbInv(e) /\ e.branch = d.branch /\ e.head = d.head /\ e.data = d.data
         /\ Looked(e) = Looked(d)
         /\ \A r \in Repos : e.repo[r] = "unknown" <=> d.repo[r] = "unknown" /\ r \notin listed
         /\ \A T : \A c \in d.data : Remembered(d, T, c) => Remembered(e, T, c)
<1>1. /\ d \in Database /\ Links(d) /\ Needs(d) /\ PinsExact(d) /\ NewTasks(d)
      /\ d.repo \in [Repos -> {"unknown", "active", "inactive"}]
      /\ d.needsRepo \subseteq Commits \X Repos /\ d.data \subseteq Commits
  BY DEF DbInv, Database
<1>2. PICK new \in SUBSET Repos : new = {r \in listed : d.repo[r] = "unknown"}
  OBVIOUS
<1>3. PICK rp : rp = [r \in Repos |-> IF d.repo[r] = "unknown" THEN d.repo[r]
                                      ELSE IF r \in listed THEN "active" ELSE "inactive"]
  OBVIOUS
<1>4. PICK rq : rq = [r \in Repos |-> IF r \in new THEN "active" ELSE rp[r]]
  OBVIOUS
<1>5. /\ rq \in [Repos -> {"unknown", "active", "inactive"}]
      /\ \A r \in Repos : rq[r] = "unknown" <=> d.repo[r] = "unknown" /\ r \notin listed
  BY <1>1, <1>2, <1>3, <1>4
<1>6. PICK nr : nr = {w \in d.needsRepo : w[2] \notin new}
  OBVIOUS
<1>7. nr \in SUBSET (Commits \X Repos)
  BY <1>1, <1>6
<1>8. PICK there : there = [d EXCEPT !.repo = rq, !.needsRepo = nr]
  OBVIOUS
<1>9. PICK waiting \in SUBSET Commits :
         waiting = {c \in Commits : \E r \in new : <<c, r>> \in d.needsRepo}
  OBVIOUS
<1>10. e = CP!TriggerCommitTestParse(there, waiting)
  <2>1. PICK gone : gone = [d EXCEPT !.repo = rp]
    OBVIOUS
  <2>2. e = CP!CreateRepos(gone, new)
    BY <1>2, <1>3, <2>1 DEF ReposListed
  <2>3. gone.repo = rp /\ gone.needsRepo = d.needsRepo
    BY <1>1, <2>1 DEF Database
  <2>4. PICK f : f = [gone EXCEPT !.repo = rq, !.needsRepo = nr]
    OBVIOUS
  <2>5. e = CP!TriggerCommitTestParse(f, waiting)
    BY <1>4, <1>6, <1>9, <2>2, <2>3, <2>4 DEF CP!CreateRepos
  <2>6. f = there
    BY <1>8, <2>1, <2>4
  <2>7. QED  BY <2>5, <2>6
<1>11. there \in Database /\ there.repo = rq /\ there.needsRepo = nr
  BY <1>1, <1>5, <1>7, <1>8 DEF Database
<1>12. /\ there.branch = d.branch /\ there.head = d.head /\ there.pins = d.pins
       /\ there.new = d.new /\ there.data = d.data /\ there.parsed = d.parsed /\ there.noTests = d.noTests
       /\ there.repos = d.repos /\ there.needsCommit = d.needsCommit
       /\ there.test = d.test /\ there.testDep = d.testDep /\ there.needsTest = d.needsTest
  BY <1>1, <1>8 DEF Database
<1>13. /\ e \in Database /\ SameBranches(there, e) /\ there.new \subseteq e.new
       /\ \A t \in e.new \ there.new : t.kind = "CommitTestParse" /\ t.of \in waiting
       /\ \A c \in waiting : CP!Task("CommitTestParse", c) \in e.new \/ CP!Waits(e, c)
       /\ e.data = there.data /\ e.parsed = there.parsed /\ e.noTests = there.noTests /\ e.repos = there.repos
       /\ e.pins = there.pins
       /\ e.needsRepo = there.needsRepo /\ e.needsCommit = there.needsCommit
       /\ e.test = there.test /\ e.testDep = there.testDep /\ e.needsTest = there.needsTest
  BY <1>10, <1>11, TriggerDb
<1>14. /\ e.repo = rq /\ e.branch = d.branch /\ e.head = d.head /\ e.pins = d.pins
       /\ e.data = d.data /\ e.parsed = d.parsed /\ e.noTests = d.noTests /\ e.repos = d.repos
       /\ e.needsRepo = nr /\ e.needsCommit = d.needsCommit /\ d.new \subseteq e.new
       /\ e.test = d.test /\ e.testDep = d.testDep /\ e.needsTest = d.needsTest
       /\ \A t \in e.new \ d.new : t.kind = "CommitTestParse" /\ t.of \in waiting
  BY <1>11, <1>12, <1>13 DEF SameBranches
<1>15. \A c \in waiting : c \in Looked(d)
  BY <1>1, <1>9 DEF Needs
<1>a. Looked(e) = Looked(d) /\ Unfinished(e) = Unfinished(d)
  BY <1>14 DEF Looked, Unfinished
<1>16. Links(e)
  BY <1>1, <1>14 DEF Links
<1>17. Needs(e)
  <2>1. ASSUME NEW w \in nr  PROVE w[1] \in Looked(d) /\ rq[w[2]] = "unknown"
    <3>1. w \in d.needsRepo /\ w[2] \notin new /\ w[2] \in Repos
      BY <1>1, <1>6
    <3>2. w[1] \in Looked(d) /\ d.repo[w[2]] = "unknown"
      BY <1>1, <3>1 DEF Needs
    <3>3. QED  BY <1>2, <1>5, <3>1, <3>2
  <2>2. QED  BY <1>1, <1>14, <1>a, <2>1 DEF Needs
<1>18. PinsExact(e)
  BY <1>1, <1>14, <1>a DEF PinsExact, PinsOk, Headless, OwnPins
<1>19. NewTasks(e)
  BY <1>1, <1>14, <1>15, <1>a DEF NewTasks
<1>20. ASSUME NEW T, NEW c \in d.data, Remembered(d, T, c)  PROVE Remembered(e, T, c)
  <2>1. CASE c \in waiting
    BY <1>13, <2>1 DEF Remembered
  <2>2. CASE c \notin waiting
    <3>1. ASSUME NEW r \in Repos, <<c, r>> \in d.needsRepo  PROVE <<c, r>> \in nr
      <4>1. c \in Commits /\ r \notin new
        BY <1>1, <1>9, <2>2, <3>1
      <4>2. QED  BY <1>6, <3>1, <4>1
    <3>2. CP!Waits(d, c) => CP!Waits(e, c)
      BY <1>14, <3>1 DEF CP!Waits
    <3>3. QED  BY <1>14, <1>20, <3>2 DEF Remembered
  <2>3. QED  BY <2>1, <2>2
<1>21. QED  BY <1>5, <1>13, <1>14, <1>a, <1>16, <1>17, <1>18, <1>19, <1>20 DEF DbInv

(* The repositories are listed; those that are there will be looked at. *)
LEMMA RefreshReposStep ==
  ASSUME Sound, ParsingInv, CP!RefreshRepos
  PROVE  ParsingInv'
<1>1. PICK listed \in Listings :
         CP!Commit("RefreshRepos", None,
                CP!Queue(ReposListed(db, listed), {CP!Task("FirstRefresh", r) : r \in listed}))
  BY DEF CP!RefreshRepos, ReposListed
<1>2. UNCHANGED <<remote, tip, clone, hook>> /\ listed \in SUBSET Repos
  BY DEF CP!RefreshRepos, CP!git, Sound
<1>3. PICK g : g = ReposListed(db, listed)
  OBVIOUS
<1>4. PICK first : first = {CP!Task("FirstRefresh", r) : r \in listed}
  OBVIOUS
<1>5. /\ DbInv(g) /\ g.branch = db.branch /\ g.head = db.head /\ g.data = db.data
      /\ Looked(g) = Looked(db)
      /\ \A r \in Repos : g.repo[r] = "unknown" <=> db.repo[r] = "unknown" /\ r \notin listed
      /\ \A T : \A c \in db.data : Remembered(db, T, c) => Remembered(g, T, c)
  BY <1>2, <1>3, ParsingFacts, ReposListedDb
<1>6. /\ db' = [g EXCEPT !.new = {}] /\ fetched' = fetched
      /\ task' = (task \ {CP!Task("RefreshRepos", None)}) \cup g.new \cup first
  <2>1. PICK e : e = CP!Queue(g, first)
    OBVIOUS
  <2>2. CP!Commit("RefreshRepos", None, e)
    BY <1>1, <1>3, <1>4, <2>1
  <2>3. /\ db' = [e EXCEPT !.new = {}] /\ fetched' = fetched
        /\ task' = (task \ {CP!Task("RefreshRepos", None)}) \cup e.new
    BY <2>2 DEF CP!Commit
  <2>4. PICK n : n = g.new \cup first
    OBVIOUS
  <2>5. e = [g EXCEPT !.new = n]
    BY <2>1, <2>4 DEF CP!Queue
  <2>6. g \in Database
    BY <1>5 DEF DbInv
  <2>7. e.new = n /\ [e EXCEPT !.new = {}] = [g EXCEPT !.new = {}]
    BY <2>5, <2>6 DEF Database
  <2>8. QED  BY <2>3, <2>4, <2>7
<1>7. /\ DbInv(db') /\ db'.new = {} /\ SameBranches(g, db') /\ db'.data = g.data
      /\ Looked(db') = Looked(g)
      /\ \A T, U, c : Remembered(g, T, c) /\ T \cup g.new \subseteq U => Remembered(db', U, c)
  <2>1. DbInv(g)
    BY <1>5
  <2>2. QED  BY <1>6, <2>1, TakenOver
<1>8. /\ db'.repo = g.repo /\ db'.branch = db.branch /\ db'.head = db.head /\ db'.data = db.data
  BY <1>5, <1>7 DEF SameBranches
<1>9. \A c \in db'.data : Remembered(db', task', c)
  <2>1. PICK T : T = task \ {CP!Task("RefreshRepos", None)}
    OBVIOUS
  <2>2. \A c \in db.data : Remembered(db, T, c)
    BY <2>1, ParsingFacts, StillRemembered
  <2>3. \A c \in db.data : Remembered(g, T, c)
    BY <1>5, <2>2
  <2>4. T \cup g.new \subseteq task'
    BY <1>6, <2>1
  <2>5. QED  BY <1>7, <1>8, <2>3, <2>4
<1>10. /\ g.new \subseteq TaskSet /\ task \subseteq TaskSet
       /\ \A k, x : CP!Task(k, x) \in g.new =>
             k = "UpdateCommitData" \/ (k = "CommitTestParse" /\ x \in Looked(db))
  <2>1. DbInv(g) /\ NewTasks(g)
    BY <1>5 DEF DbInv
  <2>2. g.new \subseteq TaskSet
    BY <2>1 DEF DbInv, Database
  <2>3. \A k, x : CP!Task(k, x).kind = k /\ CP!Task(k, x).of = x
    BY DEF CP!Task
  <2>4. QED  BY <1>5, <2>1, <2>2, <2>3 DEF NewTasks, ParsingInv, GitTypes
<1>11. \A k, x : CP!Task(k, x) \in first <=> k = "FirstRefresh" /\ x \in listed
  BY <1>4, TasksDiffer
<1>12. GitTypes'
  <2>1. \A r \in Repos : CP!Task("FirstRefresh", r) \in TaskSet
    BY TaskIs DEF TaskKinds
  <2>2. first \subseteq TaskSet
    BY <1>2, <1>4, <2>1
  <2>3. task' \subseteq TaskSet
    BY <1>6, <1>10, <2>2
  <2>4. QED  BY <1>2, <2>3 DEF ParsingInv, GitTypes
<1>13. Closed'
  BY <1>2, <1>8 DEF ParsingInv, Closed, CP!Reachable
<1>14. \A k, x : k # "RefreshRepos" /\ CP!Task(k, x) \in task => CP!Task(k, x) \in task'
  BY <1>6, TasksDiffer
<1>15. TasksKnown'
  <2>1. \A c \in Commits : CP!Task("CommitTestParse", c) \in task' => c \in Looked(db)
    BY <1>6, <1>10, <1>11 DEF ParsingInv, TasksKnown
  <2>2. ASSUME NEW r \in Repos, Visited(r)'  PROVE g.repo[r] # "unknown"
    <3>1. Visited(r) \/ r \in listed
      BY <1>6, <1>10, <1>11, <2>2 DEF Visited, Fetching
    <3>2. QED  BY <1>5, <3>1 DEF ParsingInv, TasksKnown
  <2>3. \A b \in db.branch : g.repo[RepoOf[b]] # "unknown"
    <3>1. \A b \in db.branch : b \in Branches /\ RepoOf[b] \in Repos
      BY ParsingFacts DEF DbInv, Database, Sound
    <3>2. QED  BY <1>5, <3>1 DEF ParsingInv, TasksKnown
  <2>4. \A c \in Commits : CP!Task("CommitTestParse", c) \in task' => c \in Looked(db')
    BY <1>5, <1>7, <2>1
  <2>5. QED  BY <1>6, <1>8, <2>2, <2>3, <2>4 DEF ParsingInv, TasksKnown
<1>16. Tracked'
  <2> SUFFICES ASSUME NEW r \in Repos, g.repo[r] # "unknown"
               PROVE  \/ Pending(r)' \/ Agrees(r)'
                      \/ Fetching(r)' /\ \A z \in CP!Of(r) : tip'[z] = remote'[z]
    BY <1>8 DEF Tracked, CP!Of
  <2>1. CASE r \in listed
    BY <1>6, <1>11, <2>1 DEF Pending
  <2>2. CASE r \notin listed
    <3>1. db.repo[r] # "unknown"
      BY <1>5, <2>2
    <3>2. Pending(r) => Pending(r)'
      BY <1>2, <1>14 DEF Pending
    <3>3. Agrees(r) => Agrees(r)'
      BY <1>2, <1>8, <1>14 DEF Agrees, CP!Of
    <3>4. Fetching(r) => Fetching(r)'
      BY <1>6 DEF Fetching
    <3>5. QED  BY <1>2, <3>1, <3>2, <3>3, <3>4 DEF ParsingInv, Tracked
  <2>3. QED  BY <2>1, <2>2
<1>17. QED  BY <1>7, <1>9, <1>12, <1>13, <1>15, <1>16 DEF ParsingInv

(* At the start nothing is known. *)
LEMMA ParsingInit ==
  ASSUME Sound, CP!Init
  PROVE  ParsingInv
<1>1. /\ remote \in [Branches -> Commits \cup {None}]
      /\ tip = [b \in Branches |-> None] /\ clone = {} /\ fetched = None
      /\ task = {CP!Task("RefreshRepos", None)}
  BY DEF CP!Init, Sound
<1>2. /\ db.repo = [r \in Repos |-> "unknown"] /\ db.branch = {} /\ db.data = {}
      /\ db.head = [b \in Branches |-> None] /\ db.pins = [b \in Branches |-> {}]
      /\ db.parsed = {} /\ db.noTests = {} /\ db.needsRepo = {} /\ db.needsCommit = {} /\ db.test = {}
      /\ db.testDep = {} /\ db.needsTest = {} /\ db.new = {}
  BY DEF CP!Init
<1>3. db \in Database
  BY DEF CP!Init, Database
<1>4. Links(db) /\ Needs(db) /\ PinsExact(db) /\ NewTasks(db)
  BY <1>2 DEF Links, Needs, PinsExact, PinsOk, Headless, OwnPins, Unfinished, NewTasks
<1>5. GitTypes
  <2>1. CP!Task("RefreshRepos", None) \in TaskSet
    BY TaskIs DEF TaskKinds
  <2>2. QED  BY <1>1, <2>1 DEF GitTypes
<1>6. Closed
  BY <1>1, <1>2 DEF Closed
<1>7. TasksKnown
  <2>1. \A k, x : CP!Task(k, x) \in task => k = "RefreshRepos"
    BY <1>1, TasksDiffer
  <2>2. QED  BY <1>1, <1>2, <2>1 DEF TasksKnown, Visited, Fetching
<1>8. Tracked
  BY <1>2 DEF Tracked
<1>9. QED  BY <1>2, <1>3, <1>4, <1>5, <1>6, <1>7, <1>8 DEF ParsingInv, DbInv

(* Nothing happens. *)
LEMMA ParsingStutters ==
  ASSUME ParsingInv, UNCHANGED CP!vars
  PROVE  ParsingInv'
<1>1. UNCHANGED <<remote, tip, clone, hook, db, task, fetched>>
  BY DEF CP!vars
<1>2. GitTypes' /\ Closed'
  BY <1>1 DEF ParsingInv, GitTypes, Closed, CP!Reachable
<1>3. TasksKnown'
  BY <1>1 DEF ParsingInv, TasksKnown, Visited, Fetching
<1>4. Tracked'
  BY <1>1 DEF ParsingInv, Tracked, Pending, Fetching, Agrees, CP!Of
<1>5. QED  BY <1>1, <1>2, <1>3, <1>4 DEF ParsingInv

(* What the invariant means. *)
LEMMA ParsingShows ==
  ASSUME Sound, ParsingInv
  PROVE  CP!NoCommitForgotten /\ CP!TestDepsExact /\ CP!PinsMatchHead /\ CP!QuietMeansCurrent
<1>1. /\ Links(db) /\ Needs(db) /\ PinsExact(db) /\ db.new = {} /\ db.branch \subseteq Branches
      /\ db.data \subseteq Commits
  BY DEF ParsingInv, DbInv, Database
<1>2. CP!NoCommitForgotten
  <2> SUFFICES ASSUME NEW c \in db.data \ (db.parsed \cup db.noTests), CP!Task("CommitTestParse", c) \notin task
               PROVE  \/ \E r \in Repos : <<c, r>> \in db.needsRepo /\ db.repo[r] = "unknown"
                      \/ \E x \in Commits : <<c, x>> \in db.needsCommit /\ x \notin db.data
    BY DEF CP!NoCommitForgotten
  <2>1. CP!Waits(db, c)
    BY <1>1, ParsingFacts DEF Remembered
  <2>2. CASE \E r \in Repos : <<c, r>> \in db.needsRepo
    <3>1. PICK r \in Repos : <<c, r>> \in db.needsRepo
      BY <2>2
    <3>2. db.repo[r] = "unknown"
      BY <1>1, <3>1 DEF Needs
    <3>3. QED  BY <3>1, <3>2
  <2>3. CASE \E x \in Commits : <<c, x>> \in db.needsCommit
    <3>1. PICK x \in Commits : <<c, x>> \in db.needsCommit
      BY <2>3
    <3>2. x \notin db.data
      BY <1>1, <3>1 DEF Needs
    <3>3. QED  BY <3>1, <3>2
  <2>4. QED  BY <2>1, <2>2, <2>3 DEF CP!Waits
<1>3. CP!TestDepsExact
  BY <1>1 DEF Links, CP!TestDepsExact
<1>4. CP!PinsMatchHead
  BY <1>1 DEF PinsExact, PinsOk, CP!PinsMatchHead
<1>5. CP!QuietMeansCurrent
  <2> SUFFICES ASSUME CP!Quiet
      PROVE  /\ db.branch = {b \in Branches : remote[b] # None /\ db.repo[RepoOf[b]] # "unknown"}
             /\ \A b \in db.branch : /\ db.head[b] = remote[b]
                                     /\ CP!Reachable(remote[b]) \subseteq db.data
    BY DEF CP!QuietMeansCurrent
  <2>1. hook = {} /\ fetched = None /\ task = {}
    BY DEF CP!Quiet
  <2>2. ASSUME NEW b \in Branches, db.repo[RepoOf[b]] # "unknown"
        PROVE  /\ b \in db.branch <=> remote[b] # None
               /\ b \in db.branch => db.head[b] = remote[b]
    <3>1. RepoOf[b] \in Repos
      BY DEF Sound
    <3>2. Agrees(RepoOf[b])
      BY <2>1, <2>2, <3>1 DEF ParsingInv, Tracked, Pending, Fetching
    <3>3. QED  BY <2>1, <3>2 DEF Agrees, CP!Of
  <2>3. \A b \in db.branch : db.repo[RepoOf[b]] # "unknown"
    BY DEF ParsingInv, TasksKnown
  <2>4. db.branch = {b \in Branches : remote[b] # None /\ db.repo[RepoOf[b]] # "unknown"}
    BY <1>1, <2>2, <2>3
  <2>5. ASSUME NEW b \in db.branch
        PROVE  db.head[b] = remote[b] /\ CP!Reachable(remote[b]) \subseteq db.data
    <3>1. b \in Branches /\ db.head[b] = remote[b] /\ remote[b] # None
      BY <1>1, <2>2, <2>3
    <3>2. remote[b] \in db.data
      BY <3>1, ParsingFacts
    <3>3. QED  BY <3>1, <3>2, ParsingFacts
  <2>6. QED  BY <2>4, <2>5
<1>6. QED  BY <1>2, <1>3, <1>4, <1>5

(* Whatever the order in which repositories, branches, commits and tests become *)
(* known, whatever users push meanwhile and whichever order the tasks are taken *)
(* in: no commit that is loaded is forgotten, tests are linked exactly, pins    *)
(* follow the heads, and when all is quiet the database shows the git server.  *)
THEOREM CommitsStayKnown ==
  ASSUME Sound
  PROVE  CP!Spec =>
           [](CP!NoCommitForgotten /\ CP!TestDepsExact /\ CP!PinsMatchHead /\ CP!QuietMeansCurrent)
<1>1. CP!Init => ParsingInv
  BY ParsingInit
<1>2. ParsingInv /\ [CP!Next]_CP!vars => ParsingInv'
  <2> SUFFICES ASSUME ParsingInv, [CP!Next]_CP!vars  PROVE ParsingInv'
    OBVIOUS
  <2>1. CASE CP!RefreshRepos
    BY <2>1, RefreshReposStep
  <2>2. CASE CP!ListBranches
    BY <2>2, ListBranchesStep
  <2>3. ASSUME NEW r \in Repos,
               CP!FetchOrigin("RefreshBranches", r) \/ CP!FetchOrigin("FirstRefresh", r)
        PROVE  ParsingInv'
    BY <2>3, FetchOriginStep
  <2>4. ASSUME NEW b \in Branches, CP!UpdateBranchTopCommit(b) \/ CP!CheckBranchAutocreate(b)
        PROVE  ParsingInv'
    BY <2>4, UpdateBranchTopCommitStep, CheckBranchAutocreateStep
  <2>5. ASSUME NEW c \in Commits, CP!UpdateCommitData(c) \/ CP!CommitTestParse(c)  PROVE ParsingInv'
    BY <2>5, UpdateCommitDataStep, CommitTestParseStep
  <2>6. CASE CP!Refresh
    BY <2>6, RefreshStep
  <2>7. ASSUME NEW b \in Branches, NEW c \in Commits \cup {None}, CP!Push(b, c)  PROVE ParsingInv'
    BY <2>7, PushStep
  <2>8. ASSUME NEW r \in Repos, CP!Webhook(r)  PROVE ParsingInv'
    BY <2>8, WebhookStep
  <2>9. ASSUME NEW c \in Commits, CP!ForceParse(c)  PROVE ParsingInv'
    BY <2>9, ForceParseStep
  <2>10. CASE UNCHANGED CP!vars
    BY <2>10, ParsingStutters
  <2>11. QED  BY <2>1, <2>2, <2>3, <2>4, <2>5, <2>6, <2>7, <2>8, <2>9, <2>10 DEF CP!Next, CP!Tasks
<1>3. ParsingInv =>
         CP!NoCommitForgotten /\ CP!TestDepsExact /\ CP!PinsMatchHead /\ CP!QuietMeansCurrent
  BY ParsingShows
<1>4. QED  BY <1>1, <1>2, <1>3, PTL DEF CP!Spec
==============================================================================
