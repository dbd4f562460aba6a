----------------------- MODULE OutOfProcessDownloader -----------------------
(***************************************************************************)
(* A pool of downloaders: child processes that run what clients ask for and   *)
(* answer through a pipe. A client checks a downloader out, sends a request,  *)
(* reads the five bytes in front of the answer and then the answer with one  *)
(* read, which returns what is in the pipe by then. An answer is a sequence  *)
(* of chunks, each of which a pipe takes at once: of a longer answer the rest *)
(* may stay behind, and what the next client takes for a prefix is a piece   *)
(* of it.                                                                  *)
(***************************************************************************)
EXTENDS Integers, SequencesExt

CONSTANTS
    Clients, Downloaders, None,
    Sizes,             \* chunks that an answer may have
    MaxRequests        \* bound on the requests of a client

VARIABLES
    pool,              \* downloadersQueue
    client,            \* state of the clients
    has,               \* the downloader that a client holds
    asked,             \* number of the client's request
    want,              \* size that the prefix announced
    answer,            \* what the client read: a prefix, and chunks
    requests,          \* pipe to the child
    child,             \* what a child has still to write
    replies,           \* pipe from the child
    long               \* downloaders that have given an answer of more than one chunk

vars == <<pool, client, has, asked, want, answer, requests, child, replies, long>>

Init ==
    /\ pool = SetToSeq(Downloaders)
    /\ client = [c \in Clients |-> "idle"] /\ has = [c \in Clients |-> None]
    /\ asked = [c \in Clients |-> 0] /\ want = [c \in Clients |-> 0]
    /\ answer = [c \in Clients |-> <<>>]
    /\ requests = [d \in Downloaders |-> <<>>] /\ child = [d \in Downloaders |-> <<>>]
    /\ replies = [d \in Downloaders |-> <<>>] /\ long = {}

(* checkoutDownloader_, which waits for one *)
CheckOut(c) ==
    /\ client[c] = "idle" /\ asked[c] < MaxRequests /\ pool # <<>>
    /\ has' = [has EXCEPT ![c] = Head(pool)] /\ pool' = Tail(pool)
    /\ asked' = [asked EXCEPT ![c] = @ + 1]
    /\ client' = [client EXCEPT ![c] = "send"]
    /\ UNCHANGED <<want, answer, requests, child, replies, long>>

(* A mistake: the downloader is given back as soon as it is asked. *)
SendGiveBack(c) ==
    /\ client[c] = "send" /\ client' = [client EXCEPT ![c] = "prefix"]
    /\ requests' = [requests EXCEPT ![has[c]] = Append(@, <<c, asked[c]>>)]
    /\ pool' = Append(pool, has[c])
    /\ UNCHANGED <<has, asked, want, answer, child, replies, long>>

(* executeAndCallback: send ... *)
Send(c) ==
    /\ client[c] = "send" /\ client' = [client EXCEPT ![c] = "prefix"]
    /\ requests' = [requests EXCEPT ![has[c]] = Append(@, <<c, asked[c]>>)]
    /\ UNCHANGED <<pool, has, asked, want, answer, child, replies, long>>

(* executeChild_: the request is run. An exception is announced by a prefix and *)
(* read as data are, and either is the answer to the request.                 *)
Chunk(isPrefix, n, request) == [isPrefix |-> isPrefix, size |-> n, of |-> request]
Execute(d) ==
    /\ requests[d] # <<>> /\ child[d] = <<>>
    /\ \E n \in Sizes :
          /\ child' = [child EXCEPT ![d] = <<Chunk(TRUE, n, Head(requests[d]))>>
                                           \o [i \in 1..n |-> Chunk(FALSE, i, Head(requests[d]))]]
          /\ long' = IF n > 1 THEN long \cup {d} ELSE long
    /\ requests' = [requests EXCEPT ![d] = Tail(@)]
    /\ UNCHANGED <<pool, client, has, asked, want, answer, replies>>

(* The pipe takes one chunk at a time. *)
WriteReply(d) ==
    /\ child[d] # <<>>
    /\ replies' = [replies EXCEPT ![d] = Append(@, Head(child[d]))]
    /\ child' = [child EXCEPT ![d] = Tail(@)]
    /\ UNCHANGED <<pool, client, has, asked, want, answer, requests, long>>

(* ... read the prefix ... *)
ReadPrefix(c) ==
    /\ client[c] = "prefix" /\ replies[has[c]] # <<>>
    /\ LET p == Head(replies[has[c]])
       IN  /\ p.isPrefix /\ client' = [client EXCEPT ![c] = "answer"]
           /\ want' = [want EXCEPT ![c] = p.size] /\ answer' = [answer EXCEPT ![c] = <<p>>]
           /\ replies' = [replies EXCEPT ![has[c]] = Tail(@)]
    /\ UNCHANGED <<pool, has, asked, requests, child, long>>

(* ... or five bytes of what was left behind, perhaps the last ones: the        *)
(* assertion fails, unless they happen to look like a prefix ...              *)
ReadLeftOver(c) ==
    /\ client[c] = "prefix" /\ replies[has[c]] # <<>>
    /\ ~Head(replies[has[c]]).isPrefix
    /\ \/ client' = [client EXCEPT ![c] = "failed"] /\ UNCHANGED want
       \/ /\ client' = [client EXCEPT ![c] = "answer"]
          /\ \E n \in Sizes : want' = [want EXCEPT ![c] = n]
    /\ answer' = [answer EXCEPT ![c] = <<Head(replies[has[c]])>>]
    /\ replies' \in {replies, [replies EXCEPT ![has[c]] = Tail(@)]}
    /\ UNCHANGED <<pool, has, asked, requests, child, long>>

(* ... and the answer, as far as it is there. *)
ReadAnswer(c) ==
    /\ client[c] = "answer" /\ (want[c] = 0 \/ replies[has[c]] # <<>>)
    /\ LET there == Len(replies[has[c]])
           n == IF there < want[c] THEN there ELSE want[c]
       IN  /\ answer' = [answer EXCEPT ![c] = @ \o SubSeq(replies[has[c]], 1, n)]
           /\ replies' = [replies EXCEPT ![has[c]] = SubSeq(@, n + 1, Len(@))]
    /\ client' = [client EXCEPT ![c] = "answered"]
    /\ UNCHANGED <<pool, has, asked, want, requests, child, long>>

(* The finally clause: the downloader is checked in. *)
CheckIn(c) ==
    /\ client[c] \in {"failed", "answered"} /\ client' = [client EXCEPT ![c] = "idle"]
    /\ pool' = Append(pool, has[c]) /\ has' = [has EXCEPT ![c] = None]
    /\ want' = [want EXCEPT ![c] = 0] /\ answer' = [answer EXCEPT ![c] = <<>>]
    /\ UNCHANGED <<asked, requests, child, replies, long>>

Client(c) ==
    CheckOut(c) \/ Send(c) \/ ReadPrefix(c) \/ ReadLeftOver(c) \/ ReadAnswer(c) \/ CheckIn(c)
Child(d) == Execute(d) \/ WriteReply(d)
Next == (\E c \in Clients : Client(c)) \/ (\E d \in Downloaders : Child(d))

Spec == Init /\ [][Next]_vars

---------------------------------------------------------------------------
(* What a client reads is of its own request, from the first chunk to the     *)
(* last, and no prefix fails, as long as the downloader has only given answers *)
(* that the pipe takes at once. (The comments of the code promise it of all:   *)
(* of a longer one the client may get a part, and the next one the rest.)      *)
OwnAnswer(c) == \A i \in DOMAIN answer[c] : LET x == answer[c][i] IN
    x.of = <<c, asked[c]>> /\ (i = 1 <=> x.isPrefix) /\ (i > 1 => x.size = i - 1)
AnswersMatch == \A c \in Clients : has[c] # None /\ has[c] \notin long =>
    /\ OwnAnswer(c) /\ client[c] # "failed"
    /\ client[c] = "answered" => want[c] = answer[c][1].size /\ Len(answer[c]) = 1 + want[c]

(* A client gets something for each of its requests, be it a part of another   *)
(* answer: none waits for ever.                                            *)
HasAnswers(c) == asked[c] = MaxRequests /\ client[c] = "idle"
=============================================================================
