----------------------------- MODULE WebClient -----------------------------
(* The HTTP client of 3rd/src-c/webclient.c: requests run in the multi       *)
(* handle of libcurl, which makes progress only while webclient_query calls  *)
(* it, and hands the body to write_callback piece by piece.  libcurl is      *)
(* external.  Bodies and blocks are their lengths.                           *)
EXTENDS Naturals, Sequences, FiniteSets, SequencesExt, FiniteSetsExt, Functions

CONSTANTS
    Request,    \* the webrequest structures the program may make
    Piece,      \* lengths of the pieces libcurl delivers at once
    LeastBlock, \* 512: the least length a block is doubled from
    MaxBody     \* bound: length of the body of an answer

VARIABLES
    client,  \* the webclient: "none", "open" or "closed"
    req,     \* the webrequest structures
    done,    \* what libcurl has to say: <<[request, result]>>
    stray,   \* some form list belongs to no request any more
    answer   \* what webclient_getrespond told last, and whether it was all

vars == <<client, req, done, stray, answer>>

(* phase: "none" before the call, "running" in the multi handle, "finished"  *)
(* after its message was queued, "freed".  block is the size of what content *)
(* points to; body counts what the server has sent.                          *)
Zeroed == [phase |-> "none", post |-> FALSE, error |-> "",
           content_length |-> 0, content_maxlength |-> 0,
           content_realloc_failed |-> FALSE, block |-> 0, body |-> 0]
NoAnswer == [all |-> TRUE, error |-> ""]

Init ==
    /\ client = "none"
    /\ req = [r \in Request |-> Zeroed]
    /\ done = <<>>
    /\ stray = FALSE
    /\ answer = NoAnswer

Alive(r) == req[r].phase \in {"running", "finished"}

(* curl_multi_init may fail; then there is an error and no client.           *)
webclient_create ==
    /\ client = "none"
    /\ client' = "open"
    /\ UNCHANGED <<req, done, stray, answer>>

(* __gc: the requests that were not removed are not freed.                   *)
webclient_destory ==
    /\ client = "open"
    /\ client' = "closed"
    /\ done' = <<>>
    /\ UNCHANGED <<req, stray, answer>>

(* webclient_request with a form, or with a field or nothing to post.        *)
webclient_request(r, post) ==
    /\ client = "open"
    /\ req[r].phase = "none"
    /\ req' = [req EXCEPT ![r].phase = "running", ![r].post = post]
    /\ UNCHANGED <<client, done, stray, answer>>

(* It fails after the form was built: connect_timeout_ms is negative, or     *)
(* webclient_realrequest gets no handle or cannot add it to the multi        *)
(* handle.  It frees the structure, and nobody the form.                     *)
RequestFails(r) ==
    /\ client = "open"
    /\ req[r].phase = "none"
    /\ stray' = TRUE
    /\ req' = [req EXCEPT ![r].phase = "freed"]
    /\ UNCHANGED <<client, done, answer>>

(* write_callback: a piece that does not fit makes the block twice what is   *)
(* needed; when there is no memory, that piece and all that follow are       *)
(* dropped.                                                                  *)
Larger(w, length) == 2 * Max({w.content_maxlength, w.content_length + length, LeastBlock})
Copied(w, length) == [w EXCEPT !.content_length = w.content_length + length]

WriteIntoOld(w, length, memory) ==   \* code that goes wrong, for the checks: no first test
    IF w.content_length + length <= w.content_maxlength THEN Copied(w, length)
    ELSE LET grown == [w EXCEPT !.content_maxlength = Larger(w, length)]
         IN IF memory THEN Copied([grown EXCEPT !.block = Larger(w, length)], length)
            ELSE [grown EXCEPT !.content_realloc_failed = TRUE]
WriteSilent(w, length, memory) ==    \* ... or the failure is not kept
    IF w.content_length + length <= w.block THEN Copied(w, length)
    ELSE IF memory THEN Copied([w EXCEPT !.content_maxlength = Larger(w, length),
                                         !.block = Larger(w, length)], length)
         ELSE w
write_callback(w, length, memory) ==
    IF w.content_realloc_failed THEN w
    ELSE IF w.content_length + length <= w.content_maxlength THEN Copied(w, length)
    ELSE LET grown == [w EXCEPT !.content_maxlength = Larger(w, length)]
         IN IF memory THEN Copied([grown EXCEPT !.block = Larger(w, length)], length)
            ELSE [grown EXCEPT !.content_realloc_failed = TRUE]

(* What curl_multi_perform does with one transfer: deliver a piece or none,  *)
(* and go on, or finish; a failure is described in the error buffer.         *)
Event == [piece : Piece \cup {0}, memory : BOOLEAN, result : {"", "ok", "failed"}]

After(w, e) ==
    LET written == IF e.piece = 0 THEN w
                   ELSE [write_callback(w, e.piece, e.memory) EXCEPT !.body = w.body + e.piece]
    IN IF e.result = "" THEN written
       ELSE [written EXCEPT !.phase = "finished",
                            !.error = IF e.result = "failed" THEN "transfer" ELSE ""]

Running == {r \in Request : req[r].phase = "running"}

curl_multi_perform(events) ==
    /\ \A r \in Running :
          /\ req[r].body + events[r].piece <= MaxBody
          /\ events[r].piece = 0 => events[r].memory
    /\ req' = [r \in Request |-> IF r \in Running THEN After(req[r], events[r]) ELSE req[r]]
    /\ LET over == {r \in Running : events[r].result # ""}
       IN \E order \in SetToSeqs(over) :
             done' = SubSeq(order, 2, Len(order))

(* webclient_query: one message of those that wait is told to the caller;    *)
(* only when there is none, libcurl works, and one of the new is told.       *)
webclient_query ==
    /\ client = "open"
    /\ IF done # <<>>
       THEN /\ done' = Tail(done)
            /\ UNCHANGED req
       ELSE \E events \in [Running -> Event] : curl_multi_perform(events)
    /\ UNCHANGED <<client, stray, answer>>

(* webclient_getrespond, before or after the end of the transfer.            *)
webclient_getrespond(r) ==
    /\ client = "open"
    /\ Alive(r)
    /\ LET told == IF req[r].content_realloc_failed THEN "memory" ELSE req[r].error
       IN /\ req' = [req EXCEPT ![r].error = told]
          /\ answer' = [all |-> req[r].content_length = req[r].body, error |-> told]
    /\ UNCHANGED <<client, done, stray>>

(* webclient_removerequest: libcurl forgets the handle and its message.      *)
webclient_removerequest(r) ==
    /\ client = "open"
    /\ Alive(r)
    /\ req' = [req EXCEPT ![r] = [Zeroed EXCEPT !.phase = "freed"]]
    /\ done' = Remove(done, r)
    /\ UNCHANGED <<client, stray, answer>>

Next ==
    \/ webclient_create
    \/ webclient_destory
    \/ webclient_query
    \/ \E r \in Request :
          \/ \E post \in BOOLEAN : webclient_request(r, post)
          \/ RequestFails(r)
          \/ webclient_getrespond(r)
          \/ webclient_removerequest(r)

Spec == Init /\ [][Next]_vars

----------------------------------------------------------------------------
(* The body that was copied lies in the block that content points to, also   *)
(* after a realloc that failed: content_maxlength is raised before it.       *)
WithinBlock == \A r \in Request : req[r].content_length <= req[r].block

(* A body that is shorter than what the server sent until then never comes   *)
(* without an error, whichever piece the memory failed for and whatever      *)
(* followed it.                                                              *)
TruncationTold == ~answer.all => answer.error # ""

(* The inductive invariant behind both: until a realloc fails the body is    *)
(* whole, and content_maxlength is what content points to.                   *)
Structure == [phase : {"none", "running", "finished", "freed"}, post : BOOLEAN,
              error : {"", "memory", "transfer"},
              content_length : Nat, content_maxlength : Nat,
              content_realloc_failed : BOOLEAN, block : Nat, body : Nat]

Whole(w) == w.content_maxlength = w.block /\ w.content_length = w.body

IInv ==
    /\ req \in [Request -> Structure]
    /\ \A r \in Request : req[r].content_realloc_failed \/ Whole(req[r])
    /\ WithinBlock
    /\ TruncationTold
=============================================================================
