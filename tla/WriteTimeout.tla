---------------------------- MODULE WriteTimeout ----------------------------
(***************************************************************************)
(* writeTimeoutConn: how a connection sends the responses of its requests, *)
(* one after another.  An ordinary response has the deadline that net/http *)
(* set for its request.  For a download EnableWriteIdleTimeout switches to *)
(* a policy of the connection under which a send that timed out after some *)
(* progress is continued with a new deadline.                              *)
(*                                                                         *)
(* The wrapped connection and net/http are external: a call of theirs      *)
(* sends any number of bytes and then succeeds, times out or breaks.  A    *)
(* byte is its offset in the object's file.                                *)
(***************************************************************************)
EXTENDS Naturals, Sequences

CONSTANTS
    FileSize,       \* bytes of the file
    MaxResponses    \* bound on the responses of a connection

ASSUME WriteTimeoutAssumption == FileSize \in Nat /\ MaxResponses \in Nat

VARIABLES
    idleTimeout,    \* the connection's policy: is it positive?
    resp,           \* the response being sent, or the last one
    responses       \* responses begun so far

sendVars == <<idleTimeout, resp, responses>>

\* Through Write (the copy of a source that is not a file too); ReadFrom a
\* file; ReadFrom an io.LimitedReader over a file.
Vias == {"write", "file", "limited"}

\* The bytes start+1 .. start+length of the file are to be sent.
Response ==
    [pc : {"begun", "sending", "done", "closed"},
     download : BOOLEAN,    \* EnableWriteIdleTimeout took effect
     via : Vias,
     start : 0..FileSize,
     length : 0..FileSize,
     offset : 0..FileSize,  \* file position, or where the unsent slice begins
     N : 0..FileSize,       \* limited.N, or the length of that slice
     total : 0..FileSize,   \* what the method returns
     sent : Seq(1..FileSize),
     extended : BOOLEAN,    \* the deadline was moved for this response
     renewal : 0..1,        \* which of two deadlines: each renewal is a new one
     err : {"nil", "timeout", "broken"}]

SendTypeOK ==
    /\ idleTimeout \in BOOLEAN
    /\ resp \in Response
    /\ responses \in 0..MaxResponses

NoResponse ==
    [pc |-> "done", download |-> FALSE, via |-> "write", start |-> 0, length |-> 0, offset |-> 0,
     N |-> 0, total |-> 0, sent |-> <<>>, extended |-> FALSE, renewal |-> 0,
     err |-> "nil"]

SendInit ==
    /\ idleTimeout = FALSE
    /\ resp = NoResponse
    /\ responses = 0

\* Mutant: the policy outlives the response it was made for.
SetWriteDeadline_KeepsPolicy == UNCHANGED idleTimeout

\* net/http sets the deadline of the next request.
SetWriteDeadline == idleTimeout' = FALSE

\* The next request of the connection.
BeginResponse(via, start, length) ==
    /\ resp.pc = "done"
    /\ resp.err = "nil"
    /\ responses < MaxResponses
    /\ start + length <= FileSize
    /\ via = "file" => start + length = FileSize
    /\ responses' = responses + 1
    /\ resp' = [NoResponse EXCEPT !.pc = "begun", !.via = via, !.start = start, !.length = length,
                                  !.offset = start, !.N = length]
    /\ SetWriteDeadline

\* The handler asks for the policy (HTTP/1 on a wrapped connection; it has no
\* effect otherwise, and then the response is like an ordinary one).
EnableWriteIdleTimeout ==
    /\ resp.pc = "begun"
    /\ ~resp.download
    /\ idleTimeout' = TRUE
    /\ resp' = [resp EXCEPT !.download = TRUE, !.extended = TRUE]
    /\ UNCHANGED responses

StartSend ==
    /\ resp.pc = "begun"
    /\ resp' = [resp EXCEPT !.pc = "sending"]
    /\ UNCHANGED <<idleTimeout, responses>>

\* Bytes that the source still yields.
Left(r) == IF r.via = "file" THEN FileSize - r.offset ELSE r.N

\* What a call of the wrapped connection may do: n bytes go out, the source
\* has been read up to `read`, which buffered copying may push past n.
Outcomes(r) ==
    {o \in [n : 0..Left(r), read : 0..Left(r), err : {"nil", "timeout", "broken"}] :
        /\ o.read >= o.n
        /\ r.via = "write" => o.read = o.n
        /\ o.err = "nil" => o.n = Left(r)
        /\ o.err # "nil" /\ r.via = "write" => o.n < Left(r)}

\* Mutant: any timeout counts.
MadeWriteProgress_Always(n, err) == err = "timeout"

MadeWriteProgress(n, err) == n > 0 /\ err = "timeout"

\* Mutant: the copy goes on from where the file was read to.
Resume_AtRead(r, o) ==
    [r EXCEPT !.offset = @ + o.read, !.N = IF r.via = "file" THEN @ ELSE @ - o.n]

\* Mutant: the limit is set back to what it was before the round.
Resume_LimitKept(r, o) == [r EXCEPT !.offset = @ + o.n]

\* The next round: Seek to the bytes sent, restore limited.N; body[n:].
Resume(r, o) ==
    [r EXCEPT !.offset = @ + o.n, !.N = IF r.via = "file" THEN @ ELSE @ - o.n]

\* One call of the wrapped connection.  Under the policy the deadline is
\* renewed before it, and the loop goes on after progress.
Send ==
    /\ resp.pc = "sending"
    /\ \E o \in Outcomes(resp) :
        LET done == [resp EXCEPT
                        !.total = @ + o.n,
                        !.sent = @ \o [i \in 1..o.n |-> resp.offset + i],
                        !.extended = @ \/ idleTimeout,
                        !.renewal = IF idleTimeout THEN 1 - @ ELSE @,
                        !.err = o.err]
        IN  resp' = IF idleTimeout /\ MadeWriteProgress(o.n, o.err)
                    THEN Resume(done, o)
                    ELSE [done EXCEPT !.pc = "done"]
    /\ UNCHANGED <<idleTimeout, responses>>

\* net/http gives a connection up whose response failed.
CloseConn ==
    /\ resp.pc = "done"
    /\ resp.err # "nil"
    /\ resp' = [resp EXCEPT !.pc = "closed"]
    /\ UNCHANGED <<idleTimeout, responses>>

SendNext ==
    \/ \E via \in Vias, start, length \in 0..FileSize : BeginResponse(via, start, length)
    \/ EnableWriteIdleTimeout
    \/ StartSend
    \/ Send
    \/ CloseConn

SendSpec == SendInit /\ [][SendNext]_sendVars

-----------------------------------------------------------------------------
(* Properties                                                              *)

\* Whatever timed out and was continued, the bytes on the wire are the bytes
\* asked for, in order and without gap or repetition; the count returned is
\* theirs, and a send that reports success has sent them all.
SendsTheBytes ==
    /\ resp.sent = [i \in 1..Len(resp.sent) |-> resp.start + i]
    /\ resp.total = Len(resp.sent)
    /\ Len(resp.sent) <= resp.length
    /\ resp.pc = "done" /\ resp.err = "nil" => Len(resp.sent) = resp.length

\* "Never let a download's policy leak into keep-alive": the deadline of a
\* response is only moved for the download that asked for it.
PolicyStaysWithDownload == resp.extended => resp.download

\* A peer that takes nothing cannot hold a send for ever, and one that takes
\* bytes slowly is done once it has them all.
SendEnds == resp.pc = "sending" ~> resp.pc # "sending"

=============================================================================
