------------------------------ MODULE BodyPipe ------------------------------
(***************************************************************************)
(* What request.stream promises to a request handler: the body of its own  *)
(* request, every chunk once, in order, and "end of body" only after the   *)
(* last chunk.                                                             *)
(***************************************************************************)
EXTENDS Naturals, Sequences

CONSTANT Chunk

VARIABLES sent,       \* the chunks of the current request received so far
          ended,      \* the client has sent the whole body
          delivered,  \* the chunks the handler has been given
          eof         \* the handler has been told that the body ended

vars == <<sent, ended, delivered, eof>>

Init == sent = <<>> /\ ended = FALSE /\ delivered = <<>> /\ eof = FALSE

Write(c) ==
    /\ ~ended
    /\ sent' = Append(sent, c)
    /\ UNCHANGED <<ended, delivered, eof>>

Finish ==
    /\ ~ended
    /\ ended' = TRUE
    /\ UNCHANGED <<sent, delivered, eof>>

Read ==
    /\ ~eof
    /\ Len(delivered) < Len(sent)
    /\ delivered' = Append(delivered, sent[Len(delivered) + 1])
    /\ UNCHANGED <<sent, ended, eof>>

ReadEof ==
    /\ ~eof /\ ended /\ Len(delivered) = Len(sent)
    /\ eof' = TRUE
    /\ UNCHANGED <<sent, ended, delivered>>

(* The request has been answered: the pipe is ready for the next one. *)
Reset ==
    /\ ended
    /\ sent' = <<>> /\ ended' = FALSE /\ delivered' = <<>> /\ eof' = FALSE

Next ==
    \/ \E c \in Chunk : Write(c)
    \/ Finish
    \/ Read
    \/ ReadEof
    \/ Reset

Spec == Init /\ [][Next]_vars
=============================================================================
