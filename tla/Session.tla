------------------------------ MODULE Session -------------------------------
(***************************************************************************)
(* The part of session.Session (apps/server/internal/session) that both    *)
(* SessionLifecycle and SessionSnapshot are about: its inbox, its done     *)
(* channel, the goroutine that executes Run, its context, and the messages *)
(* sent to it.  SessionLifecycle has many sessions, and each of these is a *)
(* function of the session but sends; SessionSnapshot has one.             *)
(***************************************************************************)
EXTENDS Naturals, Sequences

CONSTANTS InboxCap,  \* inboxBufferSize
          MaxSends,  \* bound on the messages of other goroutines
          None

VARIABLES inbox,      \* Session.inbox
          done,       \* Session.done is closed
          actor,      \* the goroutine of Run
          cancelled,  \* the context it was made with is done
          sends       \* messages sent so far
=============================================================================
