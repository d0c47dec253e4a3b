--------------------------- MODULE ClosableStream ---------------------------
(***************************************************************************)
(* What AudioStreamAAudio promises about the AAudio stream it wraps, which *)
(* is memory owned by another library: it is freed once, only when no      *)
(* thread is inside a call on it, and no call on it begins afterwards.     *)
(***************************************************************************)
EXTENDS FiniteSets

CONSTANT Thread

VARIABLES alive,   \* the stream has not been freed
          users    \* the threads inside a call on the stream

cvars == <<alive, users>>

CInit == alive = TRUE /\ users = {}

Enter(t) == alive = TRUE /\ users' = users \cup {t} /\ UNCHANGED alive
Leave(t) == users' = users \ {t} /\ UNCHANGED alive
Free == alive = TRUE /\ users = {} /\ alive' = FALSE /\ UNCHANGED users

CNext == Free \/ \E t \in Thread : Enter(t) \/ Leave(t)

CSpec == CInit /\ [][CNext]_cvars
=============================================================================
