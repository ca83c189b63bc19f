-------------------------------- MODULE MCSB --------------------------------
(* Small instances of the Software Bus for TLC.                            *)
EXTENDS SB, TLC

CONSTANTS es, t1, t2, t3, b1, b2, b3, m1, m2, sys, app1, app2

MCTasks2 == {es, t1, t2}
OneApp   == es :> sys @@ t1 :> app1 @@ t2 :> app1
TwoApps  == es :> sys @@ t1 :> app1 @@ t2 :> app2

\* t1 makes and reads pipes, t2 sends; each call is made by someone who can.
ReaderCalls == {"create", "delete", "subscribe", "unsubscribe", "receive"}
ReaderSender == es :> {} @@ t1 :> ReaderCalls @@ t2 :> {"transmit"}

\* Two tasks of one application: one makes and reads pipes, the other sends
\* zero-copy buffers and ends subscriptions, and both send and may delete a
\* pipe; the operator switches routes.
SharedCalls == es :> {"route_cmd"}
               @@ t1 :> {"create", "subscribe", "receive", "transmit", "delete"}
               @@ t2 :> {"unsubscribe", "allocate", "release", "transmit_buffer", "delete"}

\* The reader's application exits, perhaps with a zero-copy buffer in hand.
ExitCalls == es :> {} @@ t1 :> {"create", "setopts", "subscribe", "receive", "allocate", "exit"}
             @@ t2 :> {"transmit"}

BufSymmetry == Permutations(Bufs)
=============================================================================
