----------------------------- MODULE MC_NetIOMP -----------------------------
(***************************************************************************)
(* One SP, one rider, one driver, both connections of each of the three    *)
(* pairs.  A send carries two different items, a read takes one, and at    *)
(* most MaxInFlight = 3 items are unread at a time: enough for a stream to *)
(* have items on the wire and in the buffer at once, for partial write-outs*)
(* (BufCap = 1), for a read that takes only part of a send and for a send  *)
(* onto what another one left.                                             *)
(***************************************************************************)
EXTENDS NetIOMP

MCMessage == {<<1, 2>>}
=============================================================================
