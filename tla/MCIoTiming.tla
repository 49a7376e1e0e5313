---------------------------- MODULE MCIoTiming ----------------------------
(* Small instances of IoTiming. *)
EXTENDS IoTiming

\* What the runs tell states apart by.  Once delayed, a behaviour stays so, and
\* of the history variables left out then each is read only by properties of
\* threads that are not delayed and by its own next value.
State ==
  <<now, phase, conn, deadline, socket, wakeByte, wakeReady, resize, remove,
    delayed, lastSlot,
    IF delayed THEN <<>> ELSE <<removeAt, tardy, lastGood, goodNow>> >>

=============================================================================
