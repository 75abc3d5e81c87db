--------------------------- MODULE LLRPDeviceClaims ---------------------------
(* What comments say of devices and what the code does not keep: each property   *)
(* here is violated, and README.md says by which behaviour.                      *)
EXTENDS LLRPDevice

\* driver.go:500 says of Driver.Stop: "If force is true, it immediately closes all
\* active connections".  A forced Stop that finds an open connection closes it, whatever
\* the reader does.
ForcedStopCloses ==
  \A p \in Callers :
    (op[p] = "ForcedStop" /\ pc[p] = "closing" /\ loop = "connected" /\ client = c)
      ~> (loop # "connected")

\* device.go:77 and :469: a reader that is connected again and stays so is reported to
\* EdgeX as up, if EdgeX does not refuse the reports.
ConnectedReaderIsUp ==
  (/\ <>[](loop = "connected")
   /\ <>[][~\E h \in Handlers : pc[h] = "reportUp" /\ pc'[h] = "send"]_vars)
  => []<>(opState = "Up")
=============================================================================
