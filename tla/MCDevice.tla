------------------------------ MODULE MCDevice ------------------------------
(* Small instances of DeviceCycle. *)
EXTENDS DeviceCycle, FiniteSets

\* Which heap cell a request lies in makes no difference, and an abandoned
\* request is told apart only by whether WiFi is reported for it.
Seen(r) ==
    IF r = NoRequest THEN <<>>
    ELSE <<{t \in Callers : handle[t] = r},
           IF heap[r].released = 1
           THEN <<heap[r].kind \in {"poll", "post"}, heap[r].kind = "ota">>
           ELSE heap[r]>>
DeviceView ==
    <<[i \in DOMAIN queue |-> Seen(queue[i])], Seen(serving),
      [t \in Callers |-> Seen(handle[t])],
      Cardinality({r \in Requests : Live(r)}),
      stage, left, outcome, work, busy, wifi, loopVars, backlog, idle, wdtVars>>
=============================================================================
