------------------------------ MODULE QueryLog ------------------------------
(***************************************************************************)
(* nes-runtime QueryLog for one query.  An entry takes its place in the    *)
(* log by its timestamp, which a worker takes before it reports the entry: *)
(* Stamp adds an entry that is not reported yet, Report makes it visible.  *)
(***************************************************************************)
EXTENDS Naturals, Sequences

Statuses == {"Started", "Running", "Stopped", "Failed"}
Entries == [status : Statuses, reported : BOOLEAN]

Stamp(log, status) == Append(log, [status |-> status, reported |-> FALSE])

(* logQueryStatusChange and logQueryFailure: insertion at the upper bound of the timestamp. *)
Reports(log, status) ==
    {[log EXCEPT ![i].reported = TRUE] :
        i \in {j \in DOMAIN log : log[j].status = status /\ ~log[j].reported}}

NoRun == [start |-> FALSE, running |-> FALSE, stop |-> FALSE, error |-> FALSE]

(* The run an entry belongs to: the last one, or a new one when that one has the event already. *)
Runs(runs, event) ==
    IF runs = <<>> \/ runs[Len(runs)][event] THEN Append(runs, NoRun) ELSE runs

AddEntry(runs, status) ==
    LET last(rs, fields) == [rs EXCEPT ![Len(rs)] = [f \in DOMAIN NoRun |-> @[f] \/ f \in fields]]
    IN  CASE status = "Failed"  -> last(Runs(runs, "stop"), {"stop", "error"})
          [] status = "Stopped" -> last(Runs(runs, "stop"), {"stop"})
          [] status = "Started" -> last(Runs(runs, "start"), {"start"})
          [] status = "Running" -> last(Runs(runs, "running"), {"running"})

(* Mutant: the latest entry is the current status. *)
latestStatus(log) ==
    LET visible == SelectSeq(log, LAMBDA e : e.reported)
    IN  IF visible = <<>> THEN "Registered" ELSE visible[Len(visible)].status

(* getQuerySummary: the current status that the reported entries add up to. *)
getQuerySummary(log) ==
    LET visible == SelectSeq(log, LAMBDA e : e.reported)
        runs[i \in 0..Len(visible)] ==
            IF i = 0 THEN <<>> ELSE AddEntry(runs[i - 1], visible[i].status)
        final == runs[Len(visible)]
    IN  CASE final = <<>> -> "Registered"
          [] final # <<>> /\ ~final[Len(final)].stop -> "Running"
          [] final # <<>> /\ final[Len(final)].stop /\ final[Len(final)].error -> "Failed"
          [] OTHER -> "Stopped"
=============================================================================
