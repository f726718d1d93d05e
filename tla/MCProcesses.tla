----------------------------- MODULE MCProcesses -----------------------------
(* An instance of Processes for TLC: init, the agent and up to three others. *)
EXTENDS Processes

Watching == [expr |-> {"d"}, signal |-> "kill", action |-> "s", comp |-> "=", want |-> -1,
             restart |-> "d", options |-> FALSE]
Options == [Watching EXCEPT !.options = TRUE]
One == {[Watching EXCEPT !.signal = signal, !.action = action, !.restart = r] :
           signal \in {"none", "hup", "term", "kill"}, action \in {"s", "w"}, r \in {"", "d"}}
       \cup {[Watching EXCEPT !.signal = signal, !.action = "m", !.comp = comp, !.want = want] :
                signal \in {"none", "kill"}, comp \in {"=", "<", ">"}, want \in {0, 2}}
       \cup {[Watching EXCEPT !.expr = {"d", "init", "cfagent"}, !.signal = signal,
                              !.action = action] :
                signal \in {"hup", "term"}, action \in {"s", "m"}}
Two == {[Watching EXCEPT !.expr = expr, !.signal = signal] :
           expr \in {{"d"}, {"x"}}, signal \in {"hup", "kill"}}
Policies == {<<p>> : p \in One} \cup {<<p, q>> : p \in Two, q \in Two}
            \cup {<<p, Options, p>> : p \in Two}
Basic == 1 :> "init" @@ 5 :> "cfagent"
AtRest == [q \in DOMAIN Basic |-> [program |-> Basic[q], born |-> 0]]
Crowds == {Basic, Basic @@ 6 :> "d", Basic @@ 4 :> "d" @@ 6 :> "x", Basic @@ 4 :> "d" @@ 6 :> "d",
           Basic @@ 2 :> "d"}
=============================================================================
