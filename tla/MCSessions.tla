----------------------------- MODULE MCSessions -----------------------------
(***************************************************************************)
(* What drives Butler's model session: the operator's messages and a       *)
(* session's automation.  They share no state here; the initial state picks*)
(* one of the two, and only that one steps.                                *)
(***************************************************************************)
EXTENDS Automations, ButlerPrompts

VARIABLE driver

Only(d, action) == driver = d /\ action /\ UNCHANGED driver
sessionsVars == <<driver, autoVars, promptVars>>

\* A driver that is not explored starts in one state only.
Init ==
    /\ driver \in {"automation", "chat"}
    /\ AutomationInit /\ PromptInit
    /\ driver # "automation" => schedule = CHOOSE k \in Kinds : TRUE

Next ==
    \/ Only("automation", AutomationNext) /\ UNCHANGED promptVars
    \/ Only("chat", PromptNext) /\ UNCHANGED autoVars

\* Each driver's own fairness, while it is the one that runs.
Automation(action) == Only("automation", action)
Chat(action) == Only("chat", action)

Fairness ==
    /\ WF_autoVars(Automation(Claim \/ Expire))
    /\ WF_autoVars(Automation(Dispatch)) /\ WF_autoVars(Automation(Finish))
    /\ \A m \in Messages : WF_promptVars(Chat(Prepares(m)))
    /\ WF_promptVars(Chat(Executes)) /\ WF_promptVars(Chat(Rebuilds))

Spec == Init /\ [][Next]_sessionsVars /\ Fairness

\* Both drivers keep their state in its type, restarts and failures included.
SessionsTypeOK == AutomationTypeOK /\ PromptTypeOK
=============================================================================
