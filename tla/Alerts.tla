---- MODULE Alerts ----
(* Claims and the alerts that reach the operators.  Monitors look, every few      *)
(* hours, at claims about to miss their legal term and at other conditions; what  *)
(* they find is mailed, at most once per cooldown and key (adminAlertThrottle).    *)
(* The mail provider may refuse a mail and a deploy may stop a run at any step.    *)
EXTENDS Naturals, FiniteSets

CONSTANTS
    Claim,        \* reclamos
    Admin,        \* operators answering claims
    Monitor,      \* the other monitors: kyc-incompleto, auth-anomaly, anchor, kyc-bloqueo, xlm
    InMemory,     \* those whose cooldown is a variable of the process: xlm
    Run,          \* runs of monitors that may overlap (the timer's and the scheduler's)
    Term,         \* ticks from the creation of a claim to plazoVence
    Notice,       \* RECLAMOS_AVISO_DIAS, in ticks
    Cooldown,     \* a function: the cooldown of each key, in ticks
    MaxRefusals   \* bound on the mails refused

VARIABLES
    reclamo,      \* status and ticks left to plazoVence
    reply,        \* an adminResponderReclamo between findOne and save
    holds,        \* whether the condition a monitor looks for holds
    age,          \* AdminAlertThrottle: ticks since lastSentAt, up to the cooldown
    run,          \* a monitor in progress: its key and what its mail will name
    told,         \* what a delivered mail named
    refusals

alertVars == <<reclamo, reply, holds, age, run, told, refusals>>

ClaimKeys == {"reclamos-vencidos", "reclamos-por-vencer"}
Key == ClaimKeys \cup Monitor
Open == {"recibido", "en_revision"}
Answers == {"en_revision", "resuelto", "escalado_asfi", "cerrado"}
Idle == [step |-> "idle", key |-> "none", found |-> {}]
NoReply == [reclamo |-> "none"]

AlertTypeOK ==
    /\ reclamo \in [Claim -> [status : {"none", "recibido"} \cup Answers, left : 0 .. Term]]
    /\ \A d \in Admin : reply[d] # NoReply => reply[d].reclamo \in Claim
    /\ holds \in [Monitor -> BOOLEAN]
    /\ \A k \in Key : age[k] \in 0 .. Cooldown[k]
    /\ \A r \in Run : run[r] # Idle => run[r].step \in {"ask", "send"} /\ run[r].found # {}
    /\ told \subseteq Claim \cup Monitor
    /\ refusals \in 0 .. MaxRefusals

AlertInit ==
    /\ reclamo = [c \in Claim |-> [status |-> "none", left |-> Term]]
    /\ reply = [d \in Admin |-> NoReply]
    /\ holds = [m \in Monitor |-> FALSE]
    /\ age = [k \in Key |-> Cooldown[k]]      \* no document yet
    /\ run = [r \in Run |-> Idle]
    /\ told = {}
    /\ refusals = 0

-----------------------------------------------------------------------------
(* Claims                                                                         *)

crearReclamo(c) ==
    /\ reclamo[c].status = "none"
    /\ reclamo' = [reclamo EXCEPT ![c].status = "recibido"]
    /\ UNCHANGED <<reply, holds, age, run, told, refusals>>

\* adminResponderReclamo: everything but a closed claim can be answered, and the save
\* writes the answer whatever the claim has become since it was read.
responderReads(d, c) ==
    /\ reply[d] = NoReply
    /\ reclamo[c].status \notin {"none", "cerrado"}
    /\ reply' = [reply EXCEPT ![d] = [reclamo |-> c]]
    /\ UNCHANGED <<reclamo, holds, age, run, told, refusals>>

responderSaves(d, status) ==
    /\ reply[d] # NoReply
    /\ reclamo' = [reclamo EXCEPT ![reply[d].reclamo].status = status]
    /\ reply' = [reply EXCEPT ![d] = NoReply]
    /\ UNCHANGED <<holds, age, run, told, refusals>>

-----------------------------------------------------------------------------
(* Monitors                                                                       *)

overdue(c) == reclamo[c].status \in Open /\ reclamo[c].left = 0
dueSoon(c) == reclamo[c].status \in Open /\ reclamo[c].left \in 1 .. Notice
vencidos == {c \in Claim : overdue(c)}
porVencer == {c \in Claim : dueSoon(c)}

\* The mail of the overdue claims names the ones about to expire too.
reclamosVencimientosMonitor(r) ==
    /\ run[r] = Idle
    /\ vencidos \cup porVencer # {}
    /\ run' = [run EXCEPT ![r] =
         [step |-> "ask", found |-> vencidos \cup porVencer,
          key |-> IF vencidos # {} THEN "reclamos-vencidos" ELSE "reclamos-por-vencer"]]
    /\ UNCHANGED <<reclamo, reply, holds, age, told, refusals>>

\* What there is to tell: each condition is an alert of its own, with its own key.
evaluateAnchorAlerts == {m \in Monitor : holds[m]}

\* kycIncompleteMonitor, monitorAuthAnomalies, anchorAdminAlerts, revisarBloqueoKyc,
\* monitorChannelXLM.
monitor(r, m) ==
    /\ run[r] = Idle
    /\ m \in evaluateAnchorAlerts
    /\ run' = [run EXCEPT ![r] = [step |-> "ask", key |-> m, found |-> {m}]]
    /\ UNCHANGED <<reclamo, reply, holds, age, told, refusals>>

conditionChanges(m) ==
    /\ holds' = [holds EXCEPT ![m] = ~@]
    /\ UNCHANGED <<reclamo, reply, age, run, told, refusals>>

\* Mutant: a refused alert renews the cooldown.
debeAlertarRenewing(r) ==
    /\ run[r].step = "ask"
    /\ age' = [age EXCEPT ![run[r].key] = 0]
    /\ run' = [run EXCEPT ![r] = IF age[run[r].key] = Cooldown[run[r].key]
                                 THEN [@ EXCEPT !.step = "send"] ELSE Idle]
    /\ UNCHANGED <<reclamo, reply, holds, told, refusals>>

\* debeAlertar: one atomic upsert takes the permission to mail, or finds it taken within
\* the cooldown. What is taken is never given back.
debeAlertar(r) ==
    /\ run[r].step = "ask"
    /\ \/ /\ age[run[r].key] = Cooldown[run[r].key]
          /\ age' = [age EXCEPT ![run[r].key] = 0]
          /\ run' = [run EXCEPT ![r].step = "send"]
       \/ /\ age[run[r].key] < Cooldown[run[r].key]
          /\ run' = [run EXCEPT ![r] = Idle]
          /\ UNCHANGED age
    /\ UNCHANGED <<reclamo, reply, holds, told, refusals>>

\* sendRawEmail returns whether the provider took the mail; the monitors end either way.
sendRawEmail(r) ==
    /\ run[r].step = "send"
    /\ told' = told \cup run[r].found
    /\ run' = [run EXCEPT ![r] = Idle]
    /\ UNCHANGED <<reclamo, reply, holds, age, refusals>>

mailRefused(r) ==
    /\ run[r].step = "send"
    /\ refusals < MaxRefusals
    /\ refusals' = refusals + 1
    /\ run' = [run EXCEPT ![r] = Idle]
    /\ UNCHANGED <<reclamo, reply, holds, age, told>>

\* monitorChannelXLM keeps _lastAlertAt in memory: after a restart it may mail again.
forgets(k) == IF k \in InMemory THEN Cooldown[k] ELSE age[k]

restart ==
    /\ refusals < MaxRefusals
    /\ refusals' = refusals + 1
    /\ run' = [r \in Run |-> Idle]
    /\ reply' = [d \in Admin |-> NoReply]
    /\ age' = [k \in Key |-> forgets(k)]
    /\ UNCHANGED <<reclamo, holds, told>>

alertTick ==
    /\ reclamo' = [c \in Claim |-> [reclamo[c] EXCEPT !.left =
                     IF reclamo[c].status = "none" \/ @ = 0 THEN @ ELSE @ - 1]]
    /\ age' = [k \in Key |-> IF age[k] < Cooldown[k] THEN age[k] + 1 ELSE age[k]]
    /\ UNCHANGED <<reply, holds, run, told, refusals>>

AlertNext ==
    \/ \E c \in Claim : crearReclamo(c)
    \/ \E d \in Admin : (\E c \in Claim : responderReads(d, c))
                        \/ (\E s \in Answers : responderSaves(d, s))
    \/ \E m \in Monitor : conditionChanges(m)
    \/ \E r \in Run : \/ reclamosVencimientosMonitor(r) \/ (\E m \in Monitor : monitor(r, m))
                      \/ debeAlertar(r) \/ sendRawEmail(r) \/ mailRefused(r)
    \/ restart
    \/ alertTick

\* Timers fire and time passes. A run reaches its end unless a deploy stops it.
AlertFairness ==
    /\ WF_alertVars(alertTick)
    /\ \A r \in Run :
        /\ WF_alertVars(debeAlertar(r))
        /\ WF_alertVars(sendRawEmail(r) \/ mailRefused(r))
        /\ SF_alertVars(reclamosVencimientosMonitor(r))
        /\ \A m \in Monitor : SF_alertVars(monitor(r, m))

AlertSpec == AlertInit /\ [][AlertNext]_alertVars /\ AlertFairness

-----------------------------------------------------------------------------
\* A claim that is past its term and stays open, and a condition that keeps holding,
\* are named in a mail that was delivered, although mails are refused after their
\* cooldown was taken, deploys stop runs, and runs overlap
\* (reclamosVencimientosMonitor, monitorAuthAnomalies, debeAlertar).
TroubleIsReported ==
    /\ \A c \in Claim : overdue(c) ~> (c \in told \/ ~overdue(c))
    /\ \A m \in Monitor : holds[m] ~> (m \in told \/ ~holds[m])

\* A closed claim stays closed (adminResponderReclamo refuses to answer it).
ClosedStaysClosed ==
    [][\A c \in Claim : reclamo[c].status = "cerrado" => reclamo'[c].status = "cerrado"]_alertVars
====
