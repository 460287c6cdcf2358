---- MODULE Limits ----
(* The volume controls on payments: the aggregate limits of the sandbox          *)
(* (ecpLimits), which refuse a payment before it is created, and the monitoring  *)
(* of suspicious operations (rosMonitor, rosMonitorWallet), which looks at what  *)
(* was completed and opens alerts a compliance officer then reviews.             *)
(* A day has Ticks ticks. One consumer.                                           *)
EXTENDS Naturals, FiniteSets

CONSTANTS
    Operation,       \* payments and wallet transfers the consumer may make
    Wallet,          \* the ones that are wallet transfers, never limited by ecpLimits
    Amounts,         \* the amounts an operation may have
    OperationMax,    \* ECP_MAX_PER_OPERATION_BOB
    DailyMax,        \* ECP_MAX_DAILY_BOB
    PeriodMax,       \* ECP_MAX_PERIOD_BOB
    SingleTx,        \* ROS_SINGLE_TX_BOB
    DailyCumul,      \* ROS_DAILY_CUMUL_BOB
    Ticks,           \* ticks in 24 hours
    MaxNow,          \* bound on the clock
    AtOnce           \* whether two requests may be between their check and their create

VARIABLES
    op,          \* Transaction or WalletTransaction: state, amount, createdAt, completedAt
    now,
    alerts,      \* ROSAlert documents
    rejected,    \* whether a LimitRejection was recorded for the operation
    ran          \* the monitors that ran since the last tick

limitVars == <<op, now, alerts, rejected, ran>>

Rules == {"single_tx_high", "daily_cumulative"}
\* An alert reviewed, dismissed or reported_uif is closed: no code tells them apart.
AlertStatus == {"open", "closed"}
Source(o) == IF o \in Wallet THEN "wallet" ELSE "crossborder"

LimitsTypeOK ==
    /\ op \in [Operation -> [status : {"none", "checked", "pending", "completed", "failed"},
                             amount : Amounts \cup {0}, createdAt : 0 .. MaxNow,
                             completedAt : 0 .. MaxNow]]
    /\ now \in 0 .. MaxNow
    /\ alerts \subseteq [rule : Rules, source : {"crossborder", "wallet"}, status : AlertStatus,
                         createdAt : 0 .. MaxNow, transactionIds : SUBSET Operation]
    /\ rejected \in [Operation -> BOOLEAN]
    /\ ran \subseteq {"crossborder", "wallet"}

LimitsInit ==
    /\ op = [o \in Operation |-> [status |-> "none", amount |-> 0, createdAt |-> 0,
                            completedAt |-> 0]]
    /\ now = 0
    /\ alerts = {}
    /\ rejected = [o \in Operation |-> FALSE]
    /\ ran = {}

\* The amounts of the operations of S, boliviano by boliviano.
Total(S) == Cardinality(UNION {{o} \X (1 .. op[o].amount) : o \in S})
startOfDay(t) == t - (t % Ticks)

-----------------------------------------------------------------------------
(* ecpLimits                                                                      *)

\* NON_CONSUMING_STATUSES (failed, refunded, cancelled): what ended unexecuted.
consuming(o) == op[o].status \in {"pending", "completed"}

\* getEcpUsage: what the payments created since `since` consume, pending ones included.
getEcpUsage(since) ==
    Total({o \in Operation \ Wallet : consuming(o) /\ op[o].createdAt >= since})

usageCompletedOnly(since) ==
    Total({o \in Operation \ Wallet : op[o].status = "completed" /\ op[o].createdAt >= since})

evaluateCompletedOnly(amount) ==
    /\ amount <= OperationMax
    /\ usageCompletedOnly(startOfDay(now)) + amount <= DailyMax
    /\ usageCompletedOnly(0) + amount <= PeriodMax

\* evaluateEcpLimits: the first limit the operation would exceed refuses it.
evaluateEcpLimits(amount) ==
    /\ amount <= OperationMax
    /\ getEcpUsage(startOfDay(now)) + amount <= DailyMax
    /\ getEcpUsage(0) + amount <= PeriodMax

\* initCrossBorderPayment checks the limits, and creates the payment several calls to
\* other services later.
checkEcpLimits(o, amount) ==
    /\ o \notin Wallet /\ op[o].status = "none" /\ ~rejected[o]
    /\ AtOnce \/ \A p \in Operation : op[p].status # "checked"
    /\ evaluateEcpLimits(amount)
    /\ op' = [op EXCEPT ![o].status = "checked", ![o].amount = amount]
    /\ UNCHANGED <<now, alerts, rejected, ran>>

\* A refusal leaves a LimitRejection, and no payment.
recordEcpRejection(o, amount) ==
    /\ o \notin Wallet /\ op[o].status = "none" /\ ~rejected[o]
    /\ ~evaluateEcpLimits(amount)
    /\ rejected' = [rejected EXCEPT ![o] = TRUE]
    /\ UNCHANGED <<op, now, alerts, ran>>

\* The payment is created, or a later check or provider of the request refuses it.
createPayment(o) ==
    /\ op[o].status = "checked"
    /\ op' = [op EXCEPT ![o].status = "pending", ![o].createdAt = now]
    /\ UNCHANGED <<now, alerts, rejected, ran>>

abandonPayment(o) ==
    /\ op[o].status = "checked"
    /\ op' = [op EXCEPT ![o].status = "none", ![o].amount = 0]
    /\ UNCHANGED <<now, alerts, rejected, ran>>

\* A payment completes, or fails whenever its providers say so; a wallet
\* transfer is created completed.
settlePayment(o) ==
    /\ op[o].status = "pending"
    /\ \E s \in {"completed", "failed"} :
          op' = [op EXCEPT ![o].status = s, ![o].completedAt = IF s = "completed" THEN now ELSE 0]
    /\ UNCHANGED <<now, alerts, rejected, ran>>

transfer(o, amount) ==
    /\ o \in Wallet /\ op[o].status = "none"
    /\ op' = [op EXCEPT ![o] = [status |-> "completed", amount |-> amount, createdAt |-> now,
                                completedAt |-> now]]
    /\ UNCHANGED <<now, alerts, rejected, ran>>

-----------------------------------------------------------------------------
(* rosMonitor and rosMonitorWallet                                                *)

\* Completed operations of the source created in the last 24 hours.
txs24h(src) ==
    {o \in Operation : /\ Source(o) = src /\ op[o].status = "completed"
                       /\ op[o].createdAt + Ticks >= now}

highTxs(src) == {o \in txs24h(src) : op[o].amount >= SingleTx}

\* The rules that apply, each with the operations that are its evidence. The rules on
\* the number of operations, new accounts and the 30-day average follow the same path.
findings(src) ==
    {f \in {[rule |-> "single_tx_high", txIds |-> highTxs(src)],
            [rule |-> "daily_cumulative", txIds |-> txs24h(src)]} :
        /\ f.txIds # {}
        /\ f.rule = "daily_cumulative" => /\ Total(txs24h(src)) >= DailyCumul
                                          /\ highTxs(src) = {}}

onCooldownAnyRule(rule, src) ==
    \E a \in alerts : /\ a.status = "open" /\ a.createdAt + Ticks >= now
                      /\ src = "wallet" => a.source = "wallet"

\* The cooldown: an open alert of the rule in the last 24 hours. The wallet monitor
\* looks at its own alerts, the other one at everybody's.
onCooldown(rule, src) ==
    \E a \in alerts : /\ a.rule = rule /\ a.status = "open"
                      /\ a.createdAt + Ticks >= now
                      /\ src = "wallet" => a.source = "wallet"

rosMonitor(src) ==
    /\ ran' = ran \cup {src}
    /\ alerts' = alerts \cup
         {[rule |-> f.rule, source |-> src, status |-> "open", createdAt |-> now,
           transactionIds |-> f.txIds] :
             f \in {g \in findings(src) : ~onCooldown(g.rule, src)}}
    /\ UNCHANGED <<op, now, rejected>>

\* The officer's review closes an alert.
reviewAlert(a) ==
    /\ a.status = "open"
    /\ alerts' = (alerts \ {a}) \cup {[a EXCEPT !.status = "closed"]}
    /\ UNCHANGED <<op, now, rejected, ran>>

\* Both monitors run every 6 hours, less than a tick.
limitTick ==
    /\ now < MaxNow
    /\ ran = {"crossborder", "wallet"}
    /\ now' = now + 1 /\ ran' = {}
    /\ UNCHANGED <<op, alerts, rejected>>

LimitsNext ==
    \/ \E o \in Operation, m \in Amounts :
          checkEcpLimits(o, m) \/ recordEcpRejection(o, m) \/ transfer(o, m)
    \/ \E o \in Operation :
          createPayment(o) \/ abandonPayment(o) \/ settlePayment(o)
    \/ \E src \in {"crossborder", "wallet"} : rosMonitor(src)
    \/ \E a \in alerts : reviewAlert(a)
    \/ limitTick

LimitsSpec == LimitsInit /\ [][LimitsNext]_limitVars

-----------------------------------------------------------------------------
\* The declared limits hold whatever becomes of the payments: what was created in one
\* day, and in the whole period, and did not fail stays within them
\* (ecpLimits, paymentController initCrossBorderPayment).
EcpLimitHolds ==
    LET Live(S) == {p \in S \ Wallet : consuming(p)} IN
    /\ Total(Live(Operation)) <= PeriodMax
    /\ \A o \in Live(Operation) :
         Total(Live({p \in Operation : startOfDay(op[p].createdAt) = startOfDay(op[o].createdAt)}))
             <= DailyMax

\* A large operation that completed while a run of the monitor could still see it has an
\* alert on large operations opened within 24 hours of it, although other alerts, also
\* the other monitor's, suppress new ones and officers close them (rosMonitor,
\* rosMonitorWallet).
LargeIsFlagged ==
    \A o \in Operation :
        /\ op[o].status = "completed" /\ op[o].amount >= SingleTx
        /\ op[o].completedAt < op[o].createdAt + Ticks
        /\ op[o].createdAt + Ticks < now
        => \E a \in alerts : /\ a.rule = "single_tx_high"
                              /\ a.createdAt + Ticks >= op[o].createdAt
                              /\ a.createdAt <= op[o].createdAt + Ticks
====
