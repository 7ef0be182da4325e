------------------------------ MODULE Defence ------------------------------
(***************************************************************************)
(* From the rules in a file to the countermeasure: HeuristicEvaluator      *)
(* (koot/governance/analytics/heuristics.py), which may be told to read    *)
(* its manifest again while another thread evaluates a tenant, and         *)
(* AutonomousDefender (defender.py), to which the caller hands the alerts. *)
(*                                                                         *)
(* A manifest gives a limit and the name of an action for each threat, or  *)
(* leaves them to the defaults of the code.  Both reload_rules and each    *)
(* check of evaluate_tenant_metrics take two steps, on two attributes that *)
(* no lock ties together.                                                  *)
(***************************************************************************)
EXTENDS Integers, Sequences

CONSTANTS
    Manifests,      \* manifests an operator may write: limits and actions
    Metrics,        \* metrics of a tenant: a number for each threat
    MaxReloads,     \* bound: reloads
    MaxEvaluations  \* bound: evaluations

Threats == {"MASS_DOWNLOAD", "SCHEMA_VIOLATION", "BRUTE_FORCE_OR_STOLEN_CERT"}
Checks == <<"MASS_DOWNLOAD", "SCHEMA_VIOLATION", "BRUTE_FORCE_OR_STOLEN_CERT">>
Unset == -1         \* a limit the manifest does not give

ASSUME DefenceAssumption ==
    /\ Manifests \subseteq [limit : [Threats -> Nat \union {Unset}], action : [Threats -> STRING]]
    /\ Metrics \subseteq [Threats -> Nat]
    /\ MaxReloads \in Nat /\ MaxEvaluations \in Nat

VARIABLES
    file,       \* {the manifest on disk}, or {} when it cannot be read
    baselines,  \* the limits in force
    threats,    \* the actions in force
    reload,     \* reload_rules: "idle", "baselines", "threats"
    loaded,     \* the manifest it has read
    check,      \* evaluate_tenant_metrics: 0, or which check it is at
    limit,      \* {the breached limit}, when an action is still to be looked up
    metrics,    \* of the tenant
    alerts,     \* threats and actions
    reloads, evaluations,
    handing,    \* alerts the defender has still to handle
    freezing,   \* trigger_localized_freeze was called for the tenant
    banned,     \* the source address was banned
    \* history, in no variable of the code
    rules,      \* the manifest that was last loaded in whole
    seen,       \* the manifests ever read
    crossed     \* a reload overlapped with this evaluation

inForce == <<baselines, threats>>
loading == <<file, reload, loaded, reloads, rules, seen>>
evaluating == <<check, limit, metrics, alerts, evaluations>>
defending == <<handing, freezing, banned>>
defenceVars == <<inForce, loading, evaluating, defending, crossed>>

-----------------------------------------------------------------------------
\* The limits in a manifest, or those the code falls back on.
Default(t) == CASE t = "MASS_DOWNLOAD" -> Unset
                [] t = "SCHEMA_VIOLATION" -> 3
                [] t = "BRUTE_FORCE_OR_STOLEN_CERT" -> 5

Limit(limits, t) == IF limits[t] = Unset THEN Default(t) ELSE limits[t]

\* The velocity has to exceed its limit, the counts to reach theirs.
Breaches(n, t, max) ==
    IF t = "MASS_DOWNLOAD" THEN max # Unset /\ n > max ELSE n >= max

-----------------------------------------------------------------------------
\* The operator edits the manifest; an editor may leave half of it.
EditManifest(content) ==
    /\ file # content
    /\ file' = content
    /\ UNCHANGED <<inForce, reload, loaded, reloads, rules, seen, evaluating, defending, crossed>>

\* reload_rules: _load_manifest, and then the limits ...
Reload ==
    /\ reload = "idle" /\ reloads < MaxReloads
    /\ \E m \in file : loaded' = m /\ seen' = seen \union {m}
    /\ reload' = "baselines" /\ reloads' = reloads + 1
    /\ crossed' = (crossed \/ check # 0)
    /\ UNCHANGED <<file, inForce, rules, evaluating, defending>>

\* ... which it does not come to if the file cannot be read.
ReloadRaises ==
    /\ reload = "idle" /\ reloads < MaxReloads /\ file = {}
    /\ reloads' = reloads + 1
    /\ UNCHANGED <<file, inForce, reload, loaded, rules, seen, evaluating, defending, crossed>>

SetBaselines ==
    /\ reload = "baselines"
    /\ baselines' = loaded.limit
    /\ reload' = "threats"
    /\ UNCHANGED <<file, threats, loaded, reloads, rules, seen, evaluating, defending, crossed>>

\* Faulty variant: the actions of the first manifest stay in force.
SetNoThreats ==
    /\ reload = "threats"
    /\ reload' = "idle" /\ rules' = loaded
    /\ UNCHANGED <<file, inForce, loaded, reloads, seen, evaluating, defending, crossed>>

SetThreats ==
    /\ reload = "threats"
    /\ threats' = loaded.action
    /\ reload' = "idle" /\ rules' = loaded
    /\ UNCHANGED <<file, baselines, loaded, reloads, seen, evaluating, defending, crossed>>

-----------------------------------------------------------------------------
\* evaluate_tenant_metrics
Evaluate(n) ==
    /\ check = 0 /\ handing = {} /\ evaluations < MaxEvaluations
    /\ check' = 1 /\ metrics' = n /\ alerts' = {} /\ evaluations' = evaluations + 1
    /\ freezing' = FALSE /\ banned' = FALSE
    /\ crossed' = (reload # "idle")
    /\ UNCHANGED <<inForce, loading, limit, handing>>

Checking == check \in 1..Len(Checks) /\ limit = {}

Pass ==
    LET t == Checks[check] IN
    /\ Checking
    /\ ~Breaches(metrics[t], t, Limit(baselines, t))
    /\ check' = check + 1
    /\ UNCHANGED <<inForce, loading, limit, metrics, alerts, evaluations, defending, crossed>>

Breach ==
    LET t == Checks[check] IN
    /\ Checking
    /\ Breaches(metrics[t], t, Limit(baselines, t))
    /\ limit' = {Limit(baselines, t)}
    /\ UNCHANGED <<inForce, loading, check, metrics, alerts, evaluations, defending, crossed>>

Alert ==
    LET t == Checks[check] IN
    /\ limit # {}
    /\ \E max \in limit :
        alerts' = alerts \union {[threat |-> t, max |-> max, action |-> threats[t]]}
    /\ limit' = {} /\ check' = check + 1
    /\ UNCHANGED <<inForce, loading, metrics, evaluations, defending, crossed>>

Return ==
    /\ check = Len(Checks) + 1
    /\ check' = 0 /\ handing' = alerts
    /\ UNCHANGED <<inForce, loading, limit, metrics, alerts, evaluations, freezing, banned, crossed>>

-----------------------------------------------------------------------------
\* AutonomousDefender.handle_threat; the caller may have no source address.
\* Faulty variant: a ban without an address falls back on a freeze.
HandleHard(a, address) ==
    /\ a \in handing
    /\ handing' = handing \ {a}
    /\ freezing' = (freezing \/ a.action = "freeze" \/ (a.action = "ip_ban" /\ ~address))
    /\ banned' = (banned \/ (a.action = "ip_ban" /\ address))
    /\ UNCHANGED <<inForce, loading, evaluating, crossed>>

Handle(a, address) ==
    /\ a \in handing
    /\ handing' = handing \ {a}
    /\ freezing' = (freezing \/ a.action = "freeze")
    /\ banned' = (banned \/ (a.action = "ip_ban" /\ address))
    /\ UNCHANGED <<inForce, loading, evaluating, crossed>>

-----------------------------------------------------------------------------
\* The names tell this specification from the other that its proofs extend.
DefenceInit ==
    /\ \E m \in Manifests :
        /\ file = {m} /\ rules = m /\ loaded = m /\ seen = {m}
        /\ baselines = m.limit /\ threats = m.action
    /\ reload = "idle" /\ reloads = 0 /\ evaluations = 0
    /\ check = 0 /\ limit = {} /\ metrics = [t \in Threats |-> 0] /\ alerts = {}
    /\ handing = {} /\ freezing = FALSE /\ banned = FALSE /\ crossed = FALSE

Rules ==
    \/ \E content \in {{}} \union {{m} : m \in Manifests} : EditManifest(content)
    \/ Reload \/ ReloadRaises \/ SetBaselines \/ SetThreats

DefenceNext ==
    \/ Rules
    \/ \E n \in Metrics : Evaluate(n)
    \/ Pass \/ Breach \/ Alert \/ Return
    \/ \E a \in handing, address \in BOOLEAN : Handle(a, address)

DefenceSpec == DefenceInit /\ [][DefenceNext]_defenceVars

-----------------------------------------------------------------------------
DefenceTypeOK ==
    /\ file \in {{}} \union {{m} : m \in Manifests}
    /\ loaded \in Manifests /\ rules \in Manifests /\ seen \subseteq Manifests
    /\ \E m \in seen : baselines = m.limit
    /\ \E m \in seen : threats = m.action
    /\ reload \in {"idle", "baselines", "threats"}
    /\ check \in 0..(Len(Checks) + 1)
    /\ limit \subseteq Int /\ (limit # {} => check \in 1..Len(Checks))
    /\ metrics \in [Threats -> Nat]
    /\ alerts \subseteq [threat : Threats, max : Int, action : STRING] /\ handing \subseteq alerts
    /\ reloads \in Nat /\ evaluations \in Nat
    /\ freezing \in BOOLEAN /\ banned \in BOOLEAN /\ crossed \in BOOLEAN

\* What one manifest makes of the metrics.
Verdict(m) ==
    {[threat |-> t, max |-> Limit(m.limit, t), action |-> m.action[t]] :
        t \in {u \in Threats : Breaches(metrics[u], u, Limit(m.limit, u))}}

\* An evaluation with which no reload overlaps gives the alerts of the manifest
\* that was last read in whole, and a reload that fails leaves that in force.
AlertsAreOfOneManifest ==
    check = Len(Checks) + 1 /\ ~crossed => alerts = Verdict(rules)

\* Even amid a reload, an alert is about a limit, and names an action, that some
\* manifest really had for that threat.
AlertsAreFounded ==
    \A a \in alerts :
        /\ \E m \in seen : a.max = Limit(m.limit, a.threat)
        /\ Breaches(metrics[a.threat], a.threat, a.max)
        /\ \E m \in seen : a.action = m.action[a.threat]

\* The anti-DoS rule: an operative is never frozen for failed authentications
\* as long as no manifest says so, whatever is reloaded meanwhile.
NotFrozenForAuth ==
    freezing => \E a \in alerts, m \in seen : m.action[a.threat] = "freeze"
=============================================================================
