--------------------------- MODULE SecurityManager ---------------------------
(***************************************************************************)
(* security/security_manager.cpp.  Access lists are guarded by aclMutex,   *)
(* policies by mutex; setSecurityPolicy tests initialized before it takes  *)
(* the lock, and validates the policy under it.  What validatePolicy says  *)
(* is a choice, the wording of the logs is left out, and getSecurityLog    *)
(* copies the log.                                                         *)
(***************************************************************************)
EXTENDS Naturals, Sequences, SequencesExt

CONSTANTS
    Resources, Users, Groups,
    Wildcard,                     \* 0xFFFFFFFF, as a user or a group
    Permissions,                  \* the bits of an entry: sets of these
    Requests,                     \* what checkAccess is asked for: bits, or numbers beyond them
    Setters,                      \* threads inside setSecurityPolicy
    ProcessIds,
    MaxEpochs,                    \* bound: calls of initialize that do something
    MaxAudit                      \* bound: records in the audit trail

VARIABLES
    initialized,
    acls,          \* [Resources -> Seq of [who, permissions]], who being <<user, group>>
    auditTrail,    \* Seq of [user, success]
    policies,      \* [ProcessIds -> NoPolicy or [tested, stored, by]], with history epochs
    securityLog,   \* how many entries
    setting,       \* [Setters -> <<process, epoch of its test>>, or <<>> outside]
    epoch,         \* history: how often initialize ran through
    lastSet        \* history: what setPermissions last gave, [Resources -> [who -> set]]

vars == <<initialized, acls, auditTrail, policies, securityLog, setting, epoch, lastSet>>

Whos == (Users \cup {Wildcard}) \X (Groups \cup {Wildcard})

NoPolicy == [tested |-> 0, stored |-> 0, by |-> Wildcard]
NoPolicies == [p \in ProcessIds |-> NoPolicy]

Init ==
    /\ initialized = FALSE /\ acls = [r \in Resources |-> <<>>] /\ auditTrail = <<>>
    /\ policies = NoPolicies /\ securityLog = 0
    /\ setting = [s \in Setters |-> <<>>] /\ epoch = 0
    /\ lastSet = [r \in Resources |-> [w \in {} |-> {}]]

\* Mutant: what a late setter stored stays.
InitializeKeeps ==
    /\ ~ initialized /\ epoch < MaxEpochs
    /\ initialized' = TRUE /\ epoch' = epoch + 1 /\ securityLog' = 0
    /\ UNCHANGED <<acls, auditTrail, policies, setting, lastSet>>

\* Everything the three set-up calls put into the policies is cleared again.
Initialize ==
    /\ ~ initialized /\ epoch < MaxEpochs
    /\ initialized' = TRUE /\ epoch' = epoch + 1
    /\ policies' = NoPolicies /\ securityLog' = 0
    /\ UNCHANGED <<acls, auditTrail, setting, lastSet>>

\* Access lists and the audit trail outlive a shutdown.
Shutdown ==
    /\ initialized /\ initialized' = FALSE
    /\ policies' = NoPolicies /\ securityLog' = 0
    /\ UNCHANGED <<acls, auditTrail, setting, epoch, lastSet>>

LogAuditEvent(user, success) ==
    /\ Len(auditTrail) < MaxAudit
    /\ auditTrail' = Append(auditTrail, [user |-> user, success |-> success])

SetPermissions(resource, who, permissions) ==
    LET entries == acls[resource]
        it      == SelectInSeq(entries, LAMBDA ace : ace.who = who)
        ace     == [who |-> who, permissions |-> permissions]
    IN
    /\ acls' = [acls EXCEPT ![resource] =
                  IF it # 0 THEN ReplaceAt(entries, it, ace) ELSE Append(entries, ace)]
    /\ lastSet' = [lastSet EXCEPT ![resource] =
                     [w \in DOMAIN @ \cup {who} |-> IF w = who THEN permissions ELSE @[w]]]
    /\ LogAuditEvent(who[1], TRUE)
    /\ UNCHANGED <<initialized, policies, securityLog, setting, epoch>>

\* The first entry whose user and group both match decides.
FirstMatch(resource, who) ==
    SelectInSeq(acls[resource],
                LAMBDA ace : ace.who[1] \in {who[1], Wildcard} /\ ace.who[2] \in {who[2], Wildcard})

Granted(resource, who, request) ==
    FirstMatch(resource, who) # 0
    /\ request \in acls[resource][FirstMatch(resource, who)].permissions

\* Without a list the refusal is logged, without a match it is not; when an entry matches
\* and the request is no bit of it, test throws before anything is logged.
CheckAccess(resource, who, request) ==
    /\ initialized
    /\ IF acls[resource] = <<>> \/ (FirstMatch(resource, who) # 0 /\ request \in Permissions)
         THEN LogAuditEvent(who[1], Granted(resource, who, request))
         ELSE UNCHANGED auditTrail
    /\ UNCHANGED <<initialized, acls, policies, securityLog, setting, epoch, lastSet>>

\* setSecurityPolicy: the test, then the lock.
SetPolicyTest(s, process) ==
    /\ setting[s] = <<>> /\ initialized
    /\ setting' = [setting EXCEPT ![s] = <<process, epoch>>]
    /\ UNCHANGED <<initialized, acls, auditTrail, policies, securityLog, epoch, lastSet>>

\* Under the lock initialized is not looked at again.
SetPolicyStore(s) ==
    /\ setting[s] # <<>> /\ setting' = [setting EXCEPT ![s] = <<>>]
    /\ policies' = [policies EXCEPT ![setting[s][1]] =
                      [tested |-> setting[s][2], stored |-> epoch, by |-> s]]
    /\ securityLog' = securityLog + 1 /\ securityLog < MaxAudit
    /\ UNCHANGED <<initialized, acls, auditTrail, epoch, lastSet>>

\* validatePolicy, under the lock, refuses the policy.
SetPolicyRefused(s) ==
    /\ setting[s] # <<>> /\ setting' = [setting EXCEPT ![s] = <<>>]
    /\ UNCHANGED <<initialized, acls, auditTrail, policies, securityLog, epoch, lastSet>>

Next ==
    \/ Initialize \/ Shutdown
    \/ \E r \in Resources, w \in Whos, p \in SUBSET Permissions : SetPermissions(r, w, p)
    \/ \E r \in Resources, w \in Users \X Groups, q \in Requests : CheckAccess(r, w, q)
    \/ \E s \in Setters :
          SetPolicyStore(s) \/ SetPolicyRefused(s) \/ \E p \in ProcessIds : SetPolicyTest(s, p)

TypeOK ==
    /\ initialized \in BOOLEAN /\ epoch \in 0 .. MaxEpochs
    /\ policies \in [ProcessIds -> [tested : 0 .. MaxEpochs, stored : 0 .. MaxEpochs, by : Setters \cup {Wildcard}]]
    /\ setting \in [Setters -> {<<>>} \cup (ProcessIds \X (0 .. MaxEpochs))]
    /\ securityLog <= MaxAudit /\ Len(auditTrail) <= MaxAudit

\* The policy of a setter that saw an earlier life of the manager than the one it is
\* stored in.
Stale(p) == policies[p] # NoPolicy /\ policies[p].tested # epoch

\* Every policy was stored since the last initialize; it may come from a setter that
\* tested initialized in an earlier life - a shutdown and an initialize went by before it
\* got the lock - but from each setter there is one such policy at most in a life
\* (64-89, 135-148, 150-161).
StaleOnePerSetter ==
    /\ \A p \in ProcessIds : policies[p] # NoPolicy => policies[p].stored = epoch
    /\ \A p, q \in ProcessIds : Stale(p) /\ Stale(q) /\ policies[p].by = policies[q].by => p = q

\* The permissions last set for a user and group are the ones their entry decides by,
\* whatever was set before and whether the manager was initialized or not (91-109).
LastSetDecides ==
    \A r \in Resources : \A w \in DOMAIN lastSet[r] :
        LET mine == SelectInSeq(acls[r], LAMBDA ace : ace.who = w)
        IN  mine # 0 /\ acls[r][mine].permissions = lastSet[r][w]
=============================================================================
