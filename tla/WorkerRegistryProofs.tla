------------------------- MODULE WorkerRegistryProofs -------------------------
(***************************************************************************)
(* WorkerRegistry for any number of workers, enrolment tokens and requests *)
(* in progress, and any times to live.                                     *)
(***************************************************************************)
EXTENDS WorkerRegistry, TLAPS

\* A row says who enrolled and as what; a worker without a row has no token,
\* and nobody has revoked it; one with a row is not about to register.
Rows ==
  \A w \in Workers :
    /\ Registered(w) => capabilities[w] \in Capabilities /\ enrolled_with[w] \in Enrolments
    /\ ~Registered(w) => enrolled_with[w] = NULL /\ held[w] = NULL /\ revoked_at[w] = NULL
    /\ registering[w] # NULL => ~Registered(w)

\* A request in progress is of a registered worker, and has what its operation
\* needs.
InProgress ==
  \A c \in Conns : conn[c] # NULL =>
    /\ Registered(conn[c].worker)
    /\ conn[c].op = "heartbeat" => conn[c].seen \in SeenType
    /\ conn[c].op \in Renewals => conn[c].token \in Tokens

Types == TypeOK /\ Rows /\ InProgress

\* The token a worker enrolled with was created, used in time, and used by no
\* other.
Enrolled ==
  \A w \in Workers : Registered(w) =>
    /\ consumed_at[enrolled_with[w]] \in Nat /\ expires_at[enrolled_with[w]] \in Nat
    /\ consumed_at[enrolled_with[w]] < expires_at[enrolled_with[w]]
    /\ \A v \in Workers : enrolled_with[v] = enrolled_with[w] => v = w

\* The token of a registration under way was checked in time, has not been
\* used, and is locked against every other.
Underway ==
  \A w \in Workers : registering[w] # NULL =>
    /\ consumed_at[registering[w].with] = NULL /\ expires_at[registering[w].with] \in Nat
    /\ registering[w].at < expires_at[registering[w].with]
    /\ \A v \in Workers :
         registering[v] # NULL /\ registering[v].with = registering[w].with => v = w

Renews(c, w) == conn[c] # NULL /\ conn[c].worker = w /\ conn[c].op # "heartbeat"

InStep(w) == Registered(w) /\ revoked_at[w] = NULL /\ w \notin astray

\* A worker that is in step has at most one renewal open, and which tokens
\* agree depends on whether its commit or its reply came first.
Rotation ==
  \A w \in Workers : InStep(w) =>
    /\ \A c, d \in Conns : Renews(c, w) /\ Renews(d, w) => c = d
    /\ \A c \in Conns : Renews(c, w) =>
         /\ conn[c].op \in {"renew", "issued"} => held[w].jti = token_jti[w]
         /\ conn[c].op = "replied" => held[w] = conn[c].token
         /\ conn[c].op = "renewed" => token_jti[w] = conn[c].token.jti
    /\ (\A c \in Conns : ~Renews(c, w)) => held[w].jti = token_jti[w]

RegistryInv == Types /\ Enrolled /\ Underway /\ Rotation /\ ReportStands

LEMMA Constants ==
  /\ MaxTime \in Nat /\ MaxJti \in Nat \ {0} /\ TokenTtl \in Nat \ {0}
  /\ EnrolmentTtl \in Nat \ {0} /\ HeartbeatTimeout \in Nat \ {0}
  /\ \A r \in Reports : r.status \in {"ONLINE", "DRAINING"} /\ r.capabilities \in Capabilities
  /\ NULL \notin Workers /\ NULL \notin Enrolments /\ NULL \notin Nat /\ NULL \notin RequestType
  /\ NULL \notin RegistrationType
  /\ Times = 0..MaxTime /\ Times \subseteq Nat
BY RegistryAssumption DEF Times

LEMMA RegistryInit == Init => RegistryInv
<1> SUFFICES ASSUME Init PROVE RegistryInv
  OBVIOUS
<1> USE Constants DEF Init, Registered
<1>1. TypeOK
  BY DEF TypeOK, Shown
<1>2. Rows /\ InProgress /\ Enrolled /\ Underway
  BY DEF Rows, InProgress, Enrolled, Underway
<1>3. Rotation /\ ReportStands
  BY DEF Rotation, InStep, ReportStands
<1> QED BY <1>1, <1>2, <1>3 DEF RegistryInv, Types

LEMMA TypeStep == ASSUME Types, [Next]_vars PROVE Types'
<1> USE Constants
<1> USE DEF tokenVars, healthVars, authVars, workerVars, reportVars
<1>1. ASSUME NEW e \in Enrolments, CreateEnrolment(e) PROVE Types'
  <2>1. now + EnrolmentTtl \in Nat
    BY DEF Types, TypeOK
  <2>2. TypeOK'
    BY <1>1, <2>1 DEF CreateEnrolment, Types, TypeOK
  <2>3. Rows' /\ InProgress'
    BY <1>1 DEF CreateEnrolment, Types, Rows, InProgress, Registered
  <2> QED BY <2>2, <2>3 DEF Types
<1>2. ASSUME NEW w \in Workers, NEW e \in Enrolments, NEW report \in Reports,
             Register(w, e, report)
      PROVE Types'
  <2>1. PICK g \in RegistrationType : g = [with |-> e, at |-> now, report |-> report]
    BY DEF RegistrationType, Types, TypeOK
  <2>2. TypeOK'
    BY <1>2, <2>1 DEF Register, Types, TypeOK
  <2>3. Rows' /\ InProgress'
    BY <1>2, <2>1 DEF Register, Types, TypeOK, Rows, InProgress, Registered
  <2> QED BY <2>2, <2>3 DEF Types
<1>15. ASSUME NEW w \in Workers, NEW received \in BOOLEAN, Enrol(w, received) PROVE Types'
  <2>1. PICK g \in RegistrationType : g = registering[w]
    BY <1>15 DEF Enrol, Types, TypeOK
  <2>2. g.with \in Enrolments /\ g.at \in Times /\ g.report \in Reports /\ ~Registered(w)
    BY <1>15, <2>1 DEF RegistrationType, Enrol, Types, Rows
  <2>3. PICK t \in g.at..now :
          held' = [held EXCEPT ![w] = IF received THEN Token(1, t) ELSE NULL]
    BY <1>15, <2>1 DEF Enrol
  <2>31. t \in 0..MaxTime
    BY <2>2, <2>3 DEF Types, TypeOK
  <2>4. Token(1, t) \in Tokens
    BY <2>31 DEF Token, Tokens
  <2>5. /\ consumed_at' = [consumed_at EXCEPT ![g.with] = g.at]
        /\ status' = [status EXCEPT ![w] = g.report.status]
        /\ capabilities' = [capabilities EXCEPT ![w] = g.report.capabilities]
        /\ last_heartbeat' = [last_heartbeat EXCEPT ![w] = g.at]
        /\ enrolled_with' = [enrolled_with EXCEPT ![w] = g.with]
        /\ reported' = [reported EXCEPT ![w] = g.report]
        /\ registering' = [registering EXCEPT ![w] = NULL]
        /\ token_jti' = [token_jti EXCEPT ![w] = 1]
        /\ issued' = [issued EXCEPT ![w] = 1]
        /\ astray' \subseteq astray \cup {w}
        /\ UNCHANGED <<now, expires_at, revoked_at, conn, overtaken>>
    BY <1>15, <2>1 DEF Enrol
  <2>6. TypeOK'
    BY <2>2, <2>3, <2>4, <2>5 DEF Types, TypeOK, Shown
  <2>7. Rows'
    BY <2>2, <2>3, <2>5 DEF Types, TypeOK, Rows, Registered
  <2>8. InProgress'
    BY <2>2, <2>5 DEF Types, TypeOK, InProgress, Registered
  <2> QED BY <2>6, <2>7, <2>8 DEF Types
<1>16. ASSUME NEW w \in Workers, AbandonRegistration(w) PROVE Types'
  <2>1. TypeOK'
    BY <1>16 DEF AbandonRegistration, Types, TypeOK
  <2>2. Rows' /\ InProgress'
    BY <1>16 DEF AbandonRegistration, Types, TypeOK, Rows, InProgress, Registered
  <2> QED BY <2>1, <2>2 DEF Types
<1>3. ASSUME NEW c \in Conns, NEW w \in Workers, NEW op \in Operations, Authenticate(c, w, op)
      PROVE Types'
  <2>1. Registered(w)
    BY <1>3 DEF Authenticate, Authentic, Types, Rows
  <2>2. PICK seen : seen = IF op = "heartbeat"
                           THEN [status |-> status[w], capabilities |-> capabilities[w], at |-> now]
                           ELSE NULL
    OBVIOUS
  <2>3. op = "heartbeat" => seen \in SeenType
    BY <2>1, <2>2 DEF SeenType, Types, TypeOK, Rows, Registered
  <2>4. PICK y : y = [worker |-> w, op |-> op, token |-> NULL, seen |-> seen]
    OBVIOUS
  <2>5. y \in RequestType
    BY <2>2, <2>3, <2>4 DEF RequestType
  <2>6. conn' = [conn EXCEPT ![c] = y]
    BY <1>3, <2>2, <2>4 DEF Authenticate
  <2>7. TypeOK'
    BY <1>3, <2>5, <2>6 DEF Authenticate, Types, TypeOK
  <2>8. Rows'
    BY <1>3 DEF Authenticate, Types, Rows, Registered
  <2>9. InProgress'
    BY <1>3, <2>1, <2>3, <2>4, <2>6 DEF Authenticate, Types, TypeOK, InProgress, Registered,
      Operations, Renewals
  <2> QED BY <2>7, <2>8, <2>9 DEF Types
<1>4. ASSUME NEW c \in Conns, NEW report \in Reports, Heartbeat(c, report) PROVE Types'
  <2>1. PICK w \in Workers : w = conn[c].worker
    BY <1>4 DEF Heartbeat, Types, TypeOK, RequestType
  <2>2. PICK seen \in SeenType : seen = conn[c].seen
    BY <1>4 DEF Heartbeat, Types, InProgress
  <2>3. PICK s : s = Written(status[w], seen.status, report.status)
    OBVIOUS
  <2>4. PICK p : p = Written(capabilities[w], seen.capabilities, report.capabilities)
    OBVIOUS
  <2>5. PICK at \in seen.at..now : last_heartbeat' = [last_heartbeat EXCEPT ![w] = at]
    BY <1>4, <2>1, <2>2 DEF Heartbeat
  <2>6. at \in Times
    BY <2>2, <2>5 DEF SeenType, Types, TypeOK
  <2>7. Registered(w)
    BY <1>4, <2>1 DEF Heartbeat, Types, InProgress
  <2>8. s \in Shown \ {"ABSENT"} /\ p \in Capabilities
    BY <2>3, <2>4, <2>7 DEF Written, Types, TypeOK, Rows, Registered, Shown
  <2>9. status' = [status EXCEPT ![w] = s] /\ capabilities' = [capabilities EXCEPT ![w] = p]
    BY <1>4, <2>1, <2>2, <2>3, <2>4 DEF Heartbeat, Types, TypeOK
  <2>10. reported' = [reported EXCEPT ![w] = report] /\ overtaken' \subseteq overtaken \cup {w}
    BY <1>4, <2>1 DEF Heartbeat
  <2>11. conn' = [conn EXCEPT ![c] = NULL]
         /\ UNCHANGED <<now, tokenVars, authVars, enrolled_with, workerVars>>
    BY <1>4 DEF Heartbeat
  <2>12. TypeOK'
    BY <2>5, <2>6, <2>8, <2>9, <2>10, <2>11 DEF Types, TypeOK
  <2>13. Rows'
    BY <2>8, <2>9, <2>11, <2>7 DEF Types, TypeOK, Rows, Registered
  <2>14. InProgress'
    BY <2>8, <2>9, <2>11, <2>7 DEF Types, TypeOK, InProgress, Registered
  <2> QED BY <2>12, <2>13, <2>14 DEF Types
<1>5. ASSUME NEW c \in Conns, Issue(c) PROVE Types'
  <2>1. PICK o \in RequestType : o = conn[c] /\ o.op = "renew"
    BY <1>5 DEF Issue, Types, TypeOK
  <2>2. PICK w \in Workers : w = o.worker
    BY <2>1 DEF RequestType
  <2>3. PICK k \in 1..MaxJti : k = issued[w] + 1
    BY <1>5, <2>1, <2>2 DEF Issue, Types, TypeOK
  <2>31. PICK x \in TokenTtl..(MaxTime + TokenTtl) : x = now + TokenTtl
    BY DEF Types, TypeOK
  <2>4. PICK T \in Tokens : T = Token(k, now)
    BY <2>31 DEF Token, Tokens
  <2>5. PICK y : y = [o EXCEPT !.op = "issued", !.token = T]
    OBVIOUS
  <2>6. \A r \in RequestType : [r EXCEPT !.op = "issued", !.token = T] \in RequestType
    BY DEF RequestType, Renewals
  <2>7. y \in RequestType /\ y.worker = o.worker /\ y.op = "issued" /\ y.token = T
    BY <2>1, <2>5, <2>6 DEF RequestType
  <2>8. conn' = [conn EXCEPT ![c] = y] /\ issued' = [issued EXCEPT ![w] = k]
    BY <1>5, <2>1, <2>2, <2>3, <2>4, <2>5 DEF Issue, Types, TypeOK
  <2>9. UNCHANGED <<now, tokenVars, healthVars, authVars, enrolled_with, held, astray, reportVars>>
    BY <1>5 DEF Issue
  <2>10. TypeOK'
    BY <2>7, <2>8, <2>9 DEF Types, TypeOK
  <2>11. Rows'
    BY <2>9 DEF Types, Rows, Registered
  <2>12. InProgress'
    BY <2>1, <2>7, <2>8, <2>9 DEF Types, TypeOK, InProgress, Registered
  <2> QED BY <2>10, <2>11, <2>12 DEF Types
<1>6. ASSUME NEW c \in Conns, Commit(c) PROVE Types'
  <2>1. PICK o \in RequestType : o = conn[c] /\ o.op \in {"issued", "replied"} /\ o.token \in Tokens
    BY <1>6 DEF Commit, Types, TypeOK, InProgress, Renewals
  <2>2. PICK w \in Workers : w = o.worker
    BY <2>1 DEF RequestType
  <2>3. PICK k \in 1..MaxJti : k = o.token.jti
    BY <2>1 DEF Tokens
  <2>4. PICK y : y = IF o.op = "issued" THEN [o EXCEPT !.op = "renewed"] ELSE NULL
    OBVIOUS
  <2>5. y = NULL \/ (y \in RequestType /\ y.worker = o.worker /\ y.op = "renewed" /\ y.token = o.token)
    BY <2>1, <2>4 DEF RequestType, Renewals
  <2>6. conn' = [conn EXCEPT ![c] = y] /\ token_jti' = [token_jti EXCEPT ![w] = k]
    BY <1>6, <2>1, <2>2, <2>3, <2>4 DEF Commit, StoredJti, Types, TypeOK
  <2>7. UNCHANGED <<now, tokenVars, healthVars, revoked_at, enrolled_with, workerVars, reportVars>>
    BY <1>6 DEF Commit
  <2>8. TypeOK'
    BY <2>5, <2>6, <2>7 DEF Types, TypeOK
  <2>9. Rows'
    BY <2>7 DEF Types, Rows, Registered
  <2>10. InProgress'
    BY <2>1, <2>5, <2>6, <2>7 DEF Types, TypeOK, InProgress, Registered
  <2> QED BY <2>8, <2>9, <2>10 DEF Types
<1>7. ASSUME NEW c \in Conns, RollBack(c) PROVE Types'
  <2>1. conn[c] \in RequestType
    BY <1>7 DEF RollBack, Types, TypeOK
  <2>2. conn[c].worker \in Workers
    BY <2>1 DEF RequestType
  <2>3. TypeOK'
    BY <1>7, <2>2 DEF RollBack, Types, TypeOK
  <2>4. Rows' /\ InProgress'
    BY <1>7 DEF RollBack, Types, TypeOK, Rows, InProgress, Registered
  <2> QED BY <2>3, <2>4 DEF Types
<1>8. ASSUME NEW c \in Conns, Replied(c),
             held' = held \/ held' = [held EXCEPT ![conn[c].worker] = conn[c].token],
             astray' = astray \/ astray' = astray \cup {conn[c].worker}
      PROVE Types'
  <2>1. PICK o \in RequestType : o = conn[c] /\ o.op \in {"issued", "renewed"} /\ o.token \in Tokens
    BY <1>8 DEF Replied, Types, TypeOK, InProgress, Renewals
  <2>2. PICK w \in Workers : w = o.worker /\ Registered(w)
    BY <1>8, <2>1 DEF Replied, RequestType, Types, InProgress
  <2>3. PICK y : y = IF o.op = "issued" THEN [o EXCEPT !.op = "replied"] ELSE NULL
    OBVIOUS
  <2>4. y = NULL \/ (y \in RequestType /\ y.worker = o.worker /\ y.op = "replied" /\ y.token = o.token)
    BY <2>1, <2>3 DEF RequestType, Renewals
  <2>5. conn' = [conn EXCEPT ![c] = y]
    BY <1>8, <2>1, <2>3 DEF Replied, Types, TypeOK
  <2>6. UNCHANGED <<now, tokenVars, healthVars, authVars, enrolled_with, issued, reportVars>>
    BY <1>8 DEF Replied
  <2>7. (held' = held \/ held' = [held EXCEPT ![w] = o.token]) /\ astray' \subseteq astray \cup {w}
    BY <1>8, <2>1, <2>2
  <2>8. TypeOK'
    BY <2>1, <2>4, <2>5, <2>6, <2>7 DEF Types, TypeOK
  <2>9. Rows'
    BY <2>2, <2>6, <2>7 DEF Types, TypeOK, Rows, Registered
  <2>10. InProgress'
    BY <2>1, <2>4, <2>5, <2>6 DEF Types, TypeOK, InProgress, Registered
  <2> QED BY <2>8, <2>9, <2>10 DEF Types
<1>9. ASSUME NEW c \in Conns, End(c) PROVE Types'
  <2>1. TypeOK'
    BY <1>9 DEF End, Types, TypeOK
  <2>2. Rows' /\ InProgress'
    BY <1>9 DEF End, Types, TypeOK, Rows, InProgress, Registered
  <2> QED BY <2>1, <2>2 DEF Types
<1>10. ASSUME NEW w \in Workers, RevokeWorker(w) PROVE Types'
  <2>1. TypeOK'
    BY <1>10 DEF RevokeWorker, Types, TypeOK, Shown
  <2>2. Rows' /\ InProgress'
    BY <1>10 DEF RevokeWorker, Types, TypeOK, Rows, InProgress, Registered
  <2> QED BY <2>1, <2>2 DEF Types
<1>11. ASSUME Sweep PROVE Types'
  <2>1. TypeOK'
    BY <1>11 DEF Sweep, Types, TypeOK, Shown
  <2>2. \A w \in Workers : Registered(w)' <=> Registered(w)
    BY <1>11 DEF Sweep, Stale, Registered
  <2>3. Rows' 
    BY <1>11, <2>2 DEF Sweep, Types, Rows
  <2>4. InProgress'
    BY <1>11, <2>2 DEF Sweep, Types, TypeOK, InProgress, RequestType
  <2> QED BY <2>1, <2>3, <2>4 DEF Types
<1>12. ASSUME Tick PROVE Types'
  BY <1>12 DEF Tick, Types, TypeOK, Rows, InProgress, Registered
<1>13. ASSUME UNCHANGED vars PROVE Types'
  BY <1>13 DEF vars, Types, TypeOK, Rows, InProgress, Registered
<1>14. ASSUME NEW c \in Conns, Receive(c) \/ Lose(c) PROVE Types'
  BY <1>8, <1>14 DEF Receive, Lose
<1> QED BY <1>1, <1>2, <1>3, <1>4, <1>5, <1>6, <1>7, <1>9, <1>10, <1>11, <1>12, <1>13, <1>14,
  <1>15, <1>16 DEF Next

\* Rows and tokens of two steps that differ in nothing that enrolment is about.
LEMMA EnrolmentKept ==
  ASSUME Types, Enrolled, Underway, \A w \in Workers : Registered(w)' <=> Registered(w),
         UNCHANGED <<consumed_at, expires_at, registering, enrolled_with>>
  PROVE  Enrolled' /\ Underway'
BY DEF Enrolled, Underway

LEMMA EnrolledStep ==
  ASSUME Types, Enrolled, Underway, [Next]_vars
  PROVE  Enrolled' /\ Underway'
<1> USE Constants
<1> USE DEF tokenVars, healthVars, authVars, workerVars, reportVars
<1>1. ASSUME NEW e \in Enrolments, CreateEnrolment(e) PROVE Enrolled' /\ Underway'
  <2>1. /\ expires_at[e] = NULL /\ expires_at' = [expires_at EXCEPT ![e] = now + EnrolmentTtl]
        /\ UNCHANGED <<consumed_at, registering, status, enrolled_with>>
    BY <1>1 DEF CreateEnrolment
  <2>2. Enrolled'
    BY <2>1 DEF Types, TypeOK, Rows, Enrolled, Registered
  <2>3. ASSUME NEW w \in Workers, registering[w] # NULL
        PROVE  expires_at'[registering[w].with] = expires_at[registering[w].with]
    <3>1. registering[w].with \in Enrolments
      BY <2>3 DEF Types, TypeOK, RegistrationType
    <3> QED BY <2>1, <2>3, <3>1 DEF Types, TypeOK, Underway
  <2>4. Underway'
    BY <2>1, <2>3 DEF Underway
  <2> QED BY <2>2, <2>4
<1>2. ASSUME NEW w \in Workers, NEW e \in Enrolments, NEW report \in Reports,
             Register(w, e, report)
      PROVE Enrolled' /\ Underway'
  <2>1. PICK g : g = [with |-> e, at |-> now, report |-> report]
    OBVIOUS
  <2>2. /\ registering' = [registering EXCEPT ![w] = g] /\ g.with = e /\ g.at = now
        /\ \A v \in Workers : registering[v] # NULL => registering[v].with # e
        /\ expires_at[e] \in Nat /\ now < expires_at[e] /\ consumed_at[e] = NULL
        /\ UNCHANGED <<consumed_at, expires_at, status, enrolled_with>>
    BY <1>2, <2>1 DEF Register, TokenFree, Usable, Types, TypeOK
  <2>3. Enrolled'
    BY <2>2 DEF Enrolled, Registered
  <2>4. ASSUME NEW v \in Workers, registering'[v] # NULL
        PROVE  /\ consumed_at[registering'[v].with] = NULL /\ expires_at[registering'[v].with] \in Nat
               /\ registering'[v].at < expires_at[registering'[v].with]
               /\ \A u \in Workers :
                    registering'[u] # NULL /\ registering'[u].with = registering'[v].with => u = v
    <3>0. /\ registering'[w] = g
          /\ \A u \in Workers \ {w} : registering'[u] = registering[u]
      BY <2>2 DEF Types, TypeOK
    <3>1. CASE v = w
      BY <2>2, <3>0, <3>1
    <3>2. CASE v # w
      BY <2>2, <2>4, <3>0, <3>2 DEF Underway
    <3> QED BY <3>1, <3>2
  <2>5. Underway'
    BY <2>2, <2>4 DEF Underway
  <2> QED BY <2>3, <2>5
<1>9. ASSUME NEW w \in Workers, NEW received \in BOOLEAN, Enrol(w, received)
      PROVE Enrolled' /\ Underway'
  <2>1. PICK g \in RegistrationType : g = registering[w]
    BY <1>9 DEF Enrol, Types, TypeOK
  <2>10. PICK e \in Enrolments : e = g.with
    BY DEF RegistrationType
  <2>11. g.at \in Nat /\ g # NULL /\ g.report.status # "ABSENT"
    BY DEF RegistrationType
  <2>2. /\ consumed_at' = [consumed_at EXCEPT ![e] = g.at]
        /\ enrolled_with' = [enrolled_with EXCEPT ![w] = e]
        /\ registering' = [registering EXCEPT ![w] = NULL]
        /\ status' = [status EXCEPT ![w] = g.report.status]
        /\ expires_at' = expires_at
    BY <1>9, <2>1, <2>10 DEF Enrol
  <2>20. /\ consumed_at[e] = NULL /\ expires_at[e] \in Nat /\ g.at < expires_at[e]
         /\ \A v \in Workers : registering[v] # NULL /\ registering[v].with = e => v = w
    BY <2>1, <2>10, <2>11 DEF Underway
  <2>3. \A v \in Workers : enrolled_with[v] # e
    BY <2>20, NULL \notin Enrolments DEF Types, Rows, Enrolled
  <2>4. ASSUME NEW v \in Workers, Registered(v)'
        PROVE  /\ consumed_at'[enrolled_with'[v]] \in Nat /\ expires_at'[enrolled_with'[v]] \in Nat
               /\ consumed_at'[enrolled_with'[v]] < expires_at'[enrolled_with'[v]]
               /\ \A u \in Workers : enrolled_with'[u] = enrolled_with'[v] => u = v
    <3>1. CASE v = w
      BY <3>1, <2>11, <2>2, <2>20, <2>3 DEF Types, TypeOK
    <3>2. CASE v # w
      <4>1. Registered(v)
        BY <3>2, <2>2, <2>4 DEF Registered, Types, TypeOK
      <4>2. enrolled_with'[v] = enrolled_with[v] /\ enrolled_with[v] \in Enrolments \ {e}
        BY <3>2, <4>1, <2>2, <2>3 DEF Types, TypeOK, Rows
      <4>3. consumed_at'[enrolled_with[v]] = consumed_at[enrolled_with[v]]
        BY <4>2, <2>2 DEF Types, TypeOK
      <4>4. \A u \in Workers : enrolled_with'[u] = enrolled_with[v] => u = v
        BY <4>1, <4>2, <2>2 DEF Enrolled, Types, TypeOK
      <4> QED BY <4>1, <4>2, <4>3, <4>4, <2>2 DEF Enrolled
    <3> QED BY <3>1, <3>2
  <2>5. Enrolled'
    BY <2>4 DEF Enrolled
  <2>6. ASSUME NEW v \in Workers, registering'[v] # NULL
        PROVE  /\ registering'[v] = registering[v] /\ v # w
               /\ consumed_at'[registering[v].with] = consumed_at[registering[v].with]
    <3>1. registering'[v] = registering[v] /\ v # w
      BY <2>2, <2>6 DEF Types, TypeOK
    <3>2. registering[v].with \in Enrolments
      BY <2>6, <3>1 DEF Types, TypeOK, RegistrationType
    <3>3. registering[v].with # e
      BY <2>6, <3>1, <2>20
    <3> QED BY <2>2, <3>1, <3>2, <3>3 DEF Types, TypeOK
  <2>7. Underway'
    BY <2>2, <2>6 DEF Underway
  <2> QED BY <2>5, <2>7
<1>10. ASSUME NEW w \in Workers, AbandonRegistration(w) PROVE Enrolled' /\ Underway'
  <2>1. /\ registering' = [registering EXCEPT ![w] = NULL]
        /\ UNCHANGED <<consumed_at, expires_at, status, enrolled_with>>
    BY <1>10 DEF AbandonRegistration
  <2>2. \A v \in Workers : registering'[v] # NULL => registering'[v] = registering[v]
    BY <2>1 DEF Types, TypeOK
  <2> QED BY <2>1, <2>2 DEF Enrolled, Underway, Registered
<1>3. ASSUME NEW c \in Conns, NEW w \in Workers, NEW op \in Operations, Authenticate(c, w, op)
      PROVE Enrolled' /\ Underway'
  BY <1>3, EnrolmentKept DEF Authenticate, Registered
<1>4. ASSUME NEW c \in Conns, NEW report \in Reports, Heartbeat(c, report) PROVE Enrolled' /\ Underway'
  <2>1. \A w \in Workers : Registered(w)' <=> Registered(w)
    <3>1. PICK w \in Workers : w = conn[c].worker /\ Registered(w)
      BY <1>4 DEF Heartbeat, Types, TypeOK, InProgress, RequestType
    <3>2. report.status # "ABSENT" /\ status[w] # "ABSENT"
      BY <3>1 DEF Registered
    <3>3. \A s : Written(status[w], s, report.status) # "ABSENT"
      BY <3>2 DEF Written
    <3>4. PICK s : status' = [status EXCEPT ![w] = s] /\ s # "ABSENT"
      BY <1>4, <3>1, <3>3 DEF Heartbeat
    <3> QED BY <3>1, <3>4 DEF Registered, Types, TypeOK
  <2> QED BY <1>4, <2>1, EnrolmentKept DEF Heartbeat
<1>5. ASSUME NEW c \in Conns,
             Issue(c) \/ Commit(c) \/ RollBack(c) \/ Receive(c) \/ Lose(c) \/ End(c)
      PROVE Enrolled' /\ Underway'
  BY <1>5, EnrolmentKept DEF Issue, Commit, RollBack, Receive, Lose, Replied, End, Registered
<1>6. ASSUME NEW w \in Workers, RevokeWorker(w) PROVE Enrolled' /\ Underway'
  BY <1>6, EnrolmentKept DEF RevokeWorker, Registered, Types, TypeOK
<1>7. ASSUME Sweep PROVE Enrolled' /\ Underway'
  BY <1>7, EnrolmentKept DEF Sweep, Stale, Registered
<1>8. ASSUME Tick \/ UNCHANGED vars PROVE Enrolled' /\ Underway'
  BY <1>8, EnrolmentKept DEF Tick, vars, Registered
<1> QED BY <1>1, <1>2, <1>3, <1>4, <1>5, <1>6, <1>7, <1>8, <1>9, <1>10 DEF Next

\* Rotation, for one worker.
Agree(w) ==
  /\ \A c, d \in Conns : Renews(c, w) /\ Renews(d, w) => c = d
  /\ \A c \in Conns : Renews(c, w) =>
       /\ conn[c].op \in {"renew", "issued"} => held[w].jti = token_jti[w]
       /\ conn[c].op = "replied" => held[w] = conn[c].token
       /\ conn[c].op = "renewed" => token_jti[w] = conn[c].token.jti
  /\ (\A c \in Conns : ~Renews(c, w)) => held[w].jti = token_jti[w]

\* A step of one connection of another worker, or one that ends a heartbeat.
LEMMA OthersAgree ==
  ASSUME NEW w \in Workers, Agree(w), UNCHANGED <<held[w], token_jti[w]>>,
         NEW c \in Conns, ~Renews(c, w), ~Renews(c, w)',
         \A d \in Conns \ {c} : conn'[d] = conn[d]
  PROVE  Agree(w)'
<1>1. \A d \in Conns : Renews(d, w)' <=> Renews(d, w)
  BY DEF Renews
<1>2. \A d \in Conns : Renews(d, w) => conn'[d] = conn[d]
  OBVIOUS
<1>3. held'[w] = held[w] /\ token_jti'[w] = token_jti[w]
  OBVIOUS
<1> QED BY <1>1, <1>2, <1>3 DEF Agree

\* A request whose operation moves on.
LEMMA MovedOn ==
  ASSUME NEW o \in RequestType, NEW l \in Renewals
  PROVE  /\ [o EXCEPT !.op = l] # NULL /\ [o EXCEPT !.op = l].op = l
         /\ [o EXCEPT !.op = l].worker = o.worker /\ [o EXCEPT !.op = l].token = o.token
<1>1. [o EXCEPT !.op = l] \in RequestType
  BY DEF RequestType
<1>2. PICK y \in RequestType : y = [o EXCEPT !.op = l]
  BY <1>1
<1>3. y # NULL
  BY Constants
<1>4. y.op = l /\ y.worker = o.worker /\ y.token = o.token
  BY <1>2 DEF RequestType
<1> QED BY <1>2, <1>3, <1>4

LEMMA RotationStep == ASSUME Types, Types', Rotation, [Next]_vars PROVE Rotation'
<1> USE Constants
<1> USE DEF tokenVars, healthVars, authVars, workerVars, reportVars
<1> SUFFICES ASSUME NEW w \in Workers, InStep(w)' PROVE Agree(w)'
  BY DEF Rotation, Agree
<1>0. InStep(w) => Agree(w)
  BY DEF Rotation, Agree
<1>1. ASSUME NEW e \in Enrolments, CreateEnrolment(e) PROVE Agree(w)'
  BY <1>0, <1>1 DEF CreateEnrolment, InStep, Registered, Agree, Renews
<1>2. ASSUME NEW v \in Workers, NEW received \in BOOLEAN, Enrol(v, received) PROVE Agree(w)'
  <2>1. CASE v = w
    <3>1. received
      BY <1>2, <2>1 DEF Enrol, InStep
    <3>2. PICK t : held'[w] = Token(1, t) /\ token_jti'[w] = 1
      BY <1>2, <2>1, <3>1 DEF Enrol, Types, TypeOK
    <3>3. held'[w].jti = token_jti'[w]
      BY <3>2 DEF Token
    <3>4. \A c \in Conns : ~Renews(c, w)'
      BY <1>2, <2>1 DEF Enrol, Renews, Types, Rows, InProgress
    <3> QED BY <3>3, <3>4 DEF Agree
  <2>2. CASE v # w
    <3>1. InStep(w)
      BY <1>2, <2>2 DEF Enrol, InStep, Registered, Types, TypeOK
    <3>2. held'[w] = held[w] /\ token_jti'[w] = token_jti[w] /\ conn' = conn
      BY <1>2, <2>2 DEF Enrol, Types, TypeOK
    <3> QED BY <1>0, <3>1, <3>2 DEF Agree, Renews
  <2> QED BY <2>1, <2>2
<1>9. ASSUME NEW v \in Workers,
             AbandonRegistration(v)
             \/ (\E e \in Enrolments, report \in Reports : Register(v, e, report))
      PROVE Agree(w)'
  BY <1>0, <1>9 DEF AbandonRegistration, Register, InStep, Registered, Agree, Renews
<1>3. ASSUME NEW c \in Conns, NEW v \in Workers, NEW op \in Operations, Authenticate(c, v, op)
      PROVE Agree(w)'
  <2>1. InStep(w) /\ UNCHANGED <<held[w], token_jti[w]>>
    BY <1>3 DEF Authenticate, InStep, Registered
  <2>10. PICK seen : seen = IF op = "heartbeat"
                            THEN [status |-> status[v], capabilities |-> capabilities[v], at |-> now]
                            ELSE NULL
    OBVIOUS
  <2>11. PICK y : y = [worker |-> v, op |-> op, token |-> NULL, seen |-> seen]
    OBVIOUS
  <2>2. conn' = [conn EXCEPT ![c] = y] /\ y.worker = v /\ y.op = op
    BY <1>3, <2>10, <2>11 DEF Authenticate
  <2>3. conn[c] = NULL /\ conn'[c] = y /\ \A d \in Conns \ {c} : conn'[d] = conn[d]
    BY <1>3, <2>2 DEF Authenticate, Types, TypeOK
  <2>4. CASE v # w \/ op = "heartbeat"
    BY <1>0, <2>1, <2>2, <2>3, <2>4, OthersAgree DEF Renews
  <2>5. CASE v = w /\ op # "heartbeat"
    <3>1. op = "renew"
      BY <2>5 DEF Operations
    <3>2. Renewing(w) = {}
      BY <1>3, <2>5, <3>1 DEF Authenticate, InStep
    <3>3. ASSUME NEW d \in Conns PROVE ~Renews(d, w)
      <4>1. SUFFICES ASSUME Renews(d, w) PROVE FALSE
        OBVIOUS
      <4>2. conn[d].op \in {"renew"} \cup Renewals
        BY <4>1 DEF Renews, Types, TypeOK, RequestType, Operations
      <4>3. d \in Of(w, conn[d].op)
        BY <4>1 DEF Renews, Of
      <4> QED BY <3>2, <4>2, <4>3 DEF Renewing
    <3>4. held[w].jti = token_jti[w]
      BY <1>0, <2>1, <3>3 DEF Agree
    <3>5. \A d \in Conns \ {c} : ~Renews(d, w)'
      BY <2>3, <3>3 DEF Renews
    <3>6. held'[w].jti = token_jti'[w] /\ conn'[c].op = "renew" /\ Renews(c, w)'
      BY <2>1, <2>2, <2>3, <3>1, <3>4, <1>3, <2>5 DEF Renews, Authenticate, RequestType, Types, TypeOK
    <3> QED BY <3>5, <3>6 DEF Agree
  <2> QED BY <2>4, <2>5
<1>4. ASSUME NEW c \in Conns, NEW report \in Reports, Heartbeat(c, report) PROVE Agree(w)'
  <2>1. UNCHANGED <<token_jti, revoked_at, workerVars>> /\ conn' = [conn EXCEPT ![c] = NULL]
        /\ conn[c].op = "heartbeat"
    BY <1>4 DEF Heartbeat
  <2>2. Registered(w)
    <3>1. conn[c].worker = w => Registered(w)
      BY <1>4 DEF Heartbeat, Types, InProgress
    <3>2. conn[c].worker # w => status'[w] = status[w]
      BY <1>4 DEF Heartbeat, Types, TypeOK
    <3> QED BY <3>1, <3>2 DEF InStep, Registered
  <2> QED BY <1>0, <2>1, <2>2, OthersAgree DEF InStep, Renews, Types, TypeOK
<1>5. ASSUME NEW c \in Conns,
             Issue(c) \/ Commit(c) \/ RollBack(c) \/ Receive(c) \/ Lose(c) \/ End(c)
      PROVE Agree(w)'
  <2> USE DEF Replied
  <2>1. InStep(w)
    BY <1>5 DEF Issue, Commit, RollBack, Receive, Lose, End, InStep, Registered
  <2>2. Agree(w)
    BY <1>0, <2>1
  <2>3. conn[c] # NULL /\ conn[c] \in RequestType /\ \A d \in Conns \ {c} : conn'[d] = conn[d]
    BY <1>5 DEF Issue, Commit, RollBack, Receive, Lose, End, Types, TypeOK
  <2>4. PICK v \in Workers : v = conn[c].worker
    BY <2>3 DEF RequestType
  <2>5. conn'[c] = NULL \/ conn'[c].worker = v
    BY <1>5, <2>3, <2>4 DEF Issue, Commit, RollBack, Receive, Lose, End, Types, TypeOK, RequestType
  <2>6. CASE v # w
    <3>1. UNCHANGED <<held[w], token_jti[w]>>
      BY <1>5, <2>4, <2>6 DEF Issue, Commit, RollBack, Receive, Lose, End, Types, TypeOK
    <3> QED BY <2>2, <2>3, <2>4, <2>5, <2>6, <3>1, OthersAgree DEF Renews
  <2>7. CASE v = w
    <3>0. ASSUME NEW d \in Conns \ {c}, Renews(c, w) PROVE ~Renews(d, w) /\ ~Renews(d, w)'
      BY <2>2, <2>3, <3>0 DEF Agree, Renews
    <3>1. CASE Issue(c)
      <4>1. conn[c].op = "renew" /\ Renews(c, w) /\ held' = held /\ token_jti' = token_jti
        BY <2>4, <2>7, <3>1 DEF Issue, Renews
      <4>2. held[w].jti = token_jti[w]
        BY <2>2, <4>1 DEF Agree
      <4>3. Renews(c, w)' => conn'[c].op = "issued"
        BY <2>3, <3>1 DEF Issue, Types, TypeOK, RequestType, Renews
      <4> QED BY <3>0, <4>1, <4>2, <4>3 DEF Agree
    <3>2. CASE Commit(c)
      <4>1. conn[c].op \in {"issued", "replied"} /\ Renews(c, w) /\ held' = held
            /\ token_jti'[w] = conn[c].token.jti
        BY <2>3, <2>4, <2>7, <3>2 DEF Commit, StoredJti, Renews, Types, TypeOK
      <4>2. CASE conn[c].op = "issued"
        <5>1. conn'[c] = [conn[c] EXCEPT !.op = "renewed"]
          BY <2>3, <3>2, <4>2 DEF Commit, Types, TypeOK
        <5>3. "renewed" \in Renewals /\ "renewed" # "heartbeat"
          BY DEF Renewals
        <5>4. conn'[c] # NULL /\ conn'[c].op = "renewed" /\ conn'[c].worker = conn[c].worker
              /\ conn'[c].token = conn[c].token
          BY <2>3, <5>1, <5>3, MovedOn
        <5>2. conn'[c].op = "renewed" /\ conn'[c].token = conn[c].token /\ Renews(c, w)'
          BY <2>4, <2>7, <5>3, <5>4 DEF Renews
        <5> QED BY <3>0, <4>1, <5>2 DEF Agree
      <4>3. CASE conn[c].op = "replied"
        <5>1. conn'[c] = NULL
          BY <2>3, <3>2, <4>3 DEF Commit, Types, TypeOK
        <5>2. held[w] = conn[c].token
          BY <2>2, <4>1, <4>3 DEF Agree
        <5>3. ~Renews(c, w)' /\ held'[w].jti = token_jti'[w]
          BY <4>1, <5>1, <5>2 DEF Renews
        <5> QED BY <3>0, <4>1, <5>3 DEF Agree
      <4> QED BY <4>1, <4>2, <4>3
    <3>3. CASE RollBack(c)
      <4>1. Renews(c, w) /\ conn'[c] = NULL /\ held' = held /\ token_jti' = token_jti
            /\ conn[c].op \in {"issued", "replied"}
        BY <2>4, <2>7, <3>3 DEF RollBack, Renews, Types, TypeOK
      <4>2. conn[c].op = "issued"
        BY <2>4, <2>7, <3>3, <4>1 DEF RollBack, InStep
      <4>3. held[w].jti = token_jti[w] /\ ~Renews(c, w)'
        BY <2>2, <4>1, <4>2 DEF Agree, Renews
      <4> QED BY <3>0, <4>1, <4>3 DEF Agree
    <3>4. CASE Receive(c)
      <4>1. Renews(c, w) /\ token_jti' = token_jti /\ held'[w] = conn[c].token
            /\ conn[c].op \in {"issued", "renewed"}
        BY <2>3, <2>4, <2>7, <3>4 DEF Receive, Renews, Types, TypeOK
      <4>2. CASE conn[c].op = "issued"
        <5>1. conn'[c] = [conn[c] EXCEPT !.op = "replied"]
          BY <2>3, <3>4, <4>2 DEF Receive, Types, TypeOK
        <5>3. "replied" \in Renewals /\ "replied" # "heartbeat"
          BY DEF Renewals
        <5>4. conn'[c] # NULL /\ conn'[c].op = "replied" /\ conn'[c].worker = conn[c].worker
              /\ conn'[c].token = conn[c].token
          BY <2>3, <5>1, <5>3, MovedOn
        <5>2. conn'[c].op = "replied" /\ conn'[c].token = conn[c].token /\ Renews(c, w)'
          BY <2>4, <2>7, <5>3, <5>4 DEF Renews
        <5> QED BY <3>0, <4>1, <5>2 DEF Agree
      <4>3. CASE conn[c].op = "renewed"
        <5>1. conn'[c] = NULL
          BY <2>3, <3>4, <4>3 DEF Receive, Types, TypeOK
        <5>2. token_jti[w] = conn[c].token.jti
          BY <2>2, <4>1, <4>3 DEF Agree
        <5>3. ~Renews(c, w)' /\ held'[w].jti = token_jti'[w]
          BY <4>1, <5>1, <5>2 DEF Renews
        <5> QED BY <3>0, <4>1, <5>3 DEF Agree
      <4> QED BY <4>1, <4>2, <4>3
    <3>5. CASE Lose(c)
      BY <2>4, <2>7, <3>5 DEF Lose, InStep
    <3>6. CASE End(c)
      <4>1. conn'[c] = NULL /\ held' = held /\ token_jti' = token_jti
            /\ conn[c].op \in {"heartbeat", "renew"}
        BY <3>6 DEF End, Operations, Types, TypeOK
      <4>2. CASE conn[c].op = "heartbeat"
        BY <2>2, <2>3, <4>1, <4>2, OthersAgree DEF Renews
      <4>3. CASE conn[c].op = "renew"
        <5>1. Renews(c, w) /\ ~Renews(c, w)'
          BY <2>3, <2>4, <2>7, <4>1, <4>3 DEF Renews
        <5>2. held[w].jti = token_jti[w]
          BY <2>2, <4>3, <5>1 DEF Agree
        <5> QED BY <3>0, <4>1, <5>1, <5>2 DEF Agree
      <4> QED BY <4>1, <4>2, <4>3
    <3> QED BY <1>5, <3>1, <3>2, <3>3, <3>4, <3>5, <3>6
  <2> QED BY <2>6, <2>7
<1>6. ASSUME NEW v \in Workers, RevokeWorker(v) PROVE Agree(w)'
  <2>1. v # w
    BY <1>6 DEF RevokeWorker, InStep, Types, TypeOK
  <2>2. InStep(w) /\ held'[w] = held[w] /\ token_jti'[w] = token_jti[w] /\ conn' = conn
    BY <1>6, <2>1 DEF RevokeWorker, InStep, Registered, Types, TypeOK
  <2> QED BY <1>0, <2>2 DEF Agree, Renews
<1>7. ASSUME Sweep PROVE Agree(w)'
  <2>1. InStep(w)
    BY <1>7 DEF Sweep, Stale, InStep, Registered
  <2> QED BY <1>0, <1>7, <2>1 DEF Sweep, Agree, Renews
<1>8. ASSUME Tick \/ UNCHANGED vars PROVE Agree(w)'
  BY <1>0, <1>8 DEF Tick, vars, InStep, Registered, Agree, Renews
<1> QED BY <1>1, <1>2, <1>3, <1>4, <1>5, <1>6, <1>7, <1>8, <1>9 DEF Next

\* ReportStands, for one worker.
Stands(w) ==
  Registered(w) /\ revoked_at[w] = NULL /\ w \notin overtaken =>
    /\ capabilities[w] = reported[w].capabilities
    /\ \/ status[w] = reported[w].status
       \/ /\ reported[w].status = "ONLINE" /\ status[w] = "OFFLINE"
          /\ last_heartbeat[w] + HeartbeatTimeout < now

LEMMA StandsStep == ASSUME Types, ReportStands, [Next]_vars PROVE ReportStands'
<1> USE Constants
<1> USE DEF tokenVars, healthVars, authVars, workerVars, reportVars
<1> SUFFICES ASSUME NEW w \in Workers PROVE Stands(w)'
  BY DEF ReportStands, Stands
<1>0. Stands(w)
  BY DEF ReportStands, Stands
<1>1. ASSUME UNCHANGED <<now, healthVars, revoked_at, reportVars>> PROVE Stands(w)'
  BY <1>0, <1>1 DEF Stands, Registered
<1>2. ASSUME NEW v \in Workers, NEW received \in BOOLEAN, Enrol(v, received) PROVE Stands(w)'
  BY <1>0, <1>2 DEF Enrol, Stands, Registered, Types, TypeOK
<1>11. ASSUME NEW v \in Workers,
              AbandonRegistration(v)
              \/ (\E e \in Enrolments, report \in Reports : Register(v, e, report))
       PROVE Stands(w)'
  BY <1>1, <1>11 DEF AbandonRegistration, Register
<1>3. ASSUME NEW c \in Conns, NEW report \in Reports, Heartbeat(c, report) PROVE Stands(w)'
  <2>1. PICK v \in Workers : v = conn[c].worker /\ Registered(v)
    BY <1>3 DEF Heartbeat, Types, TypeOK, InProgress, RequestType
  <2>2. CASE v # w
    <3>1. UNCHANGED <<now, revoked_at>> /\ status'[w] = status[w] /\ reported'[w] = reported[w]
          /\ capabilities'[w] = capabilities[w] /\ last_heartbeat'[w] = last_heartbeat[w]
      BY <1>3, <2>1, <2>2 DEF Heartbeat, Types, TypeOK
    <3>2. w \in overtaken' <=> w \in overtaken
      BY <1>3, <2>1, <2>2 DEF Heartbeat
    <3> QED BY <1>0, <3>1, <3>2 DEF Stands, Registered
  <2>3. CASE v = w
    <3>1. SUFFICES ASSUME w \notin overtaken' PROVE Stands(w)'
      BY DEF Stands
    <3>2. conn[c].seen.status = status[w] /\ conn[c].seen.capabilities = capabilities[w]
      BY <1>3, <2>1, <2>3, <3>1 DEF Heartbeat
    <3>3. \A old, new : Written(old, old, new) = new
      BY DEF Written
    <3>4. status'[w] = report.status /\ capabilities'[w] = report.capabilities
          /\ reported'[w] = report
      BY <1>3, <2>1, <2>3, <3>2, <3>3 DEF Heartbeat, Types, TypeOK
    <3> QED BY <3>4 DEF Stands
  <2> QED BY <2>2, <2>3
<1>4. ASSUME NEW v \in Workers, RevokeWorker(v) PROVE Stands(w)'
  BY <1>0, <1>4 DEF RevokeWorker, Stands, Registered, Types, TypeOK
<1>5. ASSUME Sweep PROVE Stands(w)'
  <2>1. UNCHANGED <<now, capabilities, last_heartbeat, revoked_at, reported, overtaken>>
        /\ status'[w] = IF Stale(w) THEN "OFFLINE" ELSE status[w]
    BY <1>5 DEF Sweep
  <2>2. CASE Stale(w)
    BY <1>0, <2>1, <2>2 DEF Stale, Stands, Registered
  <2>3. CASE ~Stale(w)
    BY <1>0, <2>1, <2>3 DEF Stands, Registered
  <2> QED BY <2>2, <2>3
<1>6. ASSUME Tick PROVE Stands(w)'
  <2>1. now' = now + 1 /\ now \in Nat /\ last_heartbeat[w] \in Nat
    BY <1>6 DEF Tick, Types, TypeOK
  <2> QED BY <1>0, <1>6, <2>1 DEF Tick, Stands, Registered
<1>7. ASSUME UNCHANGED vars PROVE Stands(w)'
  BY <1>1, <1>7 DEF vars
<1>8. ASSUME NEW e \in Enrolments, CreateEnrolment(e) PROVE Stands(w)'
  BY <1>1, <1>8 DEF CreateEnrolment
<1>9. ASSUME NEW c \in Conns, NEW v \in Workers, NEW op \in Operations, Authenticate(c, v, op)
      PROVE Stands(w)'
  BY <1>1, <1>9 DEF Authenticate
<1>10. ASSUME NEW c \in Conns,
              Issue(c) \/ Commit(c) \/ RollBack(c) \/ Receive(c) \/ Lose(c) \/ End(c)
       PROVE Stands(w)'
  BY <1>1, <1>10 DEF Issue, Commit, RollBack, Receive, Lose, Replied, End
<1> QED BY <1>2, <1>3, <1>4, <1>5, <1>6, <1>7, <1>8, <1>9, <1>10, <1>11 DEF Next

LEMMA RegistryStep == ASSUME RegistryInv, [Next]_vars PROVE RegistryInv'
<1>1. Types'
  BY TypeStep DEF RegistryInv
<1> QED BY <1>1, EnrolledStep, RotationStep, StandsStep DEF RegistryInv

LEMMA RegistryAlways == Spec => []RegistryInv
BY RegistryInit, RegistryStep, PTL DEF Spec

\* Every column, token and request in progress keeps its type; in particular a
\* heartbeat only ever writes a status a worker may have (workers.py:84-95).
THEOREM RegistryTypeCorrect == Spec => []TypeOK
<1>1. RegistryInv => TypeOK
  BY DEF RegistryInv, Types
<1> QED BY <1>1, RegistryAlways, PTL

\* However many workers try it at once, one enrolment token enrols one of them,
\* checked in time (workers.py:43-76).
THEOREM EnrolledOnceSafe == Spec => []EnrolledOnce
<1>1. RegistryInv => EnrolledOnce
  BY DEF RegistryInv, Enrolled, EnrolledOnce
<1> QED BY <1>1, RegistryAlways, PTL

\* Rotation never locks out a worker that gets its replies, in whichever order
\* reply and commit come (workers.py:148-157, dependencies.py:99,
\* database.py:24).
THEOREM TokenCurrentSafe == Spec => []TokenCurrent
<1>1. ASSUME RegistryInv, NEW w \in Workers, InStep(w), Renewing(w) = {}
      PROVE  held[w].jti = token_jti[w]
  <2>1. ASSUME NEW d \in Conns PROVE ~Renews(d, w)
    <3>1. SUFFICES ASSUME Renews(d, w) PROVE FALSE
      OBVIOUS
    <3>2. conn[d].op \in {"renew"} \cup Renewals
      BY <1>1, <3>1 DEF RegistryInv, Renews, Types, TypeOK, RequestType, Operations
    <3>3. d \in Of(w, conn[d].op)
      BY <3>1 DEF Renews, Of
    <3> QED BY <1>1, <3>2, <3>3 DEF Renewing
  <2> QED BY <1>1, <2>1 DEF RegistryInv, Rotation
<1>2. RegistryInv => TokenCurrent
  BY <1>1 DEF TokenCurrent, InStep
<1> QED BY <1>2, RegistryAlways, PTL

\* A heartbeat that nothing overtook stands until a revocation, or a sweep for
\* silence (workers.py:84-95, worker_health.py:19-31).
THEOREM ReportStandsSafe == Spec => []ReportStands
<1>1. RegistryInv => ReportStands
  BY DEF RegistryInv
<1> QED BY <1>1, RegistryAlways, PTL

\* Nothing undoes a revocation, and a revoked worker begins no request
\* (admin.py:146-160, dependencies.py:99, docs/security.md:15-16).
THEOREM RevocationFinalSafe == Spec => RevocationFinal
<1>1. ASSUME RegistryInv, [Next]_vars, NEW w \in Workers, revoked_at[w] # NULL
      PROVE  /\ revoked_at'[w] = revoked_at[w]
             /\ \A c \in Conns : conn[c] = NULL => conn'[c] = NULL \/ conn'[c].worker # w
             /\ (\A c \in Conns : conn[c] = NULL \/ conn[c].worker # w) =>
                   /\ token_jti'[w] \in {token_jti[w], NULL}
                   /\ capabilities'[w] = capabilities[w]
                   /\ last_heartbeat'[w] = last_heartbeat[w]
                   /\ \/ status'[w] \in {status[w], "SUSPENDED"}
                      \/ status[w] = "ONLINE" /\ status'[w] = "OFFLINE"
  <2> USE Constants
  <2> USE DEF tokenVars, healthVars, authVars, workerVars, reportVars
  <2>0. Types /\ TypeOK /\ Registered(w)
    BY <1>1 DEF RegistryInv, Types, Rows
  <2>1. ASSUME NEW v \in Workers, NEW received \in BOOLEAN, Enrol(v, received)
        PROVE  UNCHANGED <<revoked_at, conn, token_jti[w], status[w], capabilities[w], last_heartbeat[w]>>
    <3>1. v # w
      BY <2>0, <2>1 DEF Enrol, Types, Rows
    <3> QED BY <2>0, <2>1, <3>1 DEF Enrol, TypeOK
  <2>2. ASSUME NEW c \in Conns, NEW v \in Workers, NEW op \in Operations, Authenticate(c, v, op)
        PROVE  /\ UNCHANGED <<revoked_at, token_jti, status, capabilities, last_heartbeat>>
               /\ conn'[c].worker # w /\ \A d \in Conns \ {c} : conn'[d] = conn[d]
    <3>1. v # w
      BY <1>1, <2>2 DEF Authenticate, Authentic
    <3>2. PICK seen : seen = IF op = "heartbeat"
                             THEN [status |-> status[v], capabilities |-> capabilities[v], at |-> now]
                             ELSE NULL
      OBVIOUS
    <3>3. PICK y : y = [worker |-> v, op |-> op, token |-> NULL, seen |-> seen]
      OBVIOUS
    <3>4. conn' = [conn EXCEPT ![c] = y] /\ y.worker = v
      BY <2>2, <3>2, <3>3 DEF Authenticate
    <3> QED BY <2>0, <2>2, <3>1, <3>4 DEF Authenticate, TypeOK
  <2>3. ASSUME NEW c \in Conns, NEW report \in Reports, Heartbeat(c, report)
        PROVE  /\ UNCHANGED <<revoked_at, token_jti>>
               /\ conn[c] # NULL /\ \A d \in Conns \ {c} : conn'[d] = conn[d]
               /\ conn[c].worker # w => UNCHANGED <<status[w], capabilities[w], last_heartbeat[w]>>
    BY <2>0, <2>3 DEF Heartbeat, TypeOK
  <2>4. ASSUME NEW c \in Conns,
               Issue(c) \/ Commit(c) \/ RollBack(c) \/ Receive(c) \/ Lose(c) \/ End(c)
        PROVE  /\ UNCHANGED <<revoked_at, status, capabilities, last_heartbeat>>
               /\ conn[c] # NULL /\ \A d \in Conns \ {c} : conn'[d] = conn[d]
               /\ conn[c].worker # w => token_jti'[w] = token_jti[w]
    BY <2>0, <2>4 DEF Issue, Commit, RollBack, Receive, Lose, Replied, End, TypeOK
  <2>5. ASSUME NEW v \in Workers, RevokeWorker(v)
        PROVE  /\ UNCHANGED <<conn, capabilities, last_heartbeat>> /\ revoked_at'[w] = revoked_at[w]
               /\ status'[w] \in {status[w], "SUSPENDED"}
               /\ token_jti'[w] \in {token_jti[w], NULL}
    BY <1>1, <2>0, <2>5 DEF RevokeWorker, TypeOK
  <2>6. ASSUME \/ \E e \in Enrolments : CreateEnrolment(e)
               \/ \E v \in Workers, e \in Enrolments, report \in Reports : Register(v, e, report)
               \/ \E v \in Workers : AbandonRegistration(v)
               \/ Tick \/ UNCHANGED vars
        PROVE  UNCHANGED <<revoked_at, conn, token_jti, status, capabilities, last_heartbeat>>
    BY <2>6 DEF CreateEnrolment, Register, AbandonRegistration, Tick, vars
  <2>7. CASE Sweep
    <3>1. /\ UNCHANGED <<revoked_at, conn, token_jti, capabilities, last_heartbeat>>
          /\ status'[w] = IF Stale(w) THEN "OFFLINE" ELSE status[w]
      BY <2>7 DEF Sweep
    <3>2. status'[w] = status[w] \/ (status[w] = "ONLINE" /\ status'[w] = "OFFLINE")
      BY <3>1 DEF Stale
    <3> QED BY <1>1, <3>1, <3>2
  <2> QED BY <1>1, <2>1, <2>2, <2>3, <2>4, <2>5, <2>6, <2>7 DEF Next
<1>2. RegistryInv /\ [Next]_vars => [\A w \in Workers :
       revoked_at[w] # NULL =>
         /\ revoked_at'[w] = revoked_at[w]
         /\ \A c \in Conns : conn[c] = NULL => conn'[c] = NULL \/ conn'[c].worker # w
         /\ (\A c \in Conns : conn[c] = NULL \/ conn[c].worker # w) =>
               /\ token_jti'[w] \in {token_jti[w], NULL}
               /\ capabilities'[w] = capabilities[w]
               /\ last_heartbeat'[w] = last_heartbeat[w]
               /\ \/ status'[w] \in {status[w], "SUSPENDED"}
                  \/ status[w] = "ONLINE" /\ status'[w] = "OFFLINE"]_vars
  BY <1>1
<1> QED BY <1>2, RegistryAlways, PTL DEF Spec, RevocationFinal
===============================================================================
