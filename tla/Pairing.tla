------------------------------- MODULE Pairing -------------------------------
(* How an AI application comes to reach a computer: the records and handlers *)
(* of backend/app/connection_service.py (Store, Provider, the routes below   *)
(* /devices and /pair) and the commands of backend/app/connector_relay.py.   *)
(* The desktop enrolls as a device and shows a pairing code; the application *)
(* sends the user to a consent page, where that code is typed; then it       *)
(* exchanges a code for tokens, and these for new ones.                      *)
(*                                                                           *)
(* A handler has no await between its reads and its writes: it is one step.  *)
(* An id or a secret is the number at which it was made.  What Relay has,    *)
(* the limits and answers of calls, is left to it.                           *)
EXTENDS Naturals, FiniteSets

CONSTANTS Apps,        \* the AI applications
          MaxRecords,  \* the capacity of the store (10000)
          MaxMade, MaxExpired, MaxLost   \* bounds: ids, records that expire, answers lost

ASSUME PairingAssumption == {MaxRecords, MaxMade, MaxExpired, MaxLost} \subseteq Nat

VARIABLES
    records,   \* Store: the records that have not expired
    made,      \* ids and secrets so far
    desktop,   \* relay.json, and the code that the desktop shows
    page,      \* the consent page in the browser: its transaction and csrf
    secrets,   \* what each application holds: a code, or the number of two tokens
    polls,     \* the devices whose worker waits for a call
    seen,      \* Relay.seen: the devices heard of in the last 45 seconds
    queued,    \* Relay.queues: the calls of applications for devices
    expired, missed,             \* counters behind the bounds
    agreed, revoked, told, handed, late   \* history: what the user typed where, the devices that were
                                          \* revoked, those the user was told of, the calls handed
                                          \* over, the devices to which some were handed afterwards

pvars == <<records, made, desktop, page, secrets, polls, seen, queued,
           expired, missed, agreed, revoked, told, handed, late>>

Nobody == "nobody"
NoDesktop == [device |-> 0, code |-> 0]
NoPage == [transaction |-> 0, csrf |-> 0, app |-> Nobody]

\* A record by what it is looked up by, its subject and its application; deal is
\* the approval that a code, a token or a paired device has, 0 if none (history but
\* for whether a device is paired).
Rec(kind, key, device, app, deal) ==
    [kind |-> kind, key |-> key, device |-> device, app |-> app, deal |-> deal]
OfDevice(kind, key, d) == Rec(kind, key, d, Nobody, 0)
OfApp(kind, key, a) == Rec(kind, key, 0, a, 0)
Grant(kind, key, r) == Rec(kind, key, r.device, r.app, r.deal)

PairingInit ==
    /\ records = {} /\ made = 0
    /\ desktop = NoDesktop /\ page = NoPage
    /\ secrets = [a \in Apps |-> {}]
    /\ polls = {} /\ seen = {} /\ queued = {}
    /\ expired = 0 /\ missed = 0
    /\ agreed = {} /\ revoked = {} /\ told = {} /\ handed = {} /\ late = {}

-----------------------------------------------------------------------------
(* Store                                                                      *)

Has(kind, key) == \E r \in records : r.kind = kind /\ r.key = key
Lookup(kind, key) == {r \in records : r.kind = kind /\ r.key = key}

\* Store.put, one record after another: 503 from the first for which there is no room.
Stored(S, first, second) ==
    S \cup (IF Cardinality(S) < MaxRecords THEN {first} ELSE {})
      \cup (IF Cardinality(S) + 1 < MaxRecords THEN {second} ELSE {})
Fits(S, n) == Cardinality(S) + n <= MaxRecords

\* Store.revoke: every record that has the device for its subject.
Without(d) == {r \in records : r.device # d}

Fresh == made + 1
Makes == made < MaxMade /\ made' = Fresh
Missed == missed < MaxLost /\ missed' = missed + 1

\* Of two records the one that lives shorter and was not made later ends first.  An
\* approval renews the device and not its token.
Life(r) == CASE r.kind = "code" -> 1 [] r.kind \in {"transaction", "csrf"} -> 2
             [] r.kind = "pair" -> 3 [] r.kind = "access" -> 4 [] r.kind = "refresh" -> 5
             [] r.kind \in {"device_token", "client"} -> 6 [] OTHER -> 7
Unrenewed(r) == {o \in records : r.kind = "device_token" /\ o.key = r.key /\ o.deal = 0}
Expires(r) == /\ expired < MaxExpired /\ expired' = expired + 1
              /\ \A o \in records : o.key <= r.key => Life(o) >= Life(r)
              /\ records' = records \ ({r} \cup Unrenewed(r))
              /\ UNCHANGED <<made, desktop, page, secrets, polls, seen, queued, missed,
                             agreed, revoked, told, handed, late>>

-----------------------------------------------------------------------------
(* The desktop: configure                                                     *)

\* device_auth: the token is known, and so is its device.
Authorized(d) == Has("device_token", d) /\ Has("device", d)
IsPaired(d) == \E r \in records : r.kind = "device" /\ r.key = d /\ r.deal # 0

Elsewhere == UNCHANGED <<page, secrets, polls, expired, agreed>>

\* POST /devices/pair: a new code in the place of the one before.
Unpaired(S, d) == {r \in S : ~(r.kind = "pair" /\ r.device = d)}
Renew ==
    /\ Authorized(desktop.device) /\ Makes
    /\ LET S == Unpaired(records, desktop.device) IN
       IF Fits(S, 1)
       THEN /\ records' = S \cup {OfDevice("pair", Fresh, desktop.device)}
            /\ \/ desktop' = [desktop EXCEPT !.code = Fresh] /\ UNCHANGED missed
               \/ Missed /\ UNCHANGED desktop
       ELSE records' = S /\ UNCHANGED <<desktop, missed>>
    /\ Elsewhere /\ UNCHANGED <<seen, queued, revoked, told, handed, late>>

\* POST /devices: also when the service knows the device no longer (401).
Enroll ==
    /\ ~Authorized(desktop.device) /\ Makes
    /\ LET token == OfDevice("device_token", Fresh, Fresh)
           S == Stored(records, OfDevice("device", Fresh, Fresh), token)
       IN IF token \in S /\ Fits(S, 1)
          THEN /\ records' = S \cup {OfDevice("pair", Fresh, Fresh)}
               /\ \/ desktop' = [device |-> Fresh, code |-> Fresh] /\ UNCHANGED missed
                  \/ Missed /\ UNCHANGED desktop
          ELSE records' = S /\ UNCHANGED <<desktop, missed>>
    /\ Elsewhere /\ UNCHANGED <<seen, queued, revoked, told, handed, late>>

\* DELETE /devices: Store.revoke and Relay.revoke.  That the device is not
\* known any longer (401) counts as done.
Disconnect ==
    /\ desktop.device # 0
    /\ IF Authorized(desktop.device)
       THEN /\ records' = Without(desktop.device)
            /\ seen' = seen \ {desktop.device}
            /\ queued' = {j \in queued : j.device # desktop.device}
            /\ revoked' = revoked \cup {desktop.device}
       ELSE UNCHANGED <<records, seen, queued, revoked>>
    /\ \/ /\ desktop' = NoDesktop /\ told' = told \cup {desktop.device}
          /\ UNCHANGED missed
       \/ Missed /\ UNCHANGED <<desktop, told>>
    /\ Elsewhere /\ UNCHANGED <<made, handed, late>>

-----------------------------------------------------------------------------
(* The worker: heartbeat, and GET /devices/jobs                               *)

Still == UNCHANGED <<records, made, desktop, page, secrets, expired, missed, agreed, revoked, told>>

\* The computer may still run the worker of a device it has given up.  A heartbeat
\* does to `seen` what this does.
Asks(d) == /\ d \notin polls /\ Authorized(d) /\ IsPaired(d)
           /\ polls' = polls \cup {d} /\ seen' = seen \cup {d}
           /\ Still /\ UNCHANGED <<queued, handed, late>>

\* Relay.poll takes a call; it is the worker's if the device is still authorized.
MayHaveAny(d) == TRUE
MayHave(d) == Authorized(d)
HandOver(j) == /\ j.device \in polls
               /\ polls' = polls \ {j.device} /\ queued' = queued \ {j}
               /\ IF MayHave(j.device)
                  THEN /\ handed' = handed \cup {j}
                       /\ late' = late \cup ({j.device} \cap (revoked \cup told))
                  ELSE UNCHANGED <<handed, late>>
               /\ Still /\ UNCHANGED seen

\* 20 seconds without a call; 45 without the worker.
PollEnds(d) == d \in polls /\ polls' = polls \ {d} /\ Still /\ UNCHANGED <<seen, queued, handed, late>>
Silence(d) == d \in seen \ polls /\ seen' = seen \ {d} /\ Still /\ UNCHANGED <<polls, queued, handed, late>>

-----------------------------------------------------------------------------
(* An application                                                             *)

AppStep == UNCHANGED <<desktop, polls, told, handed, late>>
Known(a) == \E r \in records : r.kind = "client" /\ r.app = a

\* register_client, and authorize
Adds(r) == IF Fits(records, 1) THEN records' = records \cup {r} ELSE UNCHANGED records
Register(a) == /\ ~Known(a) /\ Makes /\ Adds(OfApp("client", Fresh, a))
               /\ AppStep /\ UNCHANGED <<page, secrets, seen, queued, expired, missed, agreed, revoked>>

\* authorize, and the page of a transaction (consent): the browser's cookie has
\* the csrf of the last page.
Authorize(a) == /\ Known(a) /\ Makes /\ Adds(OfApp("transaction", Fresh, a))
                /\ AppStep /\ UNCHANGED <<page, secrets, seen, queued, expired, missed, agreed, revoked>>
Consent ==
    /\ \E tx \in records :
          /\ tx.kind = "transaction" /\ Makes /\ Adds(OfApp("csrf", Fresh, Nobody))
          /\ page' = IF Fits(records, 1) THEN [transaction |-> tx.key, csrf |-> Fresh, app |-> tx.app]
                     ELSE page
    /\ AppStep /\ UNCHANGED <<secrets, seen, queued, expired, missed, agreed, revoked>>

\* POST /pair/approve: the user types the code that the desktop shows.
Approved(d, code, tx) ==
    (records \ (Lookup("pair", code) \cup Lookup("transaction", page.transaction)
                 \cup Lookup("csrf", page.csrf) \cup Lookup("device", d)))
      \cup {Rec("device", d, d, Nobody, Fresh), Rec("code", Fresh, d, tx.app, Fresh)}
Approve ==
    /\ desktop.code # 0 /\ Has("csrf", page.csrf)
    /\ \E tx \in Lookup("transaction", page.transaction), p \in Lookup("pair", desktop.code) :
          /\ Has("device", p.device) /\ Makes
          /\ records' = Approved(p.device, desktop.code, tx)
          /\ \/ secrets' = [secrets EXCEPT ![tx.app] = @ \cup {Fresh}] /\ UNCHANGED missed
             \/ Missed /\ UNCHANGED secrets
    /\ agreed' = agreed \cup {[app |-> page.app, device |-> desktop.device, deal |-> Fresh]}
    /\ page' = NoPage
    /\ AppStep /\ UNCHANGED <<seen, queued, expired, revoked>>

\* exchange_authorization_code and exchange_refresh_token: what was exchanged is
\* consumed, then both tokens are issued.
Consumed(r) == records \ {r}
Issued(r) == IF ~Has("device", r.device) THEN Consumed(r)
             ELSE Stored(Consumed(r), Grant("access", Fresh, r), Grant("refresh", Fresh, r))
Exchange(a, s) ==
    \E r \in Lookup("code", s) \cup Lookup("refresh", s) :
       /\ Known(a) /\ r.app = a /\ Makes
       /\ r.kind = "refresh" => Has("device", r.device)
       /\ records' = Issued(r)
       /\ \/ /\ Grant("refresh", Fresh, r) \in Issued(r)
             /\ secrets' = [secrets EXCEPT ![a] = (@ \ {s}) \cup {Fresh}]
             /\ UNCHANGED missed
          \/ /\ IF Grant("refresh", Fresh, r) \in Issued(r) THEN Missed ELSE UNCHANGED missed
             /\ UNCHANGED secrets
       /\ AppStep /\ UNCHANGED <<page, seen, queued, expired, agreed, revoked>>

\* A tool call: load_access_token, then Relay.call.
Calls(a, s) ==
    \E r \in Lookup("access", s) :
       /\ r.app = a /\ Has("device", r.device) /\ r.device \in seen
       /\ queued' = queued \cup {[app |-> a, device |-> r.device]}
       /\ AppStep /\ UNCHANGED <<records, made, page, secrets, seen, expired, missed, agreed, revoked>>

\* revoke_token: ends every grant to the device, and the device.
RevokeToken(a, s) ==
    \E r \in Lookup("access", s) \cup Lookup("refresh", s) :
       /\ Known(a) /\ r.app = a
       /\ records' = Without(r.device)
       /\ revoked' = revoked \cup {r.device}
       /\ AppStep /\ UNCHANGED <<made, page, secrets, seen, queued, expired, missed, agreed>>

\* A call is given up after 125 seconds, or the service is started again.
Withdraw(j) == queued' = queued \ {j} /\ Still /\ UNCHANGED <<polls, seen, handed, late>>
ServiceRestarts == /\ Missed /\ polls' = {} /\ seen' = {} /\ queued' = {}
                   /\ UNCHANGED <<records, made, desktop, page, secrets, expired, agreed, revoked, told, handed, late>>

PairingNext ==
    \/ Renew \/ Enroll \/ Disconnect \/ Consent \/ Approve \/ ServiceRestarts
    \/ \E r \in records : Expires(r)
    \/ \E d \in 1 .. made : Asks(d) \/ PollEnds(d) \/ Silence(d)
    \/ \E j \in queued : HandOver(j) \/ Withdraw(j)
    \/ \E a \in Apps : Register(a) \/ Authorize(a)
    \/ \E a \in Apps : \E s \in secrets[a] : Exchange(a, s) \/ Calls(a, s) \/ RevokeToken(a, s)

PairingSpec == PairingInit /\ [][PairingNext]_pvars

-----------------------------------------------------------------------------
(* What a user agreed to, and only that, and no longer than that: a code or   *)
(* token is of an application for whose consent page the user typed the code  *)
(* of that computer, and never of a device that was revoked; an approval      *)
(* leads to one grant at a time, however often it is exchanged; and a call is *)
(* handed to a computer by such a grant only, never after it was revoked or   *)
(* the user was told so.                                                      *)
Grants == {r \in records : r.kind \in {"code", "access", "refresh"}}
FromUser == \A r \in Grants : [app |-> r.app, device |-> r.device, deal |-> r.deal] \in agreed
NoneRevoked == \A r \in records : r.device \notin revoked
OneGrant == \A r, o \in Grants : r.kind # "access" /\ o.kind # "access" /\ r.deal = o.deal => r = o
OneCode == \A r, o \in records : r.kind = "pair" /\ o.kind = "pair" /\ r.device = o.device => r = o
HandedToAgreed == \A j \in handed : \E g \in agreed : g.app = j.app /\ g.device = j.device
Consented == FromUser /\ NoneRevoked /\ OneGrant /\ OneCode /\ HandedToAgreed /\ late = {}
=============================================================================
