---------------------------- MODULE Provisioning ----------------------------
(***************************************************************************)
(* Self-serve signup and billing: the webhooks Stripe delivers, the rows   *)
(* they write in Postgres and Redis, and the setup page that reveals a     *)
(* key.                                                                    *)
(*                                                                         *)
(* A delivery is one POST /billing/webhook.  Stripe delivers an event      *)
(* until it is answered 200, may deliver it again after that, delivers     *)
(* events in any order and does not wait for one delivery before it starts *)
(* another.  The handler writes to two stores, one statement at a time,    *)
(* with no transaction around them; it remembers no event.  A statement    *)
(* whose reply is lost is one that ran, followed by Fail.                  *)
(*                                                                         *)
(* Left out: Stripe's customer id, which only pre-fills a checkout; the    *)
(* signature; what a balance is worth after its seeding, which is          *)
(* BudgetEngine's matter.                                                  *)
(***************************************************************************)
CONSTANTS
    Delivery,       \* webhook requests that may be served at one time
    Session,        \* Stripe checkout sessions; each pays for one subscription
    Org,            \* ids newID may draw for orgs
    Key,            \* keys GenerateAPIKey may draw
    Email,          \* addresses customers sign up with, trimmed, in lower case
    Paid,           \* the plans other than trial
    NoSession, NoOrg, NoKey, NoOne

ASSUME ProvisioningAssumption ==
    /\ NoSession \notin Session
    /\ NoOrg \notin Org
    /\ NoKey \notin Key
    /\ NoOne \notin Email
    /\ "trial" \notin Paid

VARIABLES
    checkout,   \* checkout[s]: the metadata of session s, kept by Stripe
    cancelled,  \* sessions whose subscription was deleted
    orgs,       \* ids of the rows of table orgs
    org,        \* org[o]: the columns of row o
    registered, \* orgs whose default bucket is in table buckets
    seeded,     \* orgs whose default bucket has a counter in Redis
    keyOrg,     \* keyOrg[k]: the org of key k in table api_keys
    secret,     \* secret[s]: Redis key setup:session:<s>
    setupOrg,   \* setupOrg[s]: Redis key setup:org:<s>
    job,        \* job[d]: where the handler of delivery d is
    acked,      \* history: sessions whose checkout.session.completed was answered 200
    ended,      \* history: sessions whose customer.subscription.deleted was
    revealed    \* history: revealed[s]: keys the setup page of s has shown

stripeVars == <<checkout, cancelled>>
orgVars == <<orgs, org, registered, seeded, keyOrg>>
setupVars == <<secret, setupOrg>>
history == <<acked, ended, revealed>>
vars == <<stripeVars, orgVars, setupVars, job, history>>

Plan == Paid \cup {"trial"}
Checkout == [org : Org \cup {NoOrg}, email : Email \cup {NoOne}, plan : Plan]
Unopened == [org |-> NoOrg, email |-> NoOne, plan |-> "trial"]

Row == [email : Email \cup {NoOne}, plan : Plan, sub : Session \cup {NoSession},
        bucket : BOOLEAN, slack : Email \cup {NoOne}]

\* A new row has the columns' defaults.
NewRow(e) ==
    [email |-> e, plan |-> "trial", sub |-> NoSession, bucket |-> FALSE, slack |-> NoOne]

Step == {"idle", "find", "insert", "apply", "bucket", "register", "seed", "key",
         "secret", "setuporg", "downgrade", "answer"}
Job == [at : Step, kind : {"completed", "deleted"}, session : Session \cup {NoSession},
        org : Org \cup {NoOrg}, key : Key \cup {NoKey}]
Idle == [at |-> "idle", kind |-> "completed", session |-> NoSession,
         org |-> NoOrg, key |-> NoKey]

TypeOK ==
    /\ checkout \in [Session -> Checkout]
    /\ cancelled \subseteq Session
    /\ orgs \subseteq Org
    /\ org \in [Org -> Row]
    /\ registered \subseteq Org
    /\ seeded \subseteq Org
    /\ keyOrg \in [Key -> Org \cup {NoOrg}]
    /\ secret \in [Session -> Key \cup {NoKey}]
    /\ setupOrg \in [Session -> Org \cup {NoOrg}]
    /\ job \in [Delivery -> Job]
    /\ acked \subseteq Session
    /\ ended \subseteq Session
    /\ revealed \in [Session -> SUBSET Key]

Init ==
    /\ checkout = [s \in Session |-> Unopened]
    /\ cancelled = {}
    /\ orgs = {}
    /\ org = [o \in Org |-> NewRow(NoOne)]
    /\ registered = {}
    /\ seeded = {}
    /\ keyOrg = [k \in Key |-> NoOrg]
    /\ secret = [s \in Session |-> NoKey]
    /\ setupOrg = [s \in Session |-> NoOrg]
    /\ job = [d \in Delivery |-> Idle]
    /\ acked = {}
    /\ ended = {}
    /\ revealed = [s \in Session |-> {}]

\* The session was opened by a customer who signs up, or by an operator for an org.
SignsUp(s) == checkout[s].email # NoOne
Opened(s) == SignsUp(s) \/ checkout[s].org # NoOrg

Holders(e) == {o \in orgs : org[o].email = e}
Subscribed(s) == {o \in orgs : org[o].sub = s}

-----------------------------------------------------------------------------
(* Checkouts: the proxy asks Stripe for a session and keeps nothing.       *)

StartPublicCheckout(s, e, p) ==
    /\ ~Opened(s)
    /\ checkout' = [checkout EXCEPT ![s] = [org |-> NoOrg, email |-> e, plan |-> p]]
    /\ UNCHANGED <<cancelled, orgVars, setupVars, job, history>>

StartCheckout(s, o, p) ==
    /\ ~Opened(s)
    /\ o \in orgs
    /\ checkout' = [checkout EXCEPT ![s] = [org |-> o, email |-> NoOne, plan |-> p]]
    /\ UNCHANGED <<cancelled, orgVars, setupVars, job, history>>

\* Stripe: the subscription the session paid for ends.
CancelSubscription(s) ==
    /\ Opened(s)
    /\ cancelled' = cancelled \cup {s}
    /\ UNCHANGED <<checkout, orgVars, setupVars, job, history>>

-----------------------------------------------------------------------------
(* Deliveries: one step is one statement or command of the handler.        *)

At(d, step) == job[d].at = step

\* The handler of d goes on at step.
Goto(d, step) == job' = [job EXCEPT ![d].at = step]
GotoWithOrg(d, step, o) == job' = [job EXCEPT ![d] = [@ EXCEPT !.at = step, !.org = o]]
GotoWithKey(d, step, k) == job' = [job EXCEPT ![d] = [@ EXCEPT !.at = step, !.key = k]]

DeliverCompleted(d, s) ==
    /\ At(d, "idle")
    /\ Opened(s)
    /\ job' = [job EXCEPT ![d] =
                 [at |-> IF SignsUp(s) THEN "find" ELSE "apply", kind |-> "completed",
                  session |-> s, org |-> checkout[s].org, key |-> NoKey]]
    /\ UNCHANGED <<stripeVars, orgVars, setupVars, history>>

DeliverDeleted(d, s) ==
    /\ At(d, "idle")
    /\ s \in cancelled
    /\ job' = [job EXCEPT ![d] =
                 [at |-> "downgrade", kind |-> "deleted", session |-> s,
                  org |-> NoOrg, key |-> NoKey]]
    /\ UNCHANGED <<stripeVars, orgVars, setupVars, history>>

\* A seeded bug: ErrNotFound goes unnoticed.
FindOrgUnchecked(d) ==
    LET e == checkout[job[d].session].email IN
    /\ At(d, "find")
    /\ \/ \E o \in Holders(e) : GotoWithOrg(d, "apply", o)
       \/ Holders(e) = {} /\ Goto(d, "apply")
    /\ UNCHANGED <<stripeVars, orgVars, setupVars, history>>

\* A seeded bug: the address is not compared in full.
FindOrgLoosely(d) ==
    /\ At(d, "find")
    /\ \/ \E o \in orgs : GotoWithOrg(d, "apply", o)
       \/ orgs = {} /\ Goto(d, "insert")
    /\ UNCHANGED <<stripeVars, orgVars, setupVars, history>>

\* FindOrgByEmail, by the provisioner and again by CreateOrgWithEmail.
FindOrgByEmail(d) ==
    LET e == checkout[job[d].session].email IN
    /\ At(d, "find")
    /\ \/ \E o \in Holders(e) : GotoWithOrg(d, "apply", o)
       \/ Holders(e) = {} /\ Goto(d, "insert")
    /\ UNCHANGED <<stripeVars, orgVars, setupVars, history>>

\* A seeded bug: no unique index on emails.
InsertOrgUnindexed(d) ==
    /\ At(d, "insert")
    /\ \E o \in Org \ orgs :
         /\ orgs' = orgs \cup {o}
         /\ org' = [org EXCEPT ![o] = NewRow(checkout[job[d].session].email)]
         /\ GotoWithOrg(d, "apply", o)
    /\ UNCHANGED <<stripeVars, registered, seeded, keyOrg, setupVars, history>>

\* The unique index on emails refuses a second row: the delivery fails.
InsertOrg(d) ==
    LET e == checkout[job[d].session].email IN
    /\ At(d, "insert")
    /\ \/ /\ Holders(e) = {}
          /\ \E o \in Org \ orgs :
               /\ orgs' = orgs \cup {o}
               /\ org' = [org EXCEPT ![o] = NewRow(e)]
               /\ GotoWithOrg(d, "apply", o)
       \/ /\ Holders(e) # {}
          /\ job' = [job EXCEPT ![d] = Idle]
          /\ UNCHANGED <<orgs, org>>
    /\ UNCHANGED <<stripeVars, registered, seeded, keyOrg, setupVars, history>>

\* A seeded bug: the key is minted first, the bucket left to a later call.
ApplyCheckoutThenKey(d) ==
    LET s == job[d].session IN
    /\ At(d, "apply")
    /\ org' = [org EXCEPT ![job[d].org] = [@ EXCEPT !.plan = checkout[s].plan, !.sub = s]]
    /\ Goto(d, IF SignsUp(s) THEN "key" ELSE "answer")
    /\ UNCHANGED <<stripeVars, orgs, registered, seeded, keyOrg, setupVars, history>>

\* An operator's checkout ends here; a signup goes on.
ApplyCheckoutCompleted(d) ==
    LET s == job[d].session IN
    /\ At(d, "apply")
    /\ org' = [org EXCEPT ![job[d].org] = [@ EXCEPT !.plan = checkout[s].plan, !.sub = s]]
    /\ Goto(d, IF SignsUp(s) THEN "bucket" ELSE "answer")
    /\ UNCHANGED <<stripeVars, orgs, registered, seeded, keyOrg, setupVars, history>>

SetDefaultBucket(d) ==
    /\ At(d, "bucket")
    /\ org' = [org EXCEPT ![job[d].org].bucket = TRUE]
    /\ Goto(d, "register")
    /\ UNCHANGED <<stripeVars, orgs, registered, seeded, keyOrg, setupVars, history>>

UpsertBucket(d) ==
    /\ At(d, "register")
    /\ registered' = registered \cup {job[d].org}
    /\ Goto(d, "seed")
    /\ UNCHANGED <<stripeVars, orgs, org, seeded, keyOrg, setupVars, history>>

\* A seeded bug: an error of the seeding is logged, not returned.
SeedTrialBestEffort(d) ==
    /\ At(d, "seed")
    /\ seeded' \in {seeded, seeded \cup {job[d].org}}
    /\ Goto(d, "key")
    /\ UNCHANGED <<stripeVars, orgs, org, registered, keyOrg, setupVars, history>>

SeedTrial(d) ==
    /\ At(d, "seed")
    /\ seeded' = seeded \cup {job[d].org}
    /\ Goto(d, "key")
    /\ UNCHANGED <<stripeVars, orgs, org, registered, keyOrg, setupVars, history>>

CreateAPIKey(d) ==
    /\ At(d, "key")
    /\ \E k \in Key :
         /\ keyOrg[k] = NoOrg
         /\ keyOrg' = [keyOrg EXCEPT ![k] = job[d].org]
         /\ GotoWithKey(d, "secret", k)
    /\ UNCHANGED <<stripeVars, orgs, org, registered, seeded, setupVars, history>>

\* PutSetupSecret is a pipeline of two SETs, not a transaction.
PutSecret(d) ==
    /\ At(d, "secret")
    /\ secret' = [secret EXCEPT ![job[d].session] = job[d].key]
    /\ Goto(d, "setuporg")
    /\ UNCHANGED <<stripeVars, orgVars, setupOrg, history>>

PutSetupOrg(d) ==
    /\ At(d, "setuporg")
    /\ setupOrg' = [setupOrg EXCEPT ![job[d].session] = job[d].org]
    /\ Goto(d, "answer")
    /\ UNCHANGED <<stripeVars, orgVars, secret, history>>

\* A seeded bug: the subscription id stays.
DowngradeKeepsSubscription(d) ==
    /\ At(d, "downgrade")
    /\ org' = [o \in Org |->
                 IF o \in Subscribed(job[d].session) THEN [org[o] EXCEPT !.plan = "trial"]
                 ELSE org[o]]
    /\ Goto(d, "answer")
    /\ UNCHANGED <<stripeVars, orgs, registered, seeded, keyOrg, setupVars, history>>

\* A seeded bug: the org is found by its customer, not by the subscription.
DowngradeByCustomer(d) ==
    /\ At(d, "downgrade")
    /\ org' = [o \in Org |->
                 IF o \in Holders(checkout[job[d].session].email)
                 THEN [org[o] EXCEPT !.plan = "trial", !.sub = NoSession]
                 ELSE org[o]]
    /\ Goto(d, "answer")
    /\ UNCHANGED <<stripeVars, orgs, registered, seeded, keyOrg, setupVars, history>>

\* An UPDATE that matches no row is answered 200 as well.
DowngradeBySubscription(d) ==
    /\ At(d, "downgrade")
    /\ org' = [o \in Org |->
                 IF o \in Subscribed(job[d].session)
                 THEN [org[o] EXCEPT !.plan = "trial", !.sub = NoSession]
                 ELSE org[o]]
    /\ Goto(d, "answer")
    /\ UNCHANGED <<stripeVars, orgs, registered, seeded, keyOrg, setupVars, history>>

Acknowledge(d) ==
    /\ At(d, "answer")
    /\ IF job[d].kind = "completed"
       THEN acked' = acked \cup {job[d].session} /\ UNCHANGED ended
       ELSE ended' = ended \cup {job[d].session} /\ UNCHANGED acked
    /\ job' = [job EXCEPT ![d] = Idle]
    /\ UNCHANGED <<stripeVars, orgVars, setupVars, revealed>>

\* A statement or a command fails, or the process dies, or the answer is lost.
Fail(d) ==
    /\ ~At(d, "idle")
    /\ job' = [job EXCEPT ![d] = Idle]
    /\ UNCHANGED <<stripeVars, orgVars, setupVars, history>>

-----------------------------------------------------------------------------
(* The setup page, the account page and the operator.                      *)

\* GET /setup takes the key with GETDEL.  Whoever opened s has its URL.
TakeSetupSecret(s) ==
    /\ secret[s] # NoKey
    /\ secret' = [secret EXCEPT ![s] = NoKey]
    /\ revealed' = [revealed EXCEPT ![s] = @ \cup {secret[s]}]
    /\ UNCHANGED <<stripeVars, orgVars, setupOrg, job, acked, ended>>

SaveSlack(o, who) ==
    /\ org' = [org EXCEPT ![o].slack = who]
    /\ UNCHANGED <<stripeVars, orgs, registered, seeded, keyOrg, setupVars, job, history>>

\* POST /setup/slack: the org is the one bound to the session.
SetupSlack(s) ==
    /\ setupOrg[s] # NoOrg
    /\ SaveSlack(setupOrg[s], checkout[s].email)

\* POST /account/slack and PATCH /me/slack: the org is that of a key the customer has.
AccountSlack(s, k) ==
    /\ k \in revealed[s]
    /\ SaveSlack(keyOrg[k], checkout[s].email)

\* The operator's webhook, or none: no customer's.
AdminPatchOrg(o) ==
    /\ o \in orgs
    /\ SaveSlack(o, NoOne)

AdminCreateOrg(o) ==
    /\ o \in Org \ orgs
    /\ orgs' = orgs \cup {o}
    /\ org' = [org EXCEPT ![o] = NewRow(NoOne)]
    /\ UNCHANGED <<stripeVars, registered, seeded, keyOrg, setupVars, job, history>>

AdminCreateKey(o, k) ==
    /\ o \in orgs
    /\ keyOrg[k] = NoOrg
    /\ keyOrg' = [keyOrg EXCEPT ![k] = o]
    /\ UNCHANGED <<stripeVars, orgs, org, registered, seeded, setupVars, job, history>>

\* Both keys live 15 minutes from their own SET.  A page whose answer is lost
\* takes the key like an expiry.
ExpireSecret(s) ==
    /\ secret[s] # NoKey
    /\ secret' = [secret EXCEPT ![s] = NoKey]
    /\ UNCHANGED <<stripeVars, orgVars, setupOrg, job, history>>

ExpireSetupOrg(s) ==
    /\ setupOrg[s] # NoOrg
    /\ setupOrg' = [setupOrg EXCEPT ![s] = NoOrg]
    /\ UNCHANGED <<stripeVars, orgVars, secret, job, history>>

-----------------------------------------------------------------------------
Handle(d) ==
    \/ FindOrgByEmail(d) \/ InsertOrg(d) \/ ApplyCheckoutCompleted(d)
    \/ SetDefaultBucket(d) \/ UpsertBucket(d) \/ SeedTrial(d) \/ CreateAPIKey(d)
    \/ PutSecret(d) \/ PutSetupOrg(d) \/ DowngradeBySubscription(d)
    \/ Acknowledge(d) \/ Fail(d)

Next ==
    \/ \E s \in Session, e \in Email, p \in Plan : StartPublicCheckout(s, e, p)
    \/ \E s \in Session, o \in Org, p \in Paid : StartCheckout(s, o, p)
    \/ \E s \in Session : CancelSubscription(s)
    \/ \E d \in Delivery, s \in Session : DeliverCompleted(d, s) \/ DeliverDeleted(d, s)
    \/ \E d \in Delivery : Handle(d)
    \/ \E s \in Session : TakeSetupSecret(s) \/ SetupSlack(s)
    \/ \E s \in Session, k \in Key : AccountSlack(s, k)
    \/ \E o \in Org : AdminPatchOrg(o) \/ AdminCreateOrg(o)
    \/ \E o \in Org, k \in Key : AdminCreateKey(o, k)
    \/ \E s \in Session : ExpireSecret(s) \/ ExpireSetupOrg(s)

Spec == Init /\ [][Next]_vars

-----------------------------------------------------------------------------
(* Properties                                                              *)

\* The org a session is about.
Concerns(s, o) ==
    /\ o \in orgs
    /\ \/ checkout[s].org = o
       \/ SignsUp(s) /\ org[o].email = checkout[s].email

\* Two deliveries for one address that both found no org leave one row, not two
\* (provision.go:61, org_postgres.go:81).
OneOrgPerEmail ==
    \A o, u \in orgs : org[o].email = org[u].email => o = u \/ org[o].email = NoOne

\* The key the setup page of a session will reveal, and the org its form will
\* write to, are those of the customer who opened it, and the default bucket the
\* key leads to is set, registered and seeded: the secret is stored last
\* (provision.go:67-90).
SetupLeadsHome ==
    \A s \in Session :
        /\ secret[s] # NoKey =>
             /\ SignsUp(s)
             /\ Concerns(s, keyOrg[secret[s]])
             /\ org[keyOrg[secret[s]]].bucket
             /\ keyOrg[secret[s]] \in registered \cap seeded
        /\ setupOrg[s] # NoOrg => SignsUp(s) /\ Concerns(s, setupOrg[s])

\* Whichever way a customer's Slack webhook arrives (setup form, account page,
\* PATCH /me/slack), it is stored in that customer's org and in no other
\* (signup/handler.go:164, account/handler.go:152).
WebhookStaysHome ==
    \A o \in orgs : org[o].slack \in Email => org[o].slack = org[o].email

\* An org's plan is the plan its subscription was bought for, and trial without
\* one: no half of a checkout or of a cancellation is ever stored
\* (org_postgres.go:180-209).
PlanFollowsSubscription ==
    \A o \in orgs :
        IF org[o].sub = NoSession
        THEN org[o].plan = "trial"
        ELSE org[o].plan = checkout[org[o].sub].plan /\ Concerns(org[o].sub, o)

\* A signup answered 200, which Stripe will not deliver again, left nothing to
\* do: its customer has an org with a bucket, tokens and a key
\* (service.go:275-276).
AckedIsProvisioned ==
    \A s \in acked : SignsUp(s) =>
        \E o \in orgs :
            /\ Concerns(s, o)
            /\ org[o].bucket
            /\ o \in registered \cap seeded
            /\ \E k \in Key : keyOrg[k] = o

\* An org loses its subscription only by that subscription's own end; the end of
\* one it has replaced leaves it alone (org_postgres.go:200).
OnlyItsEndDowngrades ==
    [][\A o \in orgs :
         org[o].sub # NoSession /\ org'[o].sub = NoSession => org[o].sub \in cancelled]_vars

\* Violated.  RUNBOOK.md:133, "On customer.subscription.deleted, plan returns to
\* trial": once the end of a subscription is answered 200, no org has it.
EndedIsDowngraded ==
    \A s \in ended : Subscribed(s) = {}

=============================================================================
