------------------------- MODULE ProvisioningProofs -------------------------
(***************************************************************************)
(* Proofs about Provisioning, for any deliveries, sessions, customers,     *)
(* orgs, keys and plans.                                                   *)
(*                                                                         *)
(* Kept says what no step ever takes back: an opened session stays what it *)
(* is, and an org keeps its address, its bucket, its counter and its keys. *)
(* Each part of the invariant then needs an argument only for the steps    *)
(* that write the state it speaks of.                                      *)
(***************************************************************************)
EXTENDS Provisioning, TLAPS

-----------------------------------------------------------------------------
(* The inductive invariant                                                 *)

\* An operator's session is for an org that exists, and signs nobody up.
CheckoutsOK ==
    \A s \in Session : checkout[s].org # NoOrg =>
        checkout[s].org \in orgs /\ checkout[s].email = NoOne

\* The customer of s has an org with a bucket, tokens and a key.
Provisioned(s) ==
    \E o \in orgs :
        /\ Concerns(s, o)
        /\ org[o].bucket
        /\ o \in registered \cap seeded
        /\ \E k \in Key : keyOrg[k] = o

OrgKnown == {"apply", "bucket", "register", "seed", "key", "secret", "setuporg"}
ForSignup == {"find", "insert", "bucket", "register", "seed", "key", "secret", "setuporg"}

\* What a handler has done is done: the org it writes to is its session's, and
\* each write it has passed is in the stores.
JobOK(d) ==
    /\ job[d].at # "idle" => job[d].session \in Session /\ Opened(job[d].session)
    /\ job[d].at \in ForSignup => SignsUp(job[d].session)
    /\ job[d].at \in ForSignup \cup OrgKnown => job[d].kind = "completed"
    /\ job[d].at \in OrgKnown => Concerns(job[d].session, job[d].org)
    /\ job[d].at \in OrgKnown \ {"apply", "bucket"} => org[job[d].org].bucket
    /\ job[d].at \in {"seed", "key", "secret", "setuporg"} => job[d].org \in registered
    /\ job[d].at \in {"key", "secret", "setuporg"} => job[d].org \in seeded
    /\ job[d].at \in {"secret", "setuporg"} =>
         job[d].key \in Key /\ keyOrg[job[d].key] = job[d].org
    /\ job[d].at = "downgrade" => job[d].kind = "deleted" /\ job[d].session \in cancelled
    /\ job[d].at = "answer" /\ job[d].kind = "completed" /\ SignsUp(job[d].session) =>
         Provisioned(job[d].session)

JobsOK == \A d \in Delivery : JobOK(d)

\* A key a setup page has shown is one of its customer's org.
RevealedHome ==
    \A s \in Session : \A k \in revealed[s] : SignsUp(s) /\ Concerns(s, keyOrg[k])

AckedOpened == \A s \in acked : Opened(s)
CancelledOpened == \A s \in cancelled : Opened(s)

\* CheckoutsOK to AckedIsProvisioned, one for each thing the code promises.
ProvisioningInv ==
    /\ TypeOK
    /\ CheckoutsOK
    /\ JobsOK
    /\ RevealedHome
    /\ AckedOpened
    /\ CancelledOpened
    /\ OneOrgPerEmail
    /\ SetupLeadsHome
    /\ WebhookStaysHome
    /\ PlanFollowsSubscription
    /\ AckedIsProvisioned

\* What no step takes back.
Kept ==
    /\ \A s \in Session : Opened(s) => checkout'[s] = checkout[s]
    /\ cancelled \subseteq cancelled'
    /\ orgs \subseteq orgs'
    /\ \A o \in orgs : org'[o].email = org[o].email
    /\ \A o \in orgs : org[o].bucket => org'[o].bucket
    /\ registered \subseteq registered'
    /\ seeded \subseteq seeded'
    /\ \A k \in Key : keyOrg[k] # NoOrg => keyOrg'[k] = keyOrg[k]

-----------------------------------------------------------------------------
LEMMA InitInv == ASSUME ProvisioningAssumption, Init PROVE ProvisioningInv
<1>1. TypeOK
  BY DEF ProvisioningAssumption, Init, TypeOK, Checkout, Unopened, Plan, Row, NewRow, Job, Step, Idle
<1>2. CheckoutsOK /\ RevealedHome /\ AckedOpened /\ CancelledOpened
  BY DEF Init, CheckoutsOK, RevealedHome, AckedOpened, CancelledOpened, Unopened
<1>3. JobsOK
  BY DEF Init, JobsOK, JobOK, Idle, ForSignup, OrgKnown
<1>4. OneOrgPerEmail /\ SetupLeadsHome /\ WebhookStaysHome
  BY DEF Init, OneOrgPerEmail, SetupLeadsHome, WebhookStaysHome
<1>5. PlanFollowsSubscription /\ AckedIsProvisioned
  BY DEF Init, PlanFollowsSubscription, AckedIsProvisioned
<1> QED BY <1>1, <1>2, <1>3, <1>4, <1>5 DEF ProvisioningInv

\* The org a handler writes to exists.
LEMMA JobsOrg ==
    ASSUME ProvisioningInv, NEW d \in Delivery, job[d].at \in OrgKnown
    PROVE  /\ job[d].org \in orgs
           /\ job[d].org \in Org
           /\ job[d].session \in Session
BY DEF ProvisioningInv, JobsOK, JobOK, OrgKnown, Concerns, TypeOK

\* A handler's record keeps its type, and a row its own, whatever is written.
LEMMA JobTypes ==
    /\ Idle \in Job
    /\ \A j \in Job, step \in Step : [j EXCEPT !.at = step] \in Job
    /\ \A j \in Job, step \in Step, o \in Org : [j EXCEPT !.at = step, !.org = o] \in Job
    /\ \A j \in Job, step \in Step, k \in Key : [j EXCEPT !.at = step, !.key = k] \in Job
<1>1. Idle \in Job
  BY DEF Idle, Job, Step
<1>2. \A j \in Job, step \in Step : [j EXCEPT !.at = step] \in Job
  BY DEF Job
<1>3. \A j \in Job, step \in Step, o \in Org : [j EXCEPT !.at = step, !.org = o] \in Job
  BY DEF Job
<1>4. \A j \in Job, step \in Step, k \in Key : [j EXCEPT !.at = step, !.key = k] \in Job
  BY DEF Job
<1> QED BY <1>1, <1>2, <1>3, <1>4

LEMMA RowTypes ==
    /\ \A e \in Email \cup {NoOne} : NewRow(e) \in Row
    /\ \A r \in Row, p \in Plan, s \in Session :
          [r EXCEPT !.plan = p, !.sub = s] \in Row
    /\ \A r \in Row : [r EXCEPT !.bucket = TRUE] \in Row
    /\ \A r \in Row : [r EXCEPT !.plan = "trial", !.sub = NoSession] \in Row
    /\ \A r \in Row, w \in Email \cup {NoOne} : [r EXCEPT !.slack = w] \in Row
BY DEF Row, NewRow, Plan

\* Deliveries that only move on, or write to the orgs.
LEMMA HandleTypes ==
    ASSUME ProvisioningAssumption, ProvisioningInv, NEW d \in Delivery, Handle(d)
    PROVE  TypeOK'
<1> USE DEF TypeOK
<1>0. TypeOK /\ job[d] \in Job
  BY DEF ProvisioningInv
<1>1. CASE FindOrgByEmail(d)
  <2>1. job' \in [Delivery -> Job]
    <3>1. CASE \E o \in Holders(checkout[job[d].session].email) : GotoWithOrg(d, "apply", o)
      <4>1. PICK o \in Holders(checkout[job[d].session].email) : GotoWithOrg(d, "apply", o)
        BY <3>1
      <4>2. o \in Org /\ "apply" \in Step
        BY <1>0 DEF Holders, Step
      <4>3. [job[d] EXCEPT !.at = "apply", !.org = o] \in Job
        BY <1>0, <4>2, JobTypes
      <4> QED BY <1>0, <4>1, <4>3 DEF GotoWithOrg
    <3>2. CASE Goto(d, "insert")
      BY <1>0, <3>2 DEF Step, Goto, Job
    <3> QED BY <1>1, <3>1, <3>2 DEF FindOrgByEmail
  <2> QED BY <1>0, <1>1, <2>1 DEF FindOrgByEmail, stripeVars, orgVars, setupVars, history
<1>2. CASE InsertOrg(d)
  <2>0. checkout[job[d].session].email \in Email \cup {NoOne}
    <3>1. job[d].session \in Session
      BY <1>2 DEF ProvisioningInv, JobsOK, JobOK, InsertOrg, At
    <3> QED BY <1>0, <3>1 DEF Checkout
  <2>1. job' \in [Delivery -> Job] /\ orgs' \subseteq Org /\ org' \in [Org -> Row]
    <3>1. CASE orgs' = orgs /\ org' = org /\ job' = [job EXCEPT ![d] = Idle]
      BY <1>0, <3>1 DEF Idle, Job, Step
    <3>2. CASE \E o \in Org \ orgs :
                 /\ orgs' = orgs \cup {o}
                 /\ org' = [org EXCEPT ![o] = NewRow(checkout[job[d].session].email)]
                 /\ GotoWithOrg(d, "apply", o)
      <4>1. PICK o \in Org \ orgs :
                 /\ orgs' = orgs \cup {o}
                 /\ org' = [org EXCEPT ![o] = NewRow(checkout[job[d].session].email)]
                 /\ GotoWithOrg(d, "apply", o)
        BY <3>2
      <4>2. "apply" \in Step
        BY DEF Step
      <4>3. [job[d] EXCEPT !.at = "apply", !.org = o] \in Job
        BY <1>0, <4>2, JobTypes
      <4>4. job' \in [Delivery -> Job]
        BY <1>0, <4>1, <4>3 DEF GotoWithOrg
      <4>5. org' \in [Org -> Row]
        BY <1>0, <4>1, <2>0, RowTypes
      <4> QED BY <1>0, <4>1, <4>4, <4>5
    <3> QED BY <1>2, <3>1, <3>2 DEF InsertOrg
  <2> QED BY <1>0, <1>2, <2>1 DEF InsertOrg, stripeVars, setupVars, history
<1>3. CASE ApplyCheckoutCompleted(d)
  <2>1. job[d].org \in Org /\ job[d].session \in Session
    BY <1>3, JobsOrg DEF ApplyCheckoutCompleted, At, OrgKnown
  <2>2. org' \in [Org -> Row]
    <3>1. checkout[job[d].session].plan \in Plan
      BY <1>0, <2>1 DEF Checkout
    <3>2. [org[job[d].org] EXCEPT !.plan = checkout[job[d].session].plan,
                                  !.sub = job[d].session] \in Row
      BY <1>0, <2>1, <3>1, RowTypes
    <3> QED BY <1>0, <1>3, <2>1, <3>2 DEF ApplyCheckoutCompleted
  <2>3. job' \in [Delivery -> Job]
    BY <1>0, <1>3 DEF ApplyCheckoutCompleted, Goto, Job, Step
  <2> QED BY <1>0, <1>3, <2>2, <2>3 DEF ApplyCheckoutCompleted, stripeVars, setupVars, history
<1>4. CASE SetDefaultBucket(d)
  <2>1. job[d].org \in Org
    BY <1>4, JobsOrg DEF SetDefaultBucket, At, OrgKnown
  <2>2. org' \in [Org -> Row]
    BY <1>0, <1>4, <2>1, RowTypes DEF SetDefaultBucket
  <2>3. job' \in [Delivery -> Job]
    BY <1>0, <1>4 DEF SetDefaultBucket, Goto, Job, Step
  <2> QED BY <1>0, <1>4, <2>2, <2>3 DEF SetDefaultBucket, stripeVars, setupVars, history
<1>5. CASE UpsertBucket(d) \/ SeedTrial(d)
  <2>1. job[d].org \in Org
    BY <1>5, JobsOrg DEF UpsertBucket, SeedTrial, At, OrgKnown
  <2>2. job' \in [Delivery -> Job]
    BY <1>0, <1>5 DEF UpsertBucket, SeedTrial, Goto, Job, Step
  <2> QED BY <1>0, <1>5, <2>1, <2>2 DEF UpsertBucket, SeedTrial, stripeVars, setupVars, history
<1>6. CASE CreateAPIKey(d)
  <2>1. job[d].org \in Org
    BY <1>6, JobsOrg DEF CreateAPIKey, At, OrgKnown
  <2>2. job' \in [Delivery -> Job]
    <3>1. PICK k \in Key : GotoWithKey(d, "secret", k)
      BY <1>6 DEF CreateAPIKey
    <3>2. "secret" \in Step
      BY DEF Step
    <3>3. [job[d] EXCEPT !.at = "secret", !.key = k] \in Job
      BY <1>0, <3>2, JobTypes
    <3> QED BY <1>0, <3>1, <3>3 DEF GotoWithKey
  <2>3. keyOrg' \in [Key -> Org \cup {NoOrg}]
    BY <1>0, <1>6, <2>1 DEF CreateAPIKey
  <2> QED BY <1>0, <1>6, <2>2, <2>3 DEF CreateAPIKey, stripeVars, setupVars, history
<1>7. CASE PutSecret(d) \/ PutSetupOrg(d)
  <2>1. job' \in [Delivery -> Job]
    BY <1>0, <1>7 DEF PutSecret, PutSetupOrg, Goto, Job, Step
  <2>2. job[d].key \in Key \cup {NoKey} /\ job[d].org \in Org \cup {NoOrg}
    BY <1>0 DEF Job
  <2> QED BY <1>0, <1>7, <2>1, <2>2 DEF PutSecret, PutSetupOrg, stripeVars, orgVars, history
<1>8. CASE DowngradeBySubscription(d)
  <2>1. job' \in [Delivery -> Job]
    BY <1>0, <1>8 DEF DowngradeBySubscription, Goto, Job, Step
  <2>2. org' \in [Org -> Row]
    BY <1>0, <1>8, RowTypes DEF DowngradeBySubscription
  <2> QED BY <1>0, <1>8, <2>1, <2>2 DEF DowngradeBySubscription, stripeVars, setupVars, history
<1>9. CASE Acknowledge(d) \/ Fail(d)
  <2>1. job' \in [Delivery -> Job]
    BY <1>0, <1>9 DEF Acknowledge, Fail, Idle, Job, Step
  <2>2. Acknowledge(d) => job[d].session \in Session
    BY DEF ProvisioningInv, JobsOK, JobOK, Acknowledge, At
  <2> QED BY <1>0, <1>9, <2>1, <2>2 DEF Acknowledge, Fail, stripeVars, orgVars, setupVars, history
<1> QED BY <1>1, <1>2, <1>3, <1>4, <1>5, <1>6, <1>7, <1>8, <1>9 DEF Handle

\* The org a customer saves a webhook for exists, and is the customer's.
LEMMA SaverOwns ==
    ASSUME ProvisioningAssumption, ProvisioningInv, NEW s \in Session
    PROVE  /\ setupOrg[s] # NoOrg => SignsUp(s) /\ Concerns(s, setupOrg[s])
           /\ \A k \in revealed[s] :
                SignsUp(s) /\ k \in Key /\ keyOrg[k] # NoOrg /\ Concerns(s, keyOrg[k])
BY DEF ProvisioningAssumption, ProvisioningInv, SetupLeadsHome, RevealedHome, TypeOK, Concerns

\* The other steps: checkouts, customers, the operator, time.
Outside ==
    \/ \E s \in Session, e \in Email, p \in Plan : StartPublicCheckout(s, e, p)
    \/ \E s \in Session, o \in Org, p \in Paid : StartCheckout(s, o, p)
    \/ \E s \in Session : CancelSubscription(s)
    \/ \E d \in Delivery, s \in Session : DeliverCompleted(d, s) \/ DeliverDeleted(d, s)
    \/ \E s \in Session : TakeSetupSecret(s) \/ ExpireSecret(s) \/ ExpireSetupOrg(s)
    \/ \E o \in Org : AdminCreateOrg(o)
    \/ \E o \in Org, k \in Key : AdminCreateKey(o, k)

\* Someone saves a webhook: an operator, or a customer for an org of their own.
Saved ==
    \E o \in orgs, w \in Email \cup {NoOne} :
        /\ SaveSlack(o, w)
        /\ w = org[o].email \/ w = NoOne

LEMMA SavedHome ==
    ASSUME ProvisioningAssumption, ProvisioningInv,
           \/ \E s \in Session : SetupSlack(s)
           \/ \E s \in Session, k \in Key : AccountSlack(s, k)
           \/ \E o \in Org : AdminPatchOrg(o)
    PROVE  Saved
<1>0. \A s \in Session, o \in Org :
         SignsUp(s) /\ Concerns(s, o) => checkout[s].email = org[o].email /\ o \in orgs
  BY DEF ProvisioningAssumption, ProvisioningInv, CheckoutsOK, Concerns, SignsUp, TypeOK
<1>00. \A s \in Session : checkout[s].email \in Email \cup {NoOne}
  BY DEF ProvisioningInv, TypeOK, Checkout
<1>1. ASSUME NEW s \in Session, SetupSlack(s) PROVE Saved
  <2>1. setupOrg[s] \in orgs /\ checkout[s].email = org[setupOrg[s]].email
    BY <1>0, <1>1, SaverOwns DEF SetupSlack, Concerns, ProvisioningInv, TypeOK
  <2> QED BY <1>00, <1>1, <2>1 DEF SetupSlack, Saved
<1>2. ASSUME NEW s \in Session, NEW k \in Key, AccountSlack(s, k) PROVE Saved
  <2>1. keyOrg[k] \in orgs /\ checkout[s].email = org[keyOrg[k]].email
    BY <1>0, <1>2, SaverOwns DEF AccountSlack, Concerns, ProvisioningInv, TypeOK
  <2> QED BY <1>00, <1>2, <2>1 DEF AccountSlack, Saved
<1>3. ASSUME NEW o \in Org, AdminPatchOrg(o) PROVE Saved
  BY <1>3 DEF AdminPatchOrg, Saved
<1> QED BY <1>1, <1>2, <1>3

\* Every step is one of these.
LEMMA StepCases ==
    ASSUME ProvisioningAssumption, ProvisioningInv, [Next]_vars
    PROVE  (\E d \in Delivery : Handle(d)) \/ Outside \/ Saved \/ UNCHANGED vars
BY SavedHome DEF Next, Outside

LEMMA OutsideTypes ==
    ASSUME ProvisioningAssumption, ProvisioningInv, Outside
    PROVE  TypeOK'
<1> USE DEF TypeOK
<1>0. TypeOK
  BY DEF ProvisioningInv
<1>1. ASSUME NEW s \in Session, NEW e \in Email, NEW p \in Plan, StartPublicCheckout(s, e, p)
      PROVE  TypeOK'
  <2>1. [org |-> NoOrg, email |-> e, plan |-> p] \in Checkout
    BY DEF Checkout
  <2> QED BY <1>0, <1>1, <2>1 DEF StartPublicCheckout, orgVars, setupVars, history
<1>2. ASSUME NEW s \in Session, NEW o \in Org, NEW p \in Paid, StartCheckout(s, o, p)
      PROVE  TypeOK'
  <2>1. [org |-> o, email |-> NoOne, plan |-> p] \in Checkout
    BY DEF Checkout, Plan
  <2> QED BY <1>0, <1>2, <2>1 DEF StartCheckout, orgVars, setupVars, history
<1>3. ASSUME NEW s \in Session, CancelSubscription(s) PROVE TypeOK'
  BY <1>0, <1>3 DEF CancelSubscription, orgVars, setupVars, history
<1>4. ASSUME NEW d \in Delivery, NEW s \in Session,
             DeliverCompleted(d, s) \/ DeliverDeleted(d, s)
      PROVE  TypeOK'
  <2>1. [at |-> IF SignsUp(s) THEN "find" ELSE "apply", kind |-> "completed",
         session |-> s, org |-> checkout[s].org, key |-> NoKey] \in Job
    BY <1>0 DEF Job, Step, Checkout
  <2>2. [at |-> "downgrade", kind |-> "deleted", session |-> s,
         org |-> NoOrg, key |-> NoKey] \in Job
    BY DEF Job, Step
  <2>3. job' \in [Delivery -> Job]
    BY <1>0, <1>4, <2>1, <2>2 DEF DeliverCompleted, DeliverDeleted
  <2> QED BY <1>0, <1>4, <2>3 DEF DeliverCompleted, DeliverDeleted, stripeVars, orgVars, setupVars, history
<1>5. ASSUME NEW s \in Session, TakeSetupSecret(s) \/ ExpireSecret(s) \/ ExpireSetupOrg(s)
      PROVE  TypeOK'
  <2>1. TakeSetupSecret(s) => revealed' \in [Session -> SUBSET Key]
    BY <1>0 DEF TakeSetupSecret
  <2> QED BY <1>0, <1>5, <2>1 DEF TakeSetupSecret, ExpireSecret, ExpireSetupOrg, stripeVars, orgVars, history
<1>6. ASSUME NEW o \in Org, AdminCreateOrg(o) PROVE TypeOK'
  BY <1>0, <1>6, RowTypes DEF AdminCreateOrg, stripeVars, setupVars, history
<1>7. ASSUME NEW o \in Org, NEW k \in Key, AdminCreateKey(o, k) PROVE TypeOK'
  BY <1>0, <1>7 DEF AdminCreateKey, stripeVars, setupVars, history
<1> QED BY <1>1, <1>2, <1>3, <1>4, <1>5, <1>6, <1>7 DEF Outside

LEMMA TypeStep ==
    ASSUME ProvisioningAssumption, ProvisioningInv, [Next]_vars
    PROVE  TypeOK'
<1>1. CASE \E d \in Delivery : Handle(d)
  BY <1>1, HandleTypes
<1>2. CASE Outside
  BY <1>2, OutsideTypes
<1>3. CASE Saved
  <2>1. PICK o \in orgs, w \in Email \cup {NoOne} : SaveSlack(o, w)
    BY <1>3 DEF Saved
  <2>2. TypeOK /\ o \in Org
    BY DEF ProvisioningInv, TypeOK
  <2> QED BY <2>1, <2>2, RowTypes DEF SaveSlack, TypeOK, stripeVars, setupVars, history
<1>4. CASE UNCHANGED vars
  BY <1>4 DEF ProvisioningInv, TypeOK, vars, stripeVars, orgVars, setupVars, history
<1> QED BY <1>1, <1>2, <1>3, <1>4, StepCases

-----------------------------------------------------------------------------
(* What a step does to the orgs                                            *)

\* No row changes.
RowsSame == orgs' = orgs /\ org' = org

\* One row is inserted, and its address was nobody's.
RowInserted ==
    \E o \in Org \ orgs, e \in Email \cup {NoOne} :
        /\ orgs' = orgs \cup {o}
        /\ org' = [org EXCEPT ![o] = NewRow(e)]
        /\ Holders(e) = {} \/ e = NoOne

\* A checkout is applied to the org it is about.
RowBought ==
    \E o \in orgs, s \in Session :
        /\ Concerns(s, o)
        /\ Opened(s)
        /\ orgs' = orgs
        /\ org' = [org EXCEPT ![o] = [@ EXCEPT !.plan = checkout[s].plan, !.sub = s]]

\* The orgs of a subscription that ended go back to trial.
RowsEnded ==
    \E s \in cancelled :
        /\ orgs' = orgs
        /\ org' = [o \in Org |-> IF o \in Subscribed(s)
                                THEN [org[o] EXCEPT !.plan = "trial", !.sub = NoSession]
                                ELSE org[o]]

\* A default bucket is set, or a webhook saved for its owner or for no customer.
RowSet ==
    \E o \in orgs, w \in Email \cup {NoOne} :
        /\ orgs' = orgs
        /\ \/ org' = [org EXCEPT ![o].bucket = TRUE]
           \/ org' = [org EXCEPT ![o].slack = w] /\ (w = org[o].email \/ w = NoOne)

LEMMA RowCases ==
    ASSUME ProvisioningAssumption, ProvisioningInv, [Next]_vars
    PROVE  RowsSame \/ RowInserted \/ RowBought \/ RowsEnded \/ RowSet
<1>0. TypeOK /\ JobsOK
  BY DEF ProvisioningInv
<1>1. ASSUME NEW d \in Delivery, Handle(d)
      PROVE  RowsSame \/ RowInserted \/ RowBought \/ RowsEnded \/ RowSet
  <2>1. CASE InsertOrg(d)
    <3>1. checkout[job[d].session].email \in Email \cup {NoOne}
      BY <1>0, <2>1 DEF InsertOrg, At, JobsOK, JobOK, TypeOK, Checkout
    <3>2. CASE UNCHANGED <<orgs, org>>
      BY <3>2 DEF RowsSame
    <3>3. CASE /\ Holders(checkout[job[d].session].email) = {}
               /\ \E o \in Org \ orgs :
                    /\ orgs' = orgs \cup {o}
                    /\ org' = [org EXCEPT ![o] = NewRow(checkout[job[d].session].email)]
      BY <3>1, <3>3 DEF RowInserted
    <3> QED BY <2>1, <3>2, <3>3 DEF InsertOrg
  <2>2. CASE ApplyCheckoutCompleted(d)
    <3>1. /\ Concerns(job[d].session, job[d].org)
          /\ Opened(job[d].session)
          /\ job[d].session \in Session
          /\ job[d].org \in orgs
      BY <1>0, <2>2 DEF ApplyCheckoutCompleted, At, JobsOK, JobOK, OrgKnown, Concerns
    <3> QED BY <2>2, <3>1 DEF ApplyCheckoutCompleted, RowBought
  <2>3. CASE SetDefaultBucket(d)
    <3>1. job[d].org \in orgs
      BY <2>3, JobsOrg DEF SetDefaultBucket, At, OrgKnown
    <3> QED BY <2>3, <3>1 DEF SetDefaultBucket, RowSet
  <2>4. CASE DowngradeBySubscription(d)
    <3>1. job[d].session \in cancelled
      BY <1>0, <2>4 DEF DowngradeBySubscription, At, JobsOK, JobOK
    <3> QED BY <2>4, <3>1 DEF DowngradeBySubscription, RowsEnded
  <2>5. CASE FindOrgByEmail(d) \/ UpsertBucket(d) \/ SeedTrial(d) \/ CreateAPIKey(d)
             \/ PutSecret(d) \/ PutSetupOrg(d) \/ Acknowledge(d) \/ Fail(d)
    BY <2>5 DEF FindOrgByEmail, UpsertBucket, SeedTrial, CreateAPIKey, PutSecret, PutSetupOrg,
                Acknowledge, Fail, orgVars, RowsSame
  <2> QED BY <1>1, <2>1, <2>2, <2>3, <2>4, <2>5 DEF Handle
<1>2. CASE Outside
  <2>1. ASSUME NEW o \in Org, AdminCreateOrg(o) PROVE RowInserted
    BY <2>1 DEF AdminCreateOrg, RowInserted
  <2>2. (\A o \in Org : ~AdminCreateOrg(o)) => RowsSame
    BY <1>2 DEF Outside, StartPublicCheckout, StartCheckout, CancelSubscription,
                DeliverCompleted, DeliverDeleted, TakeSetupSecret, ExpireSecret, ExpireSetupOrg,
                AdminCreateKey, orgVars, RowsSame
  <2> QED BY <2>1, <2>2
<1>3. CASE Saved
  BY <1>3 DEF Saved, SaveSlack, RowSet
<1>4. CASE UNCHANGED vars
  BY <1>4 DEF vars, orgVars, RowsSame
<1> QED BY <1>1, <1>2, <1>3, <1>4, StepCases

\* What an ended subscription leaves of a row.
LEMMA RowEnded ==
    ASSUME NEW r \in Row
    PROVE  LET q == [r EXCEPT !.plan = "trial", !.sub = NoSession] IN
             /\ q.email = r.email /\ q.bucket = r.bucket /\ q.slack = r.slack
             /\ q.plan = "trial" /\ q.sub = NoSession
BY DEF Row

\* What setting the default bucket leaves of a row.
LEMMA RowBucketed ==
    ASSUME NEW r \in Row
    PROVE  LET q == [r EXCEPT !.bucket = TRUE] IN
             q.email = r.email /\ q.bucket /\ q.slack = r.slack /\ q.plan = r.plan /\ q.sub = r.sub
BY DEF Row

\* What saving a webhook leaves of a row.
LEMMA RowSlacked ==
    ASSUME NEW r \in Row, NEW w
    PROVE  LET q == [r EXCEPT !.slack = w] IN
             q.email = r.email /\ q.bucket = r.bucket /\ q.slack = w /\ q.plan = r.plan /\ q.sub = r.sub
BY DEF Row

\* What every one of them keeps.
LEMMA RowsKept ==
    ASSUME ProvisioningAssumption, ProvisioningInv, [Next]_vars
    PROVE  /\ orgs \subseteq orgs'
           /\ \A o \in orgs : /\ o \in Org
                              /\ org'[o].email = org[o].email
                              /\ org[o].bucket => org'[o].bucket
<1>0. TypeOK
  BY DEF ProvisioningInv
<1>1. \A o \in orgs : o \in Org /\ org[o] \in Row
  BY <1>0 DEF TypeOK
<1>2. CASE RowsSame
  BY <1>1, <1>2 DEF RowsSame
<1>3. CASE RowInserted
  BY <1>0, <1>1, <1>3 DEF RowInserted, TypeOK
<1>4. CASE RowBought
  BY <1>0, <1>1, <1>4 DEF RowBought, TypeOK, Row
<1>5. CASE RowsEnded
  <2>1. PICK s \in cancelled :
             /\ orgs' = orgs
             /\ org' = [o \in Org |-> IF o \in Subscribed(s)
                                     THEN [org[o] EXCEPT !.plan = "trial", !.sub = NoSession]
                                     ELSE org[o]]
    BY <1>5 DEF RowsEnded
  <2>2. ASSUME NEW o \in orgs
        PROVE  org'[o].email = org[o].email /\ (org[o].bucket => org'[o].bucket)
    <3>1. org'[o] = org[o] \/ org'[o] = [org[o] EXCEPT !.plan = "trial", !.sub = NoSession]
      BY <1>1, <2>1
    <3>2. org[o] \in Row
      BY <1>1
    <3> QED BY <3>1, <3>2, RowEnded, Zenon
  <2> QED BY <1>1, <2>1, <2>2
<1>6. CASE RowSet
  <2>1. PICK o \in orgs, w \in Email \cup {NoOne} :
             /\ orgs' = orgs
             /\ \/ org' = [org EXCEPT ![o].bucket = TRUE]
                \/ org' = [org EXCEPT ![o].slack = w]
    BY <1>6 DEF RowSet
  <2>2. ASSUME NEW u \in orgs
        PROVE  org'[u].email = org[u].email /\ (org[u].bucket => org'[u].bucket)
    <3>1. \/ org'[u] = org[u]
          \/ org'[u] = [org[u] EXCEPT !.bucket = TRUE]
          \/ org'[u] = [org[u] EXCEPT !.slack = w]
      BY <1>0, <1>1, <2>1 DEF TypeOK
    <3>2. org[u] \in Row
      BY <1>1
    <3>3. LET q == [org[u] EXCEPT !.bucket = TRUE] IN q.email = org[u].email /\ q.bucket
      BY <3>2, RowBucketed, Zenon
    <3>4. LET q == [org[u] EXCEPT !.slack = w] IN
            q.email = org[u].email /\ q.bucket = org[u].bucket
      BY <3>2, RowSlacked, Zenon
    <3> QED BY <3>1, <3>3, <3>4, Zenon
  <2> QED BY <1>1, <2>1, <2>2
<1> QED BY <1>2, <1>3, <1>4, <1>5, <1>6, RowCases

LEMMA KeptStep ==
    ASSUME ProvisioningAssumption, ProvisioningInv, [Next]_vars
    PROVE  Kept
<1>0. TypeOK
  BY DEF ProvisioningInv
<1>1. \A s \in Session : Opened(s) => checkout'[s] = checkout[s]
  <2>1. ASSUME NEW s \in Session, NEW e \in Email, NEW p \in Plan, StartPublicCheckout(s, e, p)
        PROVE  \A t \in Session : Opened(t) => checkout'[t] = checkout[t]
    BY <1>0, <2>1 DEF StartPublicCheckout, TypeOK
  <2>2. ASSUME NEW s \in Session, NEW o \in Org, NEW p \in Paid, StartCheckout(s, o, p)
        PROVE  \A t \in Session : Opened(t) => checkout'[t] = checkout[t]
    BY <1>0, <2>2 DEF StartCheckout, TypeOK
  <2>3. \/ \E s \in Session, e \in Email, p \in Plan : StartPublicCheckout(s, e, p)
        \/ \E s \in Session, o \in Org, p \in Paid : StartCheckout(s, o, p)
        \/ checkout' = checkout
    BY DEF Next, Handle, FindOrgByEmail, InsertOrg, ApplyCheckoutCompleted, SetDefaultBucket,
           UpsertBucket, SeedTrial, CreateAPIKey, PutSecret, PutSetupOrg,
           DowngradeBySubscription, Acknowledge, Fail, CancelSubscription, DeliverCompleted,
           DeliverDeleted, TakeSetupSecret, SetupSlack, AccountSlack, AdminPatchOrg, SaveSlack,
           AdminCreateOrg, AdminCreateKey, ExpireSecret, ExpireSetupOrg, stripeVars, vars
  <2> QED BY <2>1, <2>2, <2>3
<1>2. cancelled \subseteq cancelled'
  <2>1. (\E s \in Session : CancelSubscription(s)) \/ cancelled' = cancelled
    BY DEF Next, Handle, FindOrgByEmail, InsertOrg, ApplyCheckoutCompleted, SetDefaultBucket,
           UpsertBucket, SeedTrial, CreateAPIKey, PutSecret, PutSetupOrg,
           DowngradeBySubscription, Acknowledge, Fail, StartPublicCheckout, StartCheckout,
           DeliverCompleted, DeliverDeleted, TakeSetupSecret, SetupSlack, AccountSlack,
           AdminPatchOrg, SaveSlack, AdminCreateOrg, AdminCreateKey, ExpireSecret,
           ExpireSetupOrg, stripeVars, vars
  <2> QED BY <2>1 DEF CancelSubscription
<1>3. registered \subseteq registered' /\ seeded \subseteq seeded'
  BY DEF Next, Handle, FindOrgByEmail, InsertOrg, ApplyCheckoutCompleted, SetDefaultBucket,
         UpsertBucket, SeedTrial, CreateAPIKey, PutSecret, PutSetupOrg,
         DowngradeBySubscription, Acknowledge, Fail, StartPublicCheckout, StartCheckout,
         CancelSubscription, DeliverCompleted, DeliverDeleted, TakeSetupSecret, SetupSlack,
         AccountSlack, AdminPatchOrg, SaveSlack, AdminCreateOrg, AdminCreateKey, ExpireSecret,
         ExpireSetupOrg, orgVars, vars
<1>4. \A k \in Key : keyOrg[k] # NoOrg => keyOrg'[k] = keyOrg[k]
  <2>1. \/ \E d \in Delivery : CreateAPIKey(d)
        \/ \E o \in Org, k \in Key : AdminCreateKey(o, k)
        \/ keyOrg' = keyOrg
    BY DEF Next, Handle, FindOrgByEmail, InsertOrg, ApplyCheckoutCompleted, SetDefaultBucket,
           UpsertBucket, SeedTrial, PutSecret, PutSetupOrg,
           DowngradeBySubscription, Acknowledge, Fail, StartPublicCheckout, StartCheckout,
           CancelSubscription, DeliverCompleted, DeliverDeleted, TakeSetupSecret, SetupSlack,
           AccountSlack, AdminPatchOrg, SaveSlack, AdminCreateOrg, ExpireSecret,
           ExpireSetupOrg, orgVars, vars
  <2> QED BY <1>0, <2>1 DEF CreateAPIKey, AdminCreateKey, TypeOK
<1> QED BY <1>1, <1>2, <1>3, <1>4, RowsKept DEF Kept

-----------------------------------------------------------------------------
(* What is kept of what the invariant says                                 *)

Stays == ProvisioningAssumption /\ ProvisioningInv /\ TypeOK' /\ Kept

LEMMA OpenedKept ==
    ASSUME Stays, NEW s \in Session, Opened(s)
    PROVE  /\ checkout'[s] = checkout[s]
           /\ Opened(s)'
           /\ SignsUp(s)' <=> SignsUp(s)
BY DEF Stays, Kept, Opened, SignsUp

LEMMA ConcernsKept ==
    ASSUME Stays, NEW s \in Session, NEW o \in Org, Concerns(s, o)
    PROVE  /\ Opened(s)
           /\ checkout'[s] = checkout[s]
           /\ o \in orgs'
           /\ checkout'[s].org = o \/ (checkout'[s].email # NoOne /\ org'[o].email = checkout'[s].email)
<1>1. Opened(s) /\ o \in orgs
  BY DEF Stays, ProvisioningAssumption, Concerns, Opened
<1>2. checkout'[s] = checkout[s] /\ o \in orgs' /\ org'[o].email = org[o].email
  BY <1>1 DEF Stays, Kept
<1> QED BY <1>1, <1>2 DEF Concerns, SignsUp

LEMMA ProvisionedKept ==
    ASSUME Stays, NEW s \in Session, Provisioned(s)
    PROVE  Provisioned(s)'
<1>1. PICK o \in orgs : /\ Concerns(s, o)
                        /\ org[o].bucket
                        /\ o \in registered \cap seeded
                        /\ \E k \in Key : keyOrg[k] = o
  BY DEF Provisioned
<1>2. o \in Org /\ o # NoOrg
  BY DEF Stays, ProvisioningAssumption, ProvisioningInv, TypeOK
<1>3. Concerns(s, o)' /\ o \in orgs'
  BY <1>1, <1>2, ConcernsKept DEF Concerns, SignsUp
<1>4. org'[o].bucket /\ o \in registered' \cap seeded' /\ \E k \in Key : keyOrg'[k] = o
  BY <1>1, <1>2 DEF Stays, Kept
<1> QED BY <1>3, <1>4 DEF Provisioned

\* A handler that does not move finds what it has done still done.
LEMMA JobKept ==
    ASSUME Stays, NEW d \in Delivery, job'[d] = job[d]
    PROVE  JobOK(d)'
<1>0. JobOK(d) /\ TypeOK
  BY DEF Stays, ProvisioningInv, JobsOK
<1>1. CASE job[d].at = "idle"
  BY <1>1 DEF JobOK, ForSignup, OrgKnown
<1>2. CASE job[d].at # "idle"
  <2>1. job[d].session \in Session /\ Opened(job[d].session)
    BY <1>0, <1>2 DEF JobOK
  <2>2. checkout'[job[d].session] = checkout[job[d].session] /\ Opened(job[d].session)'
    BY <2>1, OpenedKept DEF Opened, SignsUp
  <2>3. SignsUp(job[d].session)' <=> SignsUp(job[d].session)
    BY <2>2 DEF SignsUp
  <2>4. ASSUME job[d].at \in OrgKnown
        PROVE  Concerns(job[d].session, job[d].org)' /\ job[d].org \in orgs /\ job[d].org # NoOrg
    <3>1. Concerns(job[d].session, job[d].org) /\ job[d].org \in orgs /\ job[d].org \in Org
      BY <1>0, <2>4 DEF JobOK, Concerns, TypeOK
    <3> QED BY <2>1, <3>1, ConcernsKept DEF Concerns, SignsUp, Stays, ProvisioningAssumption
  <2>5. ASSUME job[d].at \in OrgKnown, org[job[d].org].bucket PROVE org'[job[d].org].bucket
    BY <2>4, <2>5 DEF Stays, Kept
  <2>6. ASSUME job[d].at \in {"secret", "setuporg"}
        PROVE  job[d].key \in Key /\ keyOrg'[job[d].key] = job[d].org
    BY <1>0, <2>4, <2>6 DEF JobOK, OrgKnown, Stays, Kept
  <2>7. Provisioned(job[d].session) => Provisioned(job[d].session)'
    <3>1. \A s \in Session : Provisioned(s) => Provisioned(s)'
      BY ProvisionedKept
    <3>2. job'[d].session = job[d].session
      OBVIOUS
    <3> QED BY <2>1, <3>1, <3>2 DEF Provisioned, Concerns, SignsUp
  <2>8. registered \subseteq registered' /\ seeded \subseteq seeded' /\ cancelled \subseteq cancelled'
    BY DEF Stays, Kept
  <2> DEFINE j == job[d]
  <2>9. /\ j.at \in ForSignup => SignsUp(j.session)
        /\ j.at \in ForSignup \cup OrgKnown => j.kind = "completed"
        /\ j.at \in OrgKnown \ {"apply", "bucket"} => org[j.org].bucket
        /\ j.at \in {"seed", "key", "secret", "setuporg"} => j.org \in registered
        /\ j.at \in {"key", "secret", "setuporg"} => j.org \in seeded
        /\ j.at = "downgrade" => j.kind = "deleted" /\ j.session \in cancelled
        /\ j.at = "answer" /\ j.kind = "completed" /\ SignsUp(j.session) => Provisioned(j.session)
    BY <1>0 DEF JobOK
  <2> QED BY <2>1, <2>2, <2>3, <2>4, <2>5, <2>6, <2>7, <2>8, <2>9
          DEF JobOK, Opened, SignsUp, Concerns
<1> QED BY <1>1, <1>2

-----------------------------------------------------------------------------
(* The handlers                                                            *)

\* What moving a handler changes of its record.
LEMMA Moved ==
    ASSUME job \in [Delivery -> Job], NEW d \in Delivery
    PROVE  /\ \A step \in Step : Goto(d, step) =>
                job'[d].at = step /\ job'[d].kind = job[d].kind /\ job'[d].key = job[d].key
                /\ job'[d].session = job[d].session /\ job'[d].org = job[d].org
           /\ \A step \in Step, o \in Org : GotoWithOrg(d, step, o) =>
                job'[d].at = step /\ job'[d].kind = job[d].kind
                /\ job'[d].session = job[d].session /\ job'[d].org = o
           /\ \A step \in Step, k \in Key : GotoWithKey(d, step, k) =>
                job'[d].at = step /\ job'[d].kind = job[d].kind /\ job'[d].key = k
                /\ job'[d].session = job[d].session /\ job'[d].org = job[d].org
<1>1. job[d] \in Job
  OBVIOUS
<1>2. ASSUME NEW step \in Step, Goto(d, step)
      PROVE  job'[d].at = step /\ job'[d].kind = job[d].kind /\ job'[d].key = job[d].key
             /\ job'[d].session = job[d].session /\ job'[d].org = job[d].org
  <2>1. job'[d] = [job[d] EXCEPT !.at = step]
    BY <1>2 DEF Goto
  <2> QED BY <1>1, <2>1 DEF Job
<1>3. ASSUME NEW step \in Step, NEW o \in Org, GotoWithOrg(d, step, o)
      PROVE  job'[d].at = step /\ job'[d].kind = job[d].kind
             /\ job'[d].session = job[d].session /\ job'[d].org = o
  <2>1. job'[d] = [job[d] EXCEPT !.at = step, !.org = o]
    BY <1>3 DEF GotoWithOrg
  <2> QED BY <1>1, <2>1 DEF Job
<1>4. ASSUME NEW step \in Step, NEW k \in Key, GotoWithKey(d, step, k)
      PROVE  job'[d].at = step /\ job'[d].kind = job[d].kind /\ job'[d].key = k
             /\ job'[d].session = job[d].session /\ job'[d].org = job[d].org
  <2>1. job'[d] = [job[d] EXCEPT !.at = step, !.key = k]
    BY <1>4 DEF GotoWithKey
  <2> QED BY <1>1, <2>1 DEF Job
<1> QED BY <1>2, <1>3, <1>4

\* Of a session about o, it is still so after the step.
LEMMA StillConcerns ==
    ASSUME Stays, NEW s \in Session, NEW o \in Org, Concerns(s, o)
    PROVE  Concerns(s, o)'
BY ConcernsKept DEF Concerns, SignsUp

\* JobOK, said of the values a handler's record holds.
Done(at, kind, s, o, k) ==
    /\ Opened(s)
    /\ at \in ForSignup => SignsUp(s)
    /\ at \in ForSignup \cup OrgKnown => kind = "completed"
    /\ at \in OrgKnown => Concerns(s, o)
    /\ at \in OrgKnown \ {"apply", "bucket"} => org[o].bucket
    /\ at \in {"seed", "key", "secret", "setuporg"} => o \in registered
    /\ at \in {"key", "secret", "setuporg"} => o \in seeded
    /\ at \in {"secret", "setuporg"} => k \in Key /\ keyOrg[k] = o
    /\ at = "downgrade" => kind = "deleted" /\ s \in cancelled
    /\ at = "answer" /\ kind = "completed" /\ SignsUp(s) => Provisioned(s)

LEMMA DoneNow ==
    ASSUME NEW d \in Delivery, JobOK(d), job[d].at # "idle"
    PROVE  /\ job[d].session \in Session
           /\ Done(job[d].at, job[d].kind, job[d].session, job[d].org, job[d].key)
BY DEF JobOK, Done

LEMMA DoneNext ==
    ASSUME NEW d \in Delivery, NEW at, NEW kind, NEW s \in Session, NEW o, NEW k,
           job'[d].at = at, job'[d].kind = kind, job'[d].session = s, job'[d].org = o,
           job'[d].key = k, Done(at, kind, s, o, k)'
    PROVE  JobOK(d)'
BY DEF JobOK, Done, Opened, SignsUp, Concerns, Provisioned

LEMMA IdleNext ==
    ASSUME NEW d \in Delivery, job'[d] = Idle
    PROVE  JobOK(d)'
BY DEF JobOK, Idle, ForSignup, OrgKnown

LEMMA HandlerStep ==
    ASSUME Stays, NEW d \in Delivery, Handle(d)
    PROVE  JobOK(d)'
<1>0. TypeOK /\ TypeOK' /\ JobOK(d) /\ job[d] \in Job /\ job \in [Delivery -> Job]
  BY DEF Stays, ProvisioningInv, JobsOK, TypeOK
<1>1. job[d].at # "idle"
  BY DEF Handle, At, FindOrgByEmail, InsertOrg, ApplyCheckoutCompleted, SetDefaultBucket,
         UpsertBucket, SeedTrial, CreateAPIKey, PutSecret, PutSetupOrg,
         DowngradeBySubscription, Acknowledge, Fail
<1>2. PICK s \in Session : s = job[d].session
  BY <1>0, <1>1, DoneNow
<1>3. PICK o : o = job[d].org
  OBVIOUS
<1>4. PICK k : k = job[d].key
  OBVIOUS
<1>5. Done(job[d].at, job[d].kind, s, o, k)
  BY <1>0, <1>1, <1>2, <1>3, <1>4, DoneNow
<1>6. Opened(s) /\ Opened(s)' /\ (SignsUp(s)' <=> SignsUp(s)) /\ checkout'[s] = checkout[s]
  BY <1>5, OpenedKept DEF Done
<1>7. ASSUME job[d].at \in OrgKnown
      PROVE  /\ o \in Org /\ o \in orgs /\ o # NoOrg /\ job[d].kind = "completed"
             /\ Concerns(s, o) /\ Concerns(s, o)'
  <2>1. Concerns(s, o) /\ o \in orgs /\ o \in Org /\ job[d].kind = "completed"
    BY <1>0, <1>5, <1>7 DEF Done, Concerns, TypeOK
  <2> QED BY <2>1, StillConcerns DEF Stays, ProvisioningAssumption
<1>8. /\ registered \subseteq registered' /\ seeded \subseteq seeded'
      /\ \A u \in orgs : org[u].bucket => org'[u].bucket
      /\ \A l \in Key : keyOrg[l] # NoOrg => keyOrg'[l] = keyOrg[l]
  BY DEF Stays, Kept
<1>9. CASE InsertOrg(d) \/ FindOrgByEmail(d)
  <2>1. SignsUp(s) /\ job[d].kind = "completed"
    BY <1>5, <1>9 DEF Done, InsertOrg, FindOrgByEmail, At, ForSignup
  <2>2. CASE job' = [job EXCEPT ![d] = Idle]
    BY <1>0, <2>2, IdleNext
  <2>3. CASE Goto(d, "insert")
    <3>1. "insert" \in Step
      BY DEF Step
    <3>2. /\ job'[d].at = "insert" /\ job'[d].kind = "completed" /\ job'[d].session = s
          /\ job'[d].org = o /\ job'[d].key = k
      BY <1>0, <1>2, <1>3, <1>4, <2>1, <2>3, <3>1, Moved
    <3>3. Done("insert", "completed", s, o, k)'
      BY <1>6, <2>1 DEF Done, ForSignup, OrgKnown
    <3> QED BY <3>2, <3>3, DoneNext
  <2>4. ASSUME NEW u \in Org, u \in orgs', org'[u].email = checkout[s].email,
               GotoWithOrg(d, "apply", u)
        PROVE  JobOK(d)'
    <3>1. "apply" \in Step
      BY DEF Step
    <3>2. /\ job'[d].at = "apply" /\ job'[d].kind = "completed" /\ job'[d].session = s
          /\ job'[d].org = u
      BY <1>0, <1>2, <2>1, <2>4, <3>1, Moved
    <3>3. PICK l : l = job'[d].key
      OBVIOUS
    <3>4. Done("apply", "completed", s, u, l)'
      BY <1>6, <2>1, <2>4 DEF Done, ForSignup, OrgKnown, Concerns
    <3> QED BY <3>2, <3>3, <3>4, DoneNext
  <2>5. CASE \E u \in Holders(checkout[s].email) : GotoWithOrg(d, "apply", u)
    <3>1. PICK u \in Holders(checkout[s].email) : GotoWithOrg(d, "apply", u)
      BY <2>5
    <3>2. u \in Org /\ u \in orgs' /\ org'[u].email = checkout[s].email
      BY <1>0, <3>1 DEF Holders, TypeOK, Stays, Kept
    <3> QED BY <2>4, <3>1, <3>2
  <2>6. CASE \E u \in Org \ orgs :
               /\ orgs' = orgs \cup {u}
               /\ org' = [org EXCEPT ![u] = NewRow(checkout[s].email)]
               /\ GotoWithOrg(d, "apply", u)
    <3>1. PICK u \in Org \ orgs :
               /\ orgs' = orgs \cup {u}
               /\ org' = [org EXCEPT ![u] = NewRow(checkout[s].email)]
               /\ GotoWithOrg(d, "apply", u)
      BY <2>6
    <3>2. u \in Org /\ u \in orgs' /\ org'[u].email = checkout[s].email
      BY <1>0, <3>1 DEF NewRow, TypeOK
    <3> QED BY <2>4, <3>1, <3>2
  <2> QED BY <1>2, <1>9, <2>2, <2>3, <2>5, <2>6 DEF InsertOrg, FindOrgByEmail
<1>10. CASE ApplyCheckoutCompleted(d)
  <2>0. job[d].at = "apply" /\ job[d].kind = "completed" /\ Concerns(s, o)'
    BY <1>7, <1>10 DEF ApplyCheckoutCompleted, At, OrgKnown
  <2>1. "bucket" \in Step /\ "answer" \in Step
    BY DEF Step
  <2>2. /\ job'[d].at = (IF SignsUp(s) THEN "bucket" ELSE "answer")
        /\ job'[d].kind = "completed" /\ job'[d].session = s
        /\ job'[d].org = o /\ job'[d].key = k
    BY <1>0, <1>2, <1>3, <1>4, <1>10, <2>0, <2>1, Moved DEF ApplyCheckoutCompleted
  <2>3. SignsUp(s) => Done("bucket", "completed", s, o, k)'
    BY <1>6, <2>0 DEF Done, ForSignup, OrgKnown
  <2>4. ~SignsUp(s) => Done("answer", "completed", s, o, k)'
    BY <1>6, <2>0 DEF Done, ForSignup, OrgKnown
  <2> QED BY <2>2, <2>3, <2>4, DoneNext
<1>11. CASE SetDefaultBucket(d)
  <2>0. /\ job[d].at = "bucket" /\ job[d].kind = "completed" /\ Concerns(s, o)'
        /\ o \in Org /\ SignsUp(s)
    BY <1>5, <1>7, <1>11 DEF SetDefaultBucket, At, OrgKnown, ForSignup, Done
  <2>1. "register" \in Step
    BY DEF Step
  <2>2. /\ job'[d].at = "register" /\ job'[d].kind = "completed" /\ job'[d].session = s
        /\ job'[d].org = o /\ job'[d].key = k
    BY <1>0, <1>2, <1>3, <1>4, <1>11, <2>0, <2>1, Moved DEF SetDefaultBucket
  <2>3. org'[o].bucket
    <3>1. org[o] \in Row /\ org'[o] = [org[o] EXCEPT !.bucket = TRUE]
      BY <1>0, <1>3, <1>11, <2>0 DEF SetDefaultBucket, TypeOK
    <3> QED BY <3>1, RowBucketed, Zenon
  <2>4. Done("register", "completed", s, o, k)'
    BY <1>6, <2>0, <2>3 DEF Done, ForSignup, OrgKnown
  <2> QED BY <2>2, <2>4, DoneNext
<1>12. CASE UpsertBucket(d)
  <2>0. /\ job[d].at = "register" /\ job[d].kind = "completed" /\ Concerns(s, o)'
        /\ SignsUp(s) /\ org'[o].bucket
    BY <1>5, <1>7, <1>8, <1>12 DEF UpsertBucket, At, OrgKnown, ForSignup, Done
  <2>1. "seed" \in Step
    BY DEF Step
  <2>2. /\ job'[d].at = "seed" /\ job'[d].kind = "completed" /\ job'[d].session = s
        /\ job'[d].org = o /\ job'[d].key = k
    BY <1>0, <1>2, <1>3, <1>4, <1>12, <2>0, <2>1, Moved DEF UpsertBucket
  <2>3. o \in registered'
    BY <1>3, <1>12 DEF UpsertBucket
  <2>4. Done("seed", "completed", s, o, k)'
    BY <1>6, <2>0, <2>3 DEF Done, ForSignup, OrgKnown
  <2> QED BY <2>2, <2>4, DoneNext
<1>13. CASE SeedTrial(d)
  <2>0. /\ job[d].at = "seed" /\ job[d].kind = "completed" /\ Concerns(s, o)'
        /\ SignsUp(s) /\ org'[o].bucket /\ o \in registered'
    BY <1>5, <1>7, <1>8, <1>13 DEF SeedTrial, At, OrgKnown, ForSignup, Done
  <2>1. "key" \in Step
    BY DEF Step
  <2>2. /\ job'[d].at = "key" /\ job'[d].kind = "completed" /\ job'[d].session = s
        /\ job'[d].org = o /\ job'[d].key = k
    BY <1>0, <1>2, <1>3, <1>4, <1>13, <2>0, <2>1, Moved DEF SeedTrial
  <2>3. o \in seeded'
    BY <1>3, <1>13 DEF SeedTrial
  <2>4. Done("key", "completed", s, o, k)'
    BY <1>6, <2>0, <2>3 DEF Done, ForSignup, OrgKnown
  <2> QED BY <2>2, <2>4, DoneNext
<1>14. CASE CreateAPIKey(d)
  <2>0. /\ job[d].at = "key" /\ job[d].kind = "completed" /\ Concerns(s, o)'
        /\ SignsUp(s) /\ org'[o].bucket /\ o \in registered' /\ o \in seeded'
    BY <1>5, <1>7, <1>8, <1>14 DEF CreateAPIKey, At, OrgKnown, ForSignup, Done
  <2>1. "secret" \in Step
    BY DEF Step
  <2>2. PICK l \in Key : keyOrg' = [keyOrg EXCEPT ![l] = o] /\ GotoWithKey(d, "secret", l)
    BY <1>3, <1>14 DEF CreateAPIKey
  <2>3. /\ job'[d].at = "secret" /\ job'[d].kind = "completed" /\ job'[d].session = s
        /\ job'[d].org = o /\ job'[d].key = l
    BY <1>0, <1>2, <1>3, <2>0, <2>1, <2>2, Moved
  <2>4. keyOrg'[l] = o
    BY <1>0, <2>2 DEF TypeOK
  <2>5. Done("secret", "completed", s, o, l)'
    BY <1>6, <2>0, <2>4 DEF Done, ForSignup, OrgKnown
  <2> QED BY <2>3, <2>5, DoneNext
<1>15. CASE PutSecret(d) \/ PutSetupOrg(d)
  <2>0. /\ job[d].at \in {"secret", "setuporg"} /\ job[d].kind = "completed"
        /\ o \in orgs /\ Concerns(s, o)' /\ SignsUp(s) /\ org'[o].bucket
        /\ o \in registered' /\ o \in seeded' /\ k \in Key /\ keyOrg'[k] = o
    BY <1>5, <1>7, <1>8, <1>15 DEF PutSecret, PutSetupOrg, At, OrgKnown, ForSignup, Done
  <2>1. "setuporg" \in Step /\ "answer" \in Step
    BY DEF Step
  <2>2. /\ job'[d].at = (IF PutSecret(d) THEN "setuporg" ELSE "answer")
        /\ job'[d].kind = "completed" /\ job'[d].session = s
        /\ job'[d].org = o /\ job'[d].key = k
    BY <1>0, <1>2, <1>3, <1>4, <1>15, <2>0, <2>1, Moved DEF PutSecret, PutSetupOrg
  <2>3. Done("setuporg", "completed", s, o, k)'
    BY <1>6, <2>0 DEF Done, ForSignup, OrgKnown
  <2>4. Provisioned(s)'
    BY <2>0 DEF Provisioned, Concerns
  <2>5. Done("answer", "completed", s, o, k)'
    BY <1>6, <2>4 DEF Done, ForSignup, OrgKnown
  <2> QED BY <2>2, <2>3, <2>5, DoneNext
<1>16. CASE DowngradeBySubscription(d)
  <2>0. job[d].kind = "deleted" \/ job[d].kind = "completed"
    BY <1>0 DEF Job
  <2>1. "answer" \in Step
    BY DEF Step
  <2>2. /\ job'[d].at = "answer" /\ job'[d].kind = job[d].kind /\ job'[d].session = s
        /\ job'[d].org = o /\ job'[d].key = k
    BY <1>0, <1>2, <1>3, <1>4, <1>16, <2>1, Moved DEF DowngradeBySubscription
  <2>3. job[d].kind = "deleted"
    BY <1>0, <1>16 DEF JobOK, DowngradeBySubscription, At
  <2>4. Done("answer", "deleted", s, o, k)'
    BY <1>6 DEF Done, ForSignup, OrgKnown
  <2> QED BY <2>2, <2>3, <2>4, DoneNext
<1>17. CASE Acknowledge(d) \/ Fail(d)
  BY <1>0, <1>17, IdleNext DEF Acknowledge, Fail
<1> QED BY <1>9, <1>10, <1>11, <1>12, <1>13, <1>14, <1>15, <1>16, <1>17 DEF Handle

LEMMA JobsStep ==
    ASSUME Stays, [Next]_vars
    PROVE  JobsOK'
<1> SUFFICES ASSUME NEW d \in Delivery PROVE JobOK(d)'
  BY DEF JobsOK
<1>0. job \in [Delivery -> Job] /\ TypeOK
  BY DEF Stays, ProvisioningInv, TypeOK
<1>1. CASE Handle(d)
  BY <1>1, HandlerStep
<1>2. ASSUME NEW s \in Session, DeliverCompleted(d, s) PROVE JobOK(d)'
  <2>1. PICK at \in {"find", "apply"}, o \in {checkout[s].org} :
             /\ at = "find" <=> SignsUp(s)
             /\ job'[d] = [at |-> at, kind |-> "completed", session |-> s, org |-> o, key |-> NoKey]
    BY <1>0, <1>2 DEF DeliverCompleted
  <2>2. checkout' = checkout /\ orgs' = orgs /\ Opened(s)
    BY <1>2 DEF DeliverCompleted, stripeVars, orgVars
  <2>3. at = "apply" => o \in orgs
    BY <1>0, <2>1, <2>2
       DEF Opened, Stays, ProvisioningInv, CheckoutsOK
  <2>4. Done(at, "completed", s, o, NoKey)'
    BY <2>1, <2>2, <2>3 DEF Done, ForSignup, OrgKnown, Opened, SignsUp, Concerns
  <2> QED BY <2>1, <2>4, DoneNext
<1>3. ASSUME NEW s \in Session, DeliverDeleted(d, s) PROVE JobOK(d)'
  <2>1. job'[d] = [at |-> "downgrade", kind |-> "deleted", session |-> s,
                   org |-> NoOrg, key |-> NoKey]
    BY <1>0, <1>3 DEF DeliverDeleted
  <2>2. checkout' = checkout /\ cancelled' = cancelled /\ s \in cancelled
    BY <1>3 DEF DeliverDeleted, stripeVars
  <2>3. Opened(s)
    BY <2>2 DEF Stays, ProvisioningInv, CancelledOpened
  <2>4. Done("downgrade", "deleted", s, NoOrg, NoKey)'
    BY <2>2, <2>3 DEF Done, ForSignup, OrgKnown, Opened, SignsUp
  <2> QED BY <2>1, <2>4, DoneNext
<1>4. CASE job'[d] = job[d]
  BY <1>4, JobKept
<1>5. \/ Handle(d)
      \/ \E s \in Session : DeliverCompleted(d, s) \/ DeliverDeleted(d, s)
      \/ job'[d] = job[d]
  <2>1. ASSUME NEW e \in Delivery, e # d, Handle(e) PROVE job'[d] = job[d]
    BY <1>0, <2>1 DEF Handle, FindOrgByEmail, InsertOrg, ApplyCheckoutCompleted,
       SetDefaultBucket, UpsertBucket, SeedTrial, CreateAPIKey, PutSecret, PutSetupOrg,
       DowngradeBySubscription, Acknowledge, Fail, Goto, GotoWithOrg, GotoWithKey
  <2>2. ASSUME NEW e \in Delivery, e # d, NEW s \in Session,
               DeliverCompleted(e, s) \/ DeliverDeleted(e, s)
        PROVE  job'[d] = job[d]
    BY <1>0, <2>2 DEF DeliverCompleted, DeliverDeleted
  <2>3. \/ \E e \in Delivery : Handle(e)
        \/ \E e \in Delivery, s \in Session : DeliverCompleted(e, s) \/ DeliverDeleted(e, s)
        \/ job' = job
    BY DEF Next, StartPublicCheckout, StartCheckout, CancelSubscription, TakeSetupSecret,
           SetupSlack, AccountSlack, AdminPatchOrg, SaveSlack, AdminCreateOrg, AdminCreateKey,
           ExpireSecret, ExpireSetupOrg, vars
  <2> QED BY <2>1, <2>2, <2>3
<1> QED BY <1>1, <1>2, <1>3, <1>4, <1>5

-----------------------------------------------------------------------------
(* The other parts of the invariant                                        *)

LEMMA CheckoutsStep ==
    ASSUME Stays, [Next]_vars
    PROVE  CheckoutsOK'
<1>0. TypeOK /\ CheckoutsOK /\ orgs \subseteq orgs'
  BY DEF Stays, ProvisioningInv, Kept
<1>1. ASSUME NEW s \in Session, NEW e \in Email, NEW p \in Plan, StartPublicCheckout(s, e, p)
      PROVE  CheckoutsOK'
  BY <1>0, <1>1 DEF StartPublicCheckout, CheckoutsOK, TypeOK
<1>2. ASSUME NEW s \in Session, NEW o \in Org, NEW p \in Paid, StartCheckout(s, o, p)
      PROVE  CheckoutsOK'
  BY <1>0, <1>2 DEF StartCheckout, CheckoutsOK, TypeOK
<1>3. CASE checkout' = checkout
  BY <1>0, <1>3 DEF CheckoutsOK
<1>4. \/ \E s \in Session, e \in Email, p \in Plan : StartPublicCheckout(s, e, p)
      \/ \E s \in Session, o \in Org, p \in Paid : StartCheckout(s, o, p)
      \/ checkout' = checkout
  BY DEF Next, Handle, FindOrgByEmail, InsertOrg, ApplyCheckoutCompleted, SetDefaultBucket,
         UpsertBucket, SeedTrial, CreateAPIKey, PutSecret, PutSetupOrg,
         DowngradeBySubscription, Acknowledge, Fail, CancelSubscription, DeliverCompleted,
         DeliverDeleted, TakeSetupSecret, SetupSlack, AccountSlack, AdminPatchOrg, SaveSlack,
         AdminCreateOrg, AdminCreateKey, ExpireSecret, ExpireSetupOrg, stripeVars, vars
<1> QED BY <1>1, <1>2, <1>3, <1>4

LEMMA HistoryStep ==
    ASSUME Stays, [Next]_vars
    PROVE  AckedOpened' /\ CancelledOpened' /\ AckedIsProvisioned'
<1>0. /\ TypeOK /\ JobsOK /\ AckedOpened /\ CancelledOpened /\ AckedIsProvisioned
      /\ TypeOK'
  BY DEF Stays, ProvisioningInv
<1>1. \A s \in acked : s \in Session /\ Opened(s) /\ Opened(s)' /\ (SignsUp(s)' <=> SignsUp(s))
  BY <1>0, OpenedKept DEF AckedOpened, TypeOK
<1>2. \A s \in cancelled : s \in Session /\ Opened(s) /\ Opened(s)'
  BY <1>0, OpenedKept DEF CancelledOpened, TypeOK
<1>3. \A s \in acked : SignsUp(s) => Provisioned(s)'
  BY <1>0, <1>1, ProvisionedKept DEF AckedIsProvisioned, Provisioned
<1>4. ASSUME NEW s \in acked', s \notin acked
      PROVE  s \in Session /\ Opened(s)' /\ (SignsUp(s)' => Provisioned(s)')
  <2>1. PICK d \in Delivery : /\ Acknowledge(d) /\ s = job[d].session
                              /\ job[d].kind = "completed"
    BY <1>4 DEF Next, Handle, FindOrgByEmail, InsertOrg, ApplyCheckoutCompleted,
       SetDefaultBucket, UpsertBucket, SeedTrial, CreateAPIKey, PutSecret, PutSetupOrg,
       DowngradeBySubscription, Acknowledge, Fail, StartPublicCheckout, StartCheckout,
       CancelSubscription, DeliverCompleted, DeliverDeleted, TakeSetupSecret, SetupSlack,
       AccountSlack, AdminPatchOrg, SaveSlack, AdminCreateOrg, AdminCreateKey, ExpireSecret,
       ExpireSetupOrg, history, vars
  <2>2. JobOK(d) /\ job[d].at = "answer"
    BY <1>0, <2>1 DEF JobsOK, Acknowledge, At
  <2>3. s \in Session /\ Opened(s) /\ (SignsUp(s) => Provisioned(s))
    <3>1. Done(job[d].at, job[d].kind, job[d].session, job[d].org, job[d].key)
          /\ job[d].session \in Session
      BY <2>2, DoneNow
    <3> QED BY <2>1, <2>2, <3>1 DEF Done
  <2>4. Opened(s)' /\ (SignsUp(s)' <=> SignsUp(s))
    BY <2>3, OpenedKept
  <2> QED BY <2>3, <2>4, ProvisionedKept
<1>5. ASSUME NEW s \in cancelled', s \notin cancelled PROVE Opened(s)'
  <2>1. CancelSubscription(s)
    BY <1>5 DEF Next, Handle, FindOrgByEmail, InsertOrg, ApplyCheckoutCompleted,
       SetDefaultBucket, UpsertBucket, SeedTrial, CreateAPIKey, PutSecret, PutSetupOrg,
       DowngradeBySubscription, Acknowledge, Fail, StartPublicCheckout, StartCheckout,
       CancelSubscription, DeliverCompleted, DeliverDeleted, TakeSetupSecret, SetupSlack,
       AccountSlack, AdminPatchOrg, SaveSlack, AdminCreateOrg, AdminCreateKey, ExpireSecret,
       ExpireSetupOrg, stripeVars, vars
  <2> QED BY <2>1 DEF CancelSubscription, Opened, SignsUp
<1>6. AckedOpened' /\ CancelledOpened'
  BY <1>1, <1>2, <1>4, <1>5 DEF AckedOpened, CancelledOpened
<1>7. \A s \in acked' : SignsUp(s)' => Provisioned(s)'
  BY <1>1, <1>3, <1>4
<1> QED BY <1>6, <1>7 DEF AckedIsProvisioned, Provisioned

LEMMA RevealedStep ==
    ASSUME Stays, [Next]_vars
    PROVE  RevealedHome'
<1>0. TypeOK /\ RevealedHome /\ SetupLeadsHome /\ NoOrg \notin Org
  BY DEF Stays, ProvisioningInv, ProvisioningAssumption
<1>1. ASSUME NEW s \in Session, NEW k \in revealed'[s]
      PROVE  k \in Key /\ SignsUp(s) /\ Concerns(s, keyOrg[k])
  <2>1. CASE k \in revealed[s]
    BY <1>0, <2>1 DEF RevealedHome, TypeOK
  <2>2. CASE k \notin revealed[s]
    <3>1. (\E u \in Session : TakeSetupSecret(u)) \/ revealed' = revealed
      BY DEF Next, Handle, FindOrgByEmail, InsertOrg, ApplyCheckoutCompleted,
       SetDefaultBucket, UpsertBucket, SeedTrial, CreateAPIKey, PutSecret, PutSetupOrg,
       DowngradeBySubscription, Acknowledge, Fail, StartPublicCheckout, StartCheckout,
       CancelSubscription, DeliverCompleted, DeliverDeleted, SetupSlack,
       AccountSlack, AdminPatchOrg, SaveSlack, AdminCreateOrg, AdminCreateKey, ExpireSecret,
       ExpireSetupOrg, history, vars
    <3>2. TakeSetupSecret(s) /\ k = secret[s]
      BY <1>0, <1>1, <2>2, <3>1 DEF TakeSetupSecret, TypeOK
    <3> QED BY <1>0, <3>2 DEF TakeSetupSecret, SetupLeadsHome, TypeOK
  <2> QED BY <2>1, <2>2
<1>2. ASSUME NEW s \in Session, NEW k \in revealed'[s]
      PROVE  SignsUp(s)' /\ Concerns(s, keyOrg[k])'
  <2>1. k \in Key /\ SignsUp(s) /\ Concerns(s, keyOrg[k]) /\ keyOrg[k] \in Org
    BY <1>0, <1>1, <1>2 DEF Concerns, TypeOK
  <2>2. keyOrg'[k] = keyOrg[k]
    BY <1>0, <2>1 DEF Stays, Kept
  <2>3. SignsUp(s)'
    BY <2>1, OpenedKept DEF Opened
  <2>4. PICK o \in Org : o = keyOrg[k]
    BY <2>1
  <2>5. Concerns(s, o)'
    BY <2>1, <2>4, StillConcerns
  <2> QED BY <2>2, <2>3, <2>4, <2>5 DEF Concerns, SignsUp
<1> QED BY <1>2 DEF RevealedHome

LEMMA SetupStep ==
    ASSUME Stays, [Next]_vars
    PROVE  SetupLeadsHome'
<1>0. TypeOK /\ TypeOK' /\ SetupLeadsHome /\ JobsOK /\ NoOrg \notin Org
  BY DEF Stays, ProvisioningInv, ProvisioningAssumption
<1> DEFINE Leads(s, k) == /\ SignsUp(s)
                          /\ Concerns(s, keyOrg[k])
                          /\ org[keyOrg[k]].bucket
                          /\ keyOrg[k] \in registered \cap seeded
<1>1. \A s \in Session :
        /\ secret'[s] # NoKey => secret'[s] = secret[s] \/ \E d \in Delivery :
             PutSecret(d) /\ s = job[d].session /\ secret'[s] = job[d].key
        /\ setupOrg'[s] # NoOrg => setupOrg'[s] = setupOrg[s] \/ \E d \in Delivery :
             PutSetupOrg(d) /\ s = job[d].session /\ setupOrg'[s] = job[d].org
  <2>1. CASE UNCHANGED setupVars
    BY <2>1 DEF setupVars
  <2>2. ASSUME NEW d \in Delivery, PutSecret(d) \/ PutSetupOrg(d)
        PROVE  \A s \in Session :
          /\ secret'[s] # secret[s] =>
               PutSecret(d) /\ s = job[d].session /\ secret'[s] = job[d].key
          /\ setupOrg'[s] # setupOrg[s] =>
               PutSetupOrg(d) /\ s = job[d].session /\ setupOrg'[s] = job[d].org
    <3>1. PutSecret(d) => /\ secret' = [secret EXCEPT ![job[d].session] = job[d].key]
                          /\ setupOrg' = setupOrg
      BY DEF PutSecret
    <3>2. PutSetupOrg(d) => /\ setupOrg' = [setupOrg EXCEPT ![job[d].session] = job[d].org]
                            /\ secret' = secret
      BY DEF PutSetupOrg
    <3>3. secret \in [Session -> Key \cup {NoKey}] /\ setupOrg \in [Session -> Org \cup {NoOrg}]
      BY <1>0 DEF TypeOK
    <3> QED BY <2>2, <3>1, <3>2, <3>3
  <2>3. ASSUME NEW s \in Session, TakeSetupSecret(s) \/ ExpireSecret(s) \/ ExpireSetupOrg(s)
        PROVE  \A u \in Session : /\ secret'[u] \in {secret[u], NoKey}
                                  /\ setupOrg'[u] \in {setupOrg[u], NoOrg}
    BY <1>0, <2>3 DEF TakeSetupSecret, ExpireSecret, ExpireSetupOrg, TypeOK
  <2>4. \/ UNCHANGED setupVars
        \/ \E d \in Delivery : PutSecret(d) \/ PutSetupOrg(d)
        \/ \E s \in Session : TakeSetupSecret(s) \/ ExpireSecret(s) \/ ExpireSetupOrg(s)
    BY DEF Next, Handle, FindOrgByEmail, InsertOrg, ApplyCheckoutCompleted,
       SetDefaultBucket, UpsertBucket, SeedTrial, CreateAPIKey,
       DowngradeBySubscription, Acknowledge, Fail, StartPublicCheckout, StartCheckout,
       CancelSubscription, DeliverCompleted, DeliverDeleted, SetupSlack,
       AccountSlack, AdminPatchOrg, SaveSlack, AdminCreateOrg, AdminCreateKey, setupVars, vars
  <2> QED BY <2>1, <2>2, <2>3, <2>4
<1>2. ASSUME NEW s \in Session, secret'[s] # NoKey
      PROVE  secret'[s] \in Key /\ Leads(s, secret'[s])
  <2>1. CASE secret'[s] = secret[s]
    BY <1>0, <1>2, <2>1 DEF SetupLeadsHome, TypeOK
  <2>2. ASSUME NEW d \in Delivery, PutSecret(d), s = job[d].session, secret'[s] = job[d].key
        PROVE  secret'[s] \in Key /\ Leads(s, secret'[s])
    <3>1. JobOK(d) /\ job[d].at = "secret"
      BY <1>0, <2>2 DEF JobsOK, PutSecret, At
    <3>2. Done("secret", job[d].kind, s, job[d].org, job[d].key)
      BY <2>2, <3>1, DoneNow
    <3>3. /\ SignsUp(s) /\ Concerns(s, job[d].org) /\ org[job[d].org].bucket
          /\ job[d].org \in registered /\ job[d].org \in seeded
          /\ job[d].key \in Key /\ keyOrg[job[d].key] = job[d].org
      BY <3>2 DEF Done, ForSignup, OrgKnown
    <3> QED BY <2>2, <3>3
  <2> QED BY <1>1, <1>2, <2>1, <2>2
<1>3. ASSUME NEW s \in Session, setupOrg'[s] # NoOrg
      PROVE  SignsUp(s) /\ Concerns(s, setupOrg'[s])
  <2>1. CASE setupOrg'[s] = setupOrg[s]
    BY <1>0, <1>3, <2>1 DEF SetupLeadsHome
  <2>2. ASSUME NEW d \in Delivery, PutSetupOrg(d), s = job[d].session, setupOrg'[s] = job[d].org
        PROVE  SignsUp(s) /\ Concerns(s, setupOrg'[s])
    <3>1. JobOK(d) /\ job[d].at = "setuporg"
      BY <1>0, <2>2 DEF JobsOK, PutSetupOrg, At
    <3>2. Done("setuporg", job[d].kind, s, job[d].org, job[d].key)
      BY <2>2, <3>1, DoneNow
    <3> QED BY <2>2, <3>2 DEF Done, ForSignup, OrgKnown
  <2> QED BY <1>1, <1>3, <2>1, <2>2
<1>4. ASSUME NEW s \in Session, secret'[s] # NoKey
      PROVE  SignsUp(s)' /\ Concerns(s, keyOrg[secret[s]])' /\ org'[keyOrg'[secret'[s]]].bucket
             /\ keyOrg'[secret'[s]] \in registered' \cap seeded'
  <2>1. PICK k \in Key : k = secret'[s]
    BY <1>2, <1>4
  <2>2. PICK o \in orgs : o = keyOrg[k]
    BY <1>2, <1>4, <2>1 DEF Concerns
  <2>3. o \in Org /\ keyOrg'[k] = o
    BY <1>0, <2>2 DEF TypeOK, Stays, Kept
  <2>4. SignsUp(s) /\ Concerns(s, o) /\ org[o].bucket /\ o \in registered \cap seeded
    BY <1>2, <1>4, <2>1, <2>2
  <2>5. Concerns(s, o)'
    BY <2>3, <2>4, StillConcerns
  <2>6. SignsUp(s)'
    BY <2>4, OpenedKept DEF Opened
  <2>7. org'[o].bucket /\ o \in registered' \cap seeded'
    BY <2>2, <2>4 DEF Stays, Kept
  <2> QED BY <2>1, <2>3, <2>5, <2>6, <2>7 DEF Concerns, SignsUp
<1>5. ASSUME NEW s \in Session, setupOrg'[s] # NoOrg
      PROVE  SignsUp(s)' /\ Concerns(s, setupOrg[s])'
  <2>1. PICK o \in orgs : o = setupOrg'[s]
    BY <1>3, <1>5 DEF Concerns
  <2>2. o \in Org
    BY <1>0 DEF TypeOK
  <2>3. SignsUp(s) /\ Concerns(s, o)
    BY <1>3, <1>5, <2>1
  <2>4. Concerns(s, o)' /\ SignsUp(s)'
    BY <2>2, <2>3, StillConcerns, OpenedKept DEF Opened
  <2> QED BY <2>1, <2>4 DEF Concerns, SignsUp
<1> QED BY <1>4, <1>5 DEF SetupLeadsHome

\* A row that is there before and after a step has the same address; one that
\* is new has an address nobody had, and the defaults.
LEMMA EmailsStep ==
    ASSUME Stays, [Next]_vars
    PROVE  OneOrgPerEmail'
<1>0. TypeOK /\ OneOrgPerEmail
  BY DEF Stays, ProvisioningInv
<1>1. \A o \in orgs : o \in orgs' /\ org'[o].email = org[o].email
  BY DEF Stays, Kept
<1>2. CASE orgs' = orgs
  BY <1>0, <1>1, <1>2 DEF OneOrgPerEmail
<1>3. CASE RowInserted
  <2>1. PICK u \in Org \ orgs, e \in Email \cup {NoOne} :
             /\ orgs' = orgs \cup {u}
             /\ org' = [org EXCEPT ![u] = NewRow(e)]
             /\ Holders(e) = {} \/ e = NoOne
    BY <1>3 DEF RowInserted
  <2>2. org'[u].email = e
    BY <1>0, <2>1 DEF TypeOK, NewRow
  <2>3. \A o \in orgs : org[o].email = e => e = NoOne
    BY <2>1 DEF Holders
  <2> QED BY <1>0, <1>1, <2>1, <2>2, <2>3 DEF OneOrgPerEmail
<1> QED BY <1>2, <1>3, RowCases DEF RowsSame, RowBought, RowsEnded, RowSet, Stays

LEMMA SlackStep ==
    ASSUME Stays, [Next]_vars
    PROVE  WebhookStaysHome'
<1>0. /\ TypeOK /\ WebhookStaysHome /\ NoOne \notin Email
      /\ \A o \in orgs : o \in Org /\ org[o] \in Row
  BY DEF Stays, ProvisioningInv, ProvisioningAssumption, TypeOK
<1>1. \A o \in orgs : org'[o].email = org[o].email
  BY DEF Stays, Kept
<1> DEFINE Home(o) == org'[o].slack \in Email => org'[o].slack = org'[o].email
<1>2. ASSUME NEW o \in orgs, org'[o].slack = org[o].slack PROVE Home(o)
  BY <1>0, <1>1, <1>2 DEF WebhookStaysHome
<1>3. CASE RowsSame
  BY <1>2, <1>3 DEF RowsSame, WebhookStaysHome
<1>4. CASE RowInserted
  <2>1. PICK u \in Org \ orgs, e \in Email \cup {NoOne} :
             orgs' = orgs \cup {u} /\ org' = [org EXCEPT ![u] = NewRow(e)]
    BY <1>4 DEF RowInserted
  <2>2. org'[u].slack = NoOne
    BY <1>0, <2>1 DEF TypeOK, NewRow
  <2>3. \A o \in orgs : org'[o] = org[o]
    BY <1>0, <2>1 DEF TypeOK
  <2> QED BY <1>0, <1>2, <2>1, <2>2, <2>3 DEF WebhookStaysHome
<1>5. CASE RowBought
  <2>1. PICK u \in orgs, s \in Session :
             /\ orgs' = orgs
             /\ org' = [org EXCEPT ![u] = [@ EXCEPT !.plan = checkout[s].plan, !.sub = s]]
    BY <1>5 DEF RowBought
  <2>2. ASSUME NEW o \in orgs PROVE org'[o].slack = org[o].slack
    <3>1. org[o] \in Row /\ checkout[s].plan \in Plan
      BY <1>0 DEF TypeOK, Checkout
    <3>2. org'[o] = org[o] \/ org'[o] = [org[o] EXCEPT !.plan = checkout[s].plan, !.sub = s]
      BY <1>0, <2>1 DEF TypeOK
    <3> QED BY <3>1, <3>2 DEF Row
  <2> QED BY <1>2, <2>1, <2>2 DEF WebhookStaysHome
<1>6. CASE RowsEnded
  <2>1. PICK s \in cancelled :
             /\ orgs' = orgs
             /\ org' = [o \in Org |-> IF o \in Subscribed(s)
                                     THEN [org[o] EXCEPT !.plan = "trial", !.sub = NoSession]
                                     ELSE org[o]]
    BY <1>6 DEF RowsEnded
  <2>2. ASSUME NEW o \in orgs PROVE org'[o].slack = org[o].slack
    <3>1. org'[o] = org[o] \/ org'[o] = [org[o] EXCEPT !.plan = "trial", !.sub = NoSession]
      BY <1>0, <2>1
    <3>2. org[o] \in Row
      BY <1>0
    <3> QED BY <3>1, <3>2, RowEnded, Zenon
  <2> QED BY <1>2, <2>1, <2>2 DEF WebhookStaysHome
<1>7. CASE RowSet
  <2>1. PICK u \in orgs, w \in Email \cup {NoOne} :
             /\ orgs' = orgs
             /\ \/ org' = [org EXCEPT ![u].bucket = TRUE]
                \/ org' = [org EXCEPT ![u].slack = w] /\ (w = org[u].email \/ w = NoOne)
    BY <1>7 DEF RowSet
  <2>2. ASSUME NEW o \in orgs PROVE Home(o)
    <3>0. org[o] \in Row
      BY <1>0
    <3>1. \/ org'[o] = org[o]
          \/ org'[o] = [org[o] EXCEPT !.bucket = TRUE]
          \/ org'[o] = [org[o] EXCEPT !.slack = w] /\ (w = org[o].email \/ w = NoOne)
      BY <1>0, <2>1 DEF TypeOK
    <3>2. CASE org'[o] = org[o]
      BY <1>2, <3>2
    <3>3. CASE org'[o] = [org[o] EXCEPT !.bucket = TRUE]
      <4>1. org'[o].slack = org[o].slack
        BY <3>0, <3>3, RowBucketed, Zenon
      <4> QED BY <1>2, <4>1
    <3>4. CASE org'[o] = [org[o] EXCEPT !.slack = w] /\ (w = org[o].email \/ w = NoOne)
      <4>1. org'[o].slack = w
        BY <3>0, <3>4 DEF Row
      <4> QED BY <1>0, <1>1, <3>4, <4>1
    <3> QED BY <3>1, <3>2, <3>3, <3>4
  <2> QED BY <2>1, <2>2 DEF WebhookStaysHome
<1> QED BY <1>3, <1>4, <1>5, <1>6, <1>7, RowCases DEF Stays

LEMMA PlansStep ==
    ASSUME Stays, [Next]_vars
    PROVE  PlanFollowsSubscription'
<1>0. /\ TypeOK /\ PlanFollowsSubscription /\ NoSession \notin Session
      /\ \A o \in orgs : o \in Org /\ org[o] \in Row
  BY DEF Stays, ProvisioningInv, ProvisioningAssumption, TypeOK
<1> DEFINE Follows(o) ==
      IF org'[o].sub = NoSession
      THEN org'[o].plan = "trial"
      ELSE org'[o].plan = checkout'[org'[o].sub].plan /\ Concerns(org[o].sub, o)'
<1>1. ASSUME NEW o \in orgs, org'[o].sub = org[o].sub, org'[o].plan = org[o].plan
      PROVE  Follows(o)
  <2>1. CASE org[o].sub = NoSession
    BY <1>0, <1>1, <2>1 DEF PlanFollowsSubscription
  <2>2. CASE org[o].sub # NoSession
    <3>1. PICK s \in Session : s = org[o].sub
      BY <1>0, <2>2 DEF Row
    <3>2. org[o].plan = checkout[s].plan /\ Concerns(s, o)
      BY <1>0, <2>2, <3>1 DEF PlanFollowsSubscription
    <3>3. checkout'[s] = checkout[s] /\ Concerns(s, o)'
      BY <1>0, <3>2, ConcernsKept DEF Concerns, SignsUp
    <3> QED BY <1>1, <2>2, <3>1, <3>2, <3>3 DEF Concerns, SignsUp
  <2> QED BY <2>1, <2>2
<1>2. CASE RowsSame
  BY <1>1, <1>2 DEF RowsSame, PlanFollowsSubscription
<1>3. CASE RowInserted
  <2>1. PICK u \in Org \ orgs, e \in Email \cup {NoOne} :
             orgs' = orgs \cup {u} /\ org' = [org EXCEPT ![u] = NewRow(e)]
    BY <1>3 DEF RowInserted
  <2>2. org'[u].sub = NoSession /\ org'[u].plan = "trial"
    BY <1>0, <2>1 DEF TypeOK, NewRow
  <2>3. \A o \in orgs : org'[o] = org[o]
    BY <1>0, <2>1 DEF TypeOK
  <2>4. \A o \in orgs : Follows(o)
    BY <1>1, <2>3
  <2> QED BY <2>1, <2>2, <2>4 DEF PlanFollowsSubscription
<1>4. CASE RowBought
  <2>1. PICK u \in orgs, s \in Session :
             /\ Concerns(s, u)
             /\ orgs' = orgs
             /\ org' = [org EXCEPT ![u] = [@ EXCEPT !.plan = checkout[s].plan, !.sub = s]]
    BY <1>4 DEF RowBought
  <2>2. ASSUME NEW o \in orgs PROVE Follows(o)
    <3>0. org[o] \in Row /\ checkout[s].plan \in Plan
      BY <1>0 DEF TypeOK, Checkout
    <3>1. CASE o # u
      BY <1>0, <1>1, <2>1, <3>1 DEF TypeOK
    <3>2. CASE o = u
      <4>1. org'[o] = [org[o] EXCEPT !.plan = checkout[s].plan, !.sub = s]
        BY <1>0, <2>1, <3>2 DEF TypeOK
      <4>2. org'[o].plan = checkout[s].plan /\ org'[o].sub = s
        BY <3>0, <4>1 DEF Row
      <4>3. checkout'[s] = checkout[s] /\ Concerns(s, o)'
        BY <1>0, <2>1, <3>2, ConcernsKept DEF Concerns, SignsUp
      <4> QED BY <1>0, <4>2, <4>3 DEF Concerns, SignsUp
    <3> QED BY <3>1, <3>2
  <2> QED BY <2>1, <2>2 DEF PlanFollowsSubscription
<1>5. CASE RowsEnded
  <2>1. PICK s \in cancelled :
             /\ orgs' = orgs
             /\ org' = [o \in Org |-> IF o \in Subscribed(s)
                                     THEN [org[o] EXCEPT !.plan = "trial", !.sub = NoSession]
                                     ELSE org[o]]
    BY <1>5 DEF RowsEnded
  <2>2. ASSUME NEW o \in orgs PROVE Follows(o)
    <3>0. org[o] \in Row
      BY <1>0
    <3>1. org'[o] = org[o] \/ org'[o] = [org[o] EXCEPT !.plan = "trial", !.sub = NoSession]
      BY <1>0, <2>1
    <3>2. CASE org'[o] = org[o]
      BY <1>1, <3>2
    <3>3. CASE org'[o] = [org[o] EXCEPT !.plan = "trial", !.sub = NoSession]
      <4>1. org'[o].plan = "trial" /\ org'[o].sub = NoSession
        BY <3>0, <3>3 DEF Row
      <4> QED BY <4>1
    <3> QED BY <3>1, <3>2, <3>3
  <2> QED BY <2>1, <2>2 DEF PlanFollowsSubscription
<1>6. CASE RowSet
  <2>1. PICK u \in orgs, w \in Email \cup {NoOne} :
             /\ orgs' = orgs
             /\ \/ org' = [org EXCEPT ![u].bucket = TRUE]
                \/ org' = [org EXCEPT ![u].slack = w]
    BY <1>6 DEF RowSet
  <2>2. ASSUME NEW o \in orgs PROVE Follows(o)
    <3>0. org[o] \in Row
      BY <1>0
    <3>1. \/ org'[o] = org[o]
          \/ org'[o] = [org[o] EXCEPT !.bucket = TRUE]
          \/ org'[o] = [org[o] EXCEPT !.slack = w]
      BY <1>0, <2>1 DEF TypeOK
    <3>2. LET q == [org[o] EXCEPT !.bucket = TRUE] IN q.plan = org[o].plan /\ q.sub = org[o].sub
      BY <3>0, RowBucketed, Zenon
    <3>3. LET q == [org[o] EXCEPT !.slack = w] IN q.plan = org[o].plan /\ q.sub = org[o].sub
      BY <3>0, RowSlacked, Zenon
    <3>4. org'[o].plan = org[o].plan /\ org'[o].sub = org[o].sub
      BY <3>1, <3>2, <3>3, Zenon
    <3> QED BY <1>1, <3>4
  <2> QED BY <2>1, <2>2 DEF PlanFollowsSubscription
<1> QED BY <1>2, <1>3, <1>4, <1>5, <1>6, RowCases DEF Stays

\* An org that loses its subscription loses it to the end of that subscription.
LEMMA DowngradeStep ==
    ASSUME ProvisioningAssumption, ProvisioningInv, [Next]_vars, NEW o \in orgs,
           org[o].sub # NoSession, org'[o].sub = NoSession
    PROVE  org[o].sub \in cancelled
<1>0. TypeOK /\ NoSession \notin Session /\ o \in Org /\ org[o] \in Row
  BY DEF ProvisioningInv, ProvisioningAssumption, TypeOK
<1>1. CASE RowsSame
  BY <1>1 DEF RowsSame
<1>2. CASE RowInserted
  BY <1>0, <1>2 DEF RowInserted, TypeOK
<1>3. CASE RowBought
  <2>1. PICK u \in orgs, s \in Session :
             org' = [org EXCEPT ![u] = [@ EXCEPT !.plan = checkout[s].plan, !.sub = s]]
    BY <1>3 DEF RowBought
  <2>2. checkout[s].plan \in Plan
    BY <1>0 DEF TypeOK, Checkout
  <2>3. org'[o] = org[o] \/ org'[o] = [org[o] EXCEPT !.plan = checkout[s].plan, !.sub = s]
    BY <1>0, <2>1 DEF TypeOK
  <2>4. LET q == [org[o] EXCEPT !.plan = checkout[s].plan, !.sub = s] IN q.sub = s
    BY <1>0, <2>2 DEF Row
  <2> QED BY <1>0, <2>3, <2>4
<1>4. CASE RowsEnded
  <2>1. PICK s \in cancelled :
             org' = [u \in Org |-> IF u \in Subscribed(s)
                                  THEN [org[u] EXCEPT !.plan = "trial", !.sub = NoSession]
                                  ELSE org[u]]
    BY <1>4 DEF RowsEnded
  <2>2. o \in Subscribed(s)
    BY <1>0, <2>1
  <2> QED BY <2>2 DEF Subscribed
<1>5. CASE RowSet
  <2>1. PICK u \in orgs, w \in Email \cup {NoOne} :
             org' = [org EXCEPT ![u].bucket = TRUE] \/ org' = [org EXCEPT ![u].slack = w]
    BY <1>5 DEF RowSet
  <2>2. \/ org'[o] = org[o]
        \/ org'[o] = [org[o] EXCEPT !.bucket = TRUE]
        \/ org'[o] = [org[o] EXCEPT !.slack = w]
    BY <1>0, <2>1 DEF TypeOK
  <2>3. LET q == [org[o] EXCEPT !.bucket = TRUE] IN q.sub = org[o].sub
    BY <1>0, RowBucketed, Zenon
  <2>4. LET q == [org[o] EXCEPT !.slack = w] IN q.sub = org[o].sub
    BY <1>0, RowSlacked, Zenon
  <2> QED BY <2>2, <2>3, <2>4, Zenon
<1> QED BY <1>1, <1>2, <1>3, <1>4, <1>5, RowCases

-----------------------------------------------------------------------------
(* The theorems                                                            *)

LEMMA InvStep ==
    ASSUME ProvisioningAssumption, ProvisioningInv, [Next]_vars
    PROVE  ProvisioningInv'
<1>1. Stays
  BY TypeStep, KeptStep DEF Stays
<1> QED BY <1>1, JobsStep, CheckoutsStep, HistoryStep, RevealedStep, SetupStep, EmailsStep,
           SlackStep, PlansStep DEF ProvisioningInv, Stays

\* The invariant holds of every behaviour of the billing and signup handlers.
THEOREM ProvisioningInvariant == Spec => []ProvisioningInv
<1>1. Init => ProvisioningInv
  BY InitInv, ProvisioningAssumption
<1>2. ProvisioningInv /\ [Next]_vars => ProvisioningInv'
  BY InvStep, ProvisioningAssumption
<1> QED BY <1>1, <1>2, PTL DEF Spec

\* Rows, Redis keys and handlers keep their types.
THEOREM ProvisioningTypeCorrect == Spec => []TypeOK
<1>1. ProvisioningInv => TypeOK
  BY DEF ProvisioningInv
<1> QED BY <1>1, ProvisioningInvariant, PTL

\* However many deliveries race for one address, it has one org.
THEOREM EmailsAreUnique == Spec => []OneOrgPerEmail
<1>1. ProvisioningInv => OneOrgPerEmail
  BY DEF ProvisioningInv
<1> QED BY <1>1, ProvisioningInvariant, PTL

\* A setup page reveals its own customer's key, to a bucket that is ready.
THEOREM SetupIsReady == Spec => []SetupLeadsHome
<1>1. ProvisioningInv => SetupLeadsHome
  BY DEF ProvisioningInv
<1> QED BY <1>1, ProvisioningInvariant, PTL

\* No customer's Slack webhook is ever stored in another's org.
THEOREM WebhooksStayHome == Spec => []WebhookStaysHome
<1>1. ProvisioningInv => WebhookStaysHome
  BY DEF ProvisioningInv
<1> QED BY <1>1, ProvisioningInvariant, PTL

\* Plan and subscription always agree.
THEOREM PlansFollow == Spec => []PlanFollowsSubscription
<1>1. ProvisioningInv => PlanFollowsSubscription
  BY DEF ProvisioningInv
<1> QED BY <1>1, ProvisioningInvariant, PTL

\* A signup that was answered 200 is complete.
THEOREM AcknowledgedIsComplete == Spec => []AckedIsProvisioned
<1>1. ProvisioningInv => AckedIsProvisioned
  BY DEF ProvisioningInv
<1> QED BY <1>1, ProvisioningInvariant, PTL

\* Only the end of an org's own subscription takes it away.
THEOREM DowngradesAreEarned == Spec => OnlyItsEndDowngrades
<1> DEFINE Earned == \A o \in orgs : org[o].sub # NoSession /\ org'[o].sub = NoSession =>
                        org[o].sub \in cancelled
<1>1. ProvisioningInv /\ [Next]_vars => [Earned]_vars
  BY DowngradeStep, ProvisioningAssumption
<1>2. Spec => [][Earned]_vars
  BY <1>1, ProvisioningInvariant, PTL DEF Spec
<1> QED BY <1>2 DEF OnlyItsEndDowngrades
=============================================================================
