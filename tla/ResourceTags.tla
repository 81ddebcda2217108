---------------------------- MODULE ResourceTags ----------------------------
(***************************************************************************)
(* The user tags of one resource: attached through the Global Tagging      *)
(* service, read back from the Global Search index, which follows later,   *)
(* and mixed with the tags of the environment variable IC_ENV_TAGS, which  *)
(* every update attaches on top of the configured ones.                    *)
(*                                                                         *)
(* A resource is of one of three kinds:                                    *)
(*   global     SDKv2, with UpdateGlobalTagsUsingCRN (ibm_is_lb)           *)
(*   plain      SDKv2, with its older copy UpdateTagsUsingCRN              *)
(*   framework  Plugin Framework, with the helpers of framework_tags.go,   *)
(*              which leave the environment's tags out of the state        *)
(* The SDKv2 kinds keep the environment's tags in the state and hide their *)
(* removal from the plan by counting (ResourceTagsCustomizeDiff): the tags *)
(* to be removed against the entries of IC_ENV_TAGS, which is a list and   *)
(* may name a tag twice.                                                   *)
(***************************************************************************)
EXTENDS Naturals, Sequences, FiniteSets

CONSTANTS
    Kinds,        \* the kinds of resource looked at
    Tags,         \* tags
    Environments, \* the values IC_ENV_TAGS takes, as lists of tags
    MaxPlans,     \* bound on changes of configuration and environment
    MaxEdits,     \* bound on tags attached or detached by somebody else
    MaxFaults     \* bound on failed requests

ASSUME KindAssumption == Kinds \subseteq {"global", "plain", "framework"}
ASSUME TagAssumption == IsFiniteSet(Tags) /\ Environments \subseteq Seq(Tags)
ASSUME BoundAssumption == MaxPlans \in Nat /\ MaxEdits \in Nat /\ MaxFaults \in Nat

VARIABLES
    kind,      \* the resource's kind
    attached,  \* the tags at the service
    index,     \* the tags as the search index has them
    config,    \* the configured tags
    envList,   \* the entries of IC_ENV_TAGS
    state,     \* the tags in the state
    created,   \* whether the resource has been created
    pc,        \* where the handler is
    result,    \* how the last apply ended
    clean,     \* the current apply has met nothing that excuses a difference
    plans, edits, faults

vars == <<kind, attached, index, config, envList, state, created, pc, result, clean, plans, edits, faults>>
counters == <<plans, edits, faults>>
world == <<kind, config, envList, plans, edits>>

\* The environment's tags.
env == {envList[i] : i \in DOMAIN envList}

TypeOK ==
    /\ kind \in Kinds
    /\ attached \subseteq Tags /\ index \subseteq Tags
    /\ config \subseteq Tags /\ envList \in Environments /\ state \subseteq Tags
    /\ created \in BOOLEAN
    /\ pc \in {"idle", "plan", "detach", "attach", "wait", "read"}
    /\ result \in {"none", "ok", "error"} /\ clean \in BOOLEAN
    /\ plans \in 0..MaxPlans /\ edits \in 0..MaxEdits /\ faults \in 0..MaxFaults

Init ==
    /\ kind \in Kinds /\ attached = {} /\ index = {}
    /\ config \in SUBSET Tags /\ envList \in Environments /\ state = {}
    /\ created = FALSE /\ pc = "idle" /\ result = "none" /\ clean = TRUE
    /\ plans = 0 /\ edits = 0 /\ faults = 0

(***************************************************************************)
(* Reading.  The helpers of the framework drop the environment's tags.  A  *)
(* search that fails is logged, and the state is set to no tags.           *)
(***************************************************************************)
\* Fault: the tags are read as they are.
FaultySeen == index

Seen == IF kind = "framework" THEN index \ env ELSE index

Fault == faults < MaxFaults /\ faults' = faults + 1

\* Fault: the refresh leaves the tags as they are.
FaultyRefresh ==
    /\ created /\ pc = "idle" /\ pc' = "plan" /\ result' = "none"
    /\ clean' = (index = attached)
    /\ UNCHANGED <<attached, index, state, created, faults>> /\ UNCHANGED world

Refresh ==
    /\ created /\ pc = "idle" /\ pc' = "plan" /\ result' = "none"
    /\ \/ state' = Seen /\ clean' = (index = attached) /\ UNCHANGED faults
       \/ state' = {} /\ clean' = FALSE /\ Fault
    /\ UNCHANGED <<attached, index, created>> /\ UNCHANGED world

(***************************************************************************)
(* Planning.                                                               *)
(***************************************************************************)
Removed == state \ config
Added == config \ state

\* Fault: a tag that is added besides is forgotten with the rest.
FaultySuppressed ==
    kind # "framework" /\ envList # <<>> /\ Cardinality(Removed) = Len(envList)

Suppressed ==
    /\ kind # "framework" /\ envList # <<>>
    /\ Cardinality(Removed) = Len(envList) /\ Added = {}

Unchanged == state = config \/ Suppressed

\* Nothing to change.
PlanNothing ==
    /\ pc = "plan" /\ Unchanged /\ pc' = "idle" /\ result' = "ok"
    /\ UNCHANGED <<attached, index, state, created, clean, faults>> /\ UNCHANGED world

PlanUpdate ==
    /\ pc = "plan" /\ ~Unchanged /\ pc' = "detach"
    /\ UNCHANGED <<attached, index, state, created, result, clean, faults>> /\ UNCHANGED world

\* A creation has no old tags.
Create ==
    /\ ~created /\ pc = "idle"
    /\ pc' = IF config = {} /\ env = {} THEN "read" ELSE "detach"
    /\ UNCHANGED <<attached, index, state, created, result, clean, faults>> /\ UNCHANGED world

(***************************************************************************)
(* The requests of an update.  An error is logged by an SDKv2 handler, is  *)
(* a warning in the creation of a framework resource, and ends its update. *)
(***************************************************************************)
Fail ==
    /\ Fault /\ clean' = FALSE
    /\ IF kind = "framework" /\ created
       THEN pc' = "idle" /\ result' = "error"
       ELSE pc' = "read" /\ UNCHANGED result
    /\ UNCHANGED <<index, state, created>> /\ UNCHANGED world

Step(p) == pc' = p /\ UNCHANGED <<index, state, created, result, faults>> /\ UNCHANGED world

Detach ==
    /\ pc = "detach" /\ attached' = attached \ Removed
    /\ Step("attach") /\ UNCHANGED clean

\* Some of the tags, or all or none of them, are not detached.
DetachFails ==
    /\ pc = "detach" /\ Removed # {} /\ Fail
    /\ \E done \in SUBSET Removed : attached' = attached \ done

\* What an attachment asks for: the environment's tags always.
ToAttach == Added \cup env

AfterAttach == IF kind = "plain" \/ ToAttach = {} THEN "read" ELSE "wait"

Attach ==
    /\ pc = "attach" /\ attached' = attached \cup ToAttach
    /\ Step(AfterAttach) /\ UNCHANGED clean

\* A tag in error in the results of an attachment: only the older copy looks.
AttachInPart ==
    /\ pc = "attach" /\ ToAttach # {}
    /\ \E done \in SUBSET ToAttach : attached' = attached \cup done
    /\ IF kind = "plain" THEN Fail
       ELSE /\ Fault /\ pc' = AfterAttach /\ clean' = FALSE
            /\ UNCHANGED <<index, state, created, result>> /\ UNCHANGED world

AttachFails == pc = "attach" /\ ToAttach # {} /\ UNCHANGED attached /\ Fail

(***************************************************************************)
(* The wait for the index compares it with the configured tags.  Timeout   *)
(* and errors are logged.                                                  *)
(***************************************************************************)
\* Fault: the wait looks for the tags it has just attached.
FaultyAvailable == index = ToAttach

Available == index = config

WaitSucceeds == pc = "wait" /\ Available /\ Step("read") /\ UNCHANGED <<attached, clean>>
WaitTimesOut == pc = "wait" /\ ~Available /\ Step("read") /\ UNCHANGED <<attached, clean>>

(***************************************************************************)
(* The read that ends the handler; a framework resource keeps the planned  *)
(* tags.                                                                   *)
(***************************************************************************)
\* Fault: the tags of the plan are kept when they are unknown, too.
FaultyRead ==
    /\ pc = "read" /\ pc' = "idle" /\ result' = "ok" /\ created' = TRUE
    /\ state' \in {config, {"unknown"}}
    /\ UNCHANGED <<attached, index, clean, faults>> /\ UNCHANGED world

Read ==
    /\ pc = "read" /\ pc' = "idle" /\ result' = "ok" /\ created' = TRUE
    /\ IF kind = "framework" THEN state' = config /\ UNCHANGED faults
       ELSE \/ state' = Seen /\ UNCHANGED faults
            \/ state' = {} /\ Fault
    /\ UNCHANGED <<attached, index, clean>> /\ UNCHANGED world

(***************************************************************************)
(* The index follows, the user changes the configuration or the            *)
(* environment, and somebody else attaches or detaches a tag.              *)
(***************************************************************************)
Follow ==
    /\ index # attached /\ index' = attached
    /\ UNCHANGED <<kind, attached, config, envList, state, created, pc, result, clean>> /\ UNCHANGED counters

Configure ==
    /\ created /\ pc = "idle" /\ plans < MaxPlans /\ plans' = plans + 1
    /\ \/ config' \in SUBSET Tags /\ UNCHANGED envList
       \/ envList' \in Environments /\ UNCHANGED config
    /\ result' = "none"
    /\ UNCHANGED <<kind, attached, index, state, created, pc, clean, edits, faults>>

Edit ==
    /\ created /\ edits < MaxEdits /\ edits' = edits + 1 /\ clean' = FALSE
    /\ \E t \in Tags : attached' = IF t \in attached THEN attached \ {t} ELSE attached \cup {t}
    /\ UNCHANGED <<kind, index, config, envList, state, created, pc, result, plans, faults>>

Handler ==
    \/ Create \/ Refresh \/ PlanNothing \/ PlanUpdate
    \/ Detach \/ DetachFails \/ Attach \/ AttachInPart \/ AttachFails
    \/ WaitSucceeds \/ WaitTimesOut \/ Read

Next == Handler \/ Follow \/ Configure \/ Edit
Spec == Init /\ [][Next]_vars
\* The user applies again and again, and the index follows.
FairSpec == Spec /\ WF_vars(Handler) /\ WF_vars(Follow)

(***************************************************************************)
(* Properties                                                              *)
(***************************************************************************)
\* What no plan shows: the removal of as many other tags as IC_ENV_TAGS has
\* entries (structures.go:3043), and tags of the environment that are missing
\* while the configured ones are there.
Blind ==
    /\ Unchanged
    /\ IF state = config THEN ~(env \subseteq attached) ELSE Removed # env

\* An apply that read the truth, had no failed request and no company reports
\* success only when the resource has the configured tags and the
\* environment's, and no others, or no plan shows what is wrong.
SuccessIsTrue ==
    result = "ok" /\ clean => attached = config \cup env \/ Blind

\* The wait for the tags is in vain only when the index lags, when requests
\* failed or others interfere, or when the environment has tags of its own:
\* then always (structures.go:2887).
TimesOutForACause ==
    [][WaitTimesOut => index # attached \/ ~clean \/ ~(env \subseteq config)]_vars

\* Once configuration and environment stay, a resource has its tags again and
\* again, for all failed requests and stale reads, unless no plan shows the rest.
Converges == []<>(attached = config \cup env) \/ <>[]Blind

\* A resource with all its tags shows no difference: the tags that a plan would
\* remove are none or as many as IC_ENV_TAGS has entries, or a framework
\* resource finds every configured tag in what it reads.
Counted == IF kind = "framework" THEN config \cap env = {}
           ELSE Cardinality(env \ config) \in {0, Len(envList)}

\* And plans become empty, unless the environment's tags are counted wrongly:
\* some of them are configured as well, or, for an SDKv2 resource, IC_ENV_TAGS
\* names a tag twice, which is attached once; then every plan shows a change.
\* Or unless the refreshes go on reading an index that lags, which may show the
\* moment between detaching the environment's tags and attaching them again.
Idempotent ==
    <>[](pc # "detach") \/ <>[]~Counted \/ []<>(pc = "plan" /\ ~clean)
=============================================================================
