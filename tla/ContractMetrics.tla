--------------------------- MODULE ContractMetrics ---------------------------
(***************************************************************************)
(* What the metrics of one DAO count, and what readers of dao_stats see     *)
(* while they are being collected: DaoContract.getGroups, getProposals,    *)
(* getProposalsBy and getBounties, the metric classes built on them, in    *)
(* the order of DAO_METRICS, and the totals the governance service computes *)
(* from the stored values.                                                 *)
(*                                                                         *)
(* A sweep writes one value at a time.  Each list it needs is read from    *)
(* the chain once, page by page, and then kept for 300 seconds; meanwhile  *)
(* the DAO goes on, between two pages too.  The NFTs of the DAO are read   *)
(* from one contract.                                                      *)
(***************************************************************************)
EXTENDS Integers, Sequences, FiniteSets, SequencesExt

CONSTANTS
    Members,    \* accounts that may be members of a group
    Policies,   \* policies the DAO may have, sequences of roles
    Kinds,      \* kinds of the proposals that are made
    Outcomes,   \* how proposals may be decided
    Amounts,    \* amounts of the bounties that are added
    Tokens, Owned, \* the NFTs, and those the DAO owns at first, in the order of their contract
    ChunkSize,  \* what a page holds: 200 in the code, 50 for NFTs
    MaxChanges, \* bound: changes to the DAO
    MaxFailures \* bound: calls that fail

ASSUME ConstantsAssumption == ChunkSize \in Nat \ {0} /\ MaxChanges \in Nat /\ MaxFailures \in Nat

\* A role is a group with its members, or everyone.  A kind is an object with
\* one key, or a string; `role` matters when a member is added or removed.
\* The statuses Moved and Failed are counted by no metric, like Removed.
ProposalKinds == {"AddMemberToRole", "RemoveMemberFromRole", "AddBounty", "BountyDone",
                  "Transfer", "ChangePolicy", "Vote"}
MemberKinds == {"AddMemberToRole", "RemoveMemberFromRole"}
Roles == {"council", "Council", "other"}
Role == [name : Roles \cup {"all"}, group : BOOLEAN, members : SUBSET Members]
ProposalStatuses == {"InProgress", "Approved", "Rejected", "Removed", "Expired"}
Proposal == [kind : ProposalKinds, role : Roles \cup {"none"}, status : ProposalStatuses]
NewProposals ==
    {p \in Proposal : /\ p.kind \in Kinds /\ p.status = "InProgress"
                      /\ p.role = "none" <=> p.kind \notin MemberKinds}
Lists == {"groups", "proposals", "bounties", "nfts"}

ASSUME InputsAssumption ==
    /\ Kinds \subseteq ProposalKinds
    /\ Outcomes \subseteq ProposalStatuses \ {"InProgress"}
    /\ Amounts \subseteq Nat
    /\ Owned \in Seq(Tokens)
    /\ IsFiniteSet(Members) /\ \A p \in Policies : p \in Seq(Role)

VARIABLES
    policy, proposals, bounties, nfts, \* the DAO on chain
    reading,  \* <<>> or <<pages of the list being read>>, each <<>> or <<page>>
    cache,    \* per list: <<>>, or <<what is cached>>
    stats,    \* dao_stats: the value of every metric
    at,       \* metrics of the sweep that are done
    changes, failures, \* counters for the bounds
    \* History, read by no action of the program:
    least, most, \* how long the list was at least and at most while it was read
    steady,    \* places of that list that held one entry all the while
    disturbed, \* in this sweep a metric failed or a list was dropped
    mixed      \* the values stem from a sweep that was disturbed

chain == <<policy, proposals, bounties, nfts>>
pages == <<reading, least, most, steady>>
vars == <<chain, pages, cache, stats, at, changes, failures, disturbed, mixed>>

-----------------------------------------------------------------------------
(* The lists and the metrics                                               *)

IsRoleGroup(r) == r.group
IsRoleGroupCouncil(r) == IsRoleGroup(r) /\ r.name \in {"council", "Council"}
IsProposalKind(p, kind) == p.kind = kind

\* The list on the chain.  The groups keep their places in the policy.
Fetch(l) ==
    CASE l = "groups"    -> RestrictValues(policy, IsRoleGroup)
      [] l = "proposals" -> proposals
      [] l = "bounties"  -> bounties
      [] l = "nfts"      -> nfts

\* What the contract answers to from_index and limit.
Page(list, from) ==
    SubSeq(list, from + 1, IF from + ChunkSize < Len(list) THEN from + ChunkSize ELSE Len(list))

\* Mutant: the last page is left out.
PagesBelowLast(l) == IF l = "nfts" THEN 1 ELSE (Len(Fetch(l)) + ChunkSize - 2) \div ChunkSize

\* The pages a read begins with.  get_last_proposal_id and get_last_bounty_id tell
\* how many there are, one beyond the last for proposals; NFTs are read until a page
\* is not full.
Pages(l) ==
    CASE l = "proposals" -> Len(Fetch(l)) \div ChunkSize + 1
      [] l = "bounties"  -> (Len(Fetch(l)) + ChunkSize - 1) \div ChunkSize
      [] l = "nfts"      -> 1

\* getProposalsBy: the kinds are combined with every, the statuses with
\* includes; an absent or empty filter lets all pass.
ProposalsBy(ps, kinds, statuses) ==
    {i \in DOMAIN ps :
        /\ kinds = {} \/ \A kind \in kinds : IsProposalKind(ps[i], kind)
        /\ statuses = {} \/ ps[i].status \in statuses}

\* The metric classes, from the list each of them is computed from.
CouncilSizeMetric(gs) ==  \* the first council group counts
    LET council == {i \in DOMAIN gs : IsRoleGroupCouncil(gs[i])}
        first == CHOOSE i \in council : \A j \in council : i <= j
    IN  IF council = {} THEN 0 ELSE Cardinality(gs[first].members)
GroupsCountMetric(gs) == Cardinality(DOMAIN gs)
MembersCountMetric(gs) == Cardinality(UNION {gs[i].members : i \in DOMAIN gs})
ProposalsCountMetric(ps) == Len(ps)
ProposalsMemberCountMetric(ps) == Cardinality(ProposalsBy(ps, MemberKinds, {}))
ProposalsCouncilMemberCountMetric(ps) ==
    Cardinality({i \in DOMAIN ps : ps[i].kind \in MemberKinds /\ ps[i].role \in {"council", "Council"}})
ProposalsPolicyChangeCountMetric(ps) == Cardinality(ProposalsBy(ps, {"ChangePolicy"}, {}))
ProposalsTransferCountMetric(ps) == Cardinality(ProposalsBy(ps, {"Transfer"}, {}))
ProposalsBountyCountMetric(ps) == Cardinality(ProposalsBy(ps, {"AddBounty", "BountyDone"}, {}))
ProposalsInProgressCountMetric(ps) == Cardinality(ProposalsBy(ps, {}, {"InProgress"}))
ProposalsApprovedCountMetric(ps) == Cardinality(ProposalsBy(ps, {}, {"Approved"}))
ProposalsRejectedCountMetric(ps) == Cardinality(ProposalsBy(ps, {}, {"Rejected"}))
ProposalsExpiredCountMetric(ps) == Cardinality(ProposalsBy(ps, {}, {"Expired"}))
BountiesCountMetric(bs) == Len(bs)
BountiesValueLockedMetric(bs) == SumFunctionOnSet(bs, DOMAIN bs)
NftsCountMetric(ns) == Len(ns)

\* Mutant: the statuses come before the total.
StatusesFirst ==
    <<"APPROVED", "REJECTED", "EXPIRED", "IN_PROGRESS", "PROPOSALS", "MEMBER",
      "COUNCIL_MEMBER", "POLICY_CHANGE", "TRANSFER", "BOUNTY",
      "COUNCIL_SIZE", "GROUPS", "MEMBERS", "BOUNTIES", "BOUNTIES_VALUE", "NFTS">>

\* The order of DAO_METRICS; the metrics that read no list of the DAO are left out.
Order ==
    <<"COUNCIL_SIZE", "GROUPS", "MEMBERS", "PROPOSALS", "MEMBER", "COUNCIL_MEMBER",
      "POLICY_CHANGE", "TRANSFER", "BOUNTY", "IN_PROGRESS", "APPROVED", "REJECTED",
      "EXPIRED", "BOUNTIES", "BOUNTIES_VALUE", "NFTS">>

Metrics == ToSet(Order)

\* The list each metric is computed from.
ListOf(m) ==
    CASE m \in {"COUNCIL_SIZE", "GROUPS", "MEMBERS"} -> "groups"
      [] m \in {"BOUNTIES", "BOUNTIES_VALUE"}        -> "bounties"
      [] m = "NFTS"                                 -> "nfts"
      [] OTHER                                       -> "proposals"

\* getType and getCurrentValue of the metrics.
CurrentValue(m, list) ==
    CASE m = "COUNCIL_SIZE"   -> CouncilSizeMetric(list)
      [] m = "GROUPS"         -> GroupsCountMetric(list)
      [] m = "MEMBERS"        -> MembersCountMetric(list)
      [] m = "PROPOSALS"      -> ProposalsCountMetric(list)
      [] m = "MEMBER"         -> ProposalsMemberCountMetric(list)
      [] m = "COUNCIL_MEMBER" -> ProposalsCouncilMemberCountMetric(list)
      [] m = "POLICY_CHANGE"  -> ProposalsPolicyChangeCountMetric(list)
      [] m = "TRANSFER"       -> ProposalsTransferCountMetric(list)
      [] m = "BOUNTY"         -> ProposalsBountyCountMetric(list)
      [] m = "IN_PROGRESS"    -> ProposalsInProgressCountMetric(list)
      [] m = "APPROVED"       -> ProposalsApprovedCountMetric(list)
      [] m = "REJECTED"       -> ProposalsRejectedCountMetric(list)
      [] m = "EXPIRED"        -> ProposalsExpiredCountMetric(list)
      [] m = "BOUNTIES"       -> BountiesCountMetric(list)
      [] m = "BOUNTIES_VALUE" -> BountiesValueLockedMetric(list)
      [] m = "NFTS"           -> NftsCountMetric(list)

-----------------------------------------------------------------------------
(* The sweep                                                               *)

Init ==
    /\ policy \in Policies /\ proposals = <<>> /\ bounties = <<>> /\ nfts = Owned
    /\ reading = <<>> /\ least = 0 /\ most = 0 /\ steady = {}
    /\ cache = [l \in Lists |-> <<>>]
    /\ stats = [m \in Metrics |-> 0]
    /\ at = 0
    /\ changes = 0 /\ failures = 0
    /\ disturbed = FALSE /\ mixed = FALSE

\* The list of the next metric has to be read.
Missing(l) == at < Len(Order) /\ l = ListOf(Order[at + 1]) /\ cache[l] = <<>>
NotReading == reading = <<>>

\* The value of the next metric is stored.
Store(list) ==
    LET m == Order[at + 1]
    IN  /\ stats' = [stats EXCEPT ![m] = CurrentValue(m, list)]
        /\ at' = at + 1

\* Mutant: nothing is kept.
KeepNothing(l, list) == cache' = cache

Keep(l, list) == cache' = [cache EXCEPT ![l] = <<list>>]

\* getGroups: one call.
ReadGroups ==
    /\ Missing("groups")
    /\ Keep("groups", Fetch("groups"))
    /\ Store(Fetch("groups"))
    /\ UNCHANGED <<chain, pages, changes, failures, disturbed, mixed>>

\* The number of pages is read and all are requested at once, or the first.
StartReading(l) ==
    /\ l # "groups" /\ Missing(l) /\ NotReading
    /\ reading' = <<[page \in 1 .. Pages(l) |-> <<>>]>>
    /\ least' = Len(Fetch(l)) /\ most' = Len(Fetch(l)) /\ steady' = DOMAIN Fetch(l)
    /\ UNCHANGED <<chain, cache, stats, at, changes, failures, disturbed, mixed>>

\* A page is answered, in any order.  A full page of NFTs is followed by the next.
ReadPage(l, number) ==
    /\ Missing(l) /\ ~ NotReading
    /\ reading[1][number] = <<>>
    /\ LET page == Page(Fetch(l), (number - 1) * ChunkSize)
           read == [reading[1] EXCEPT ![number] = <<page>>]
       IN  reading' = <<IF l = "nfts" /\ Len(page) = ChunkSize THEN Append(read, <<>>) ELSE read>>
    /\ UNCHANGED <<chain, least, most, steady, cache, stats, at, changes, failures, disturbed, mixed>>

\* All pages are there: their concatenation is kept.
FinishReading(l) ==
    /\ Missing(l) /\ ~ NotReading
    /\ \A number \in DOMAIN reading[1] : reading[1][number] # <<>>
    /\ LET list == FlattenSeq([number \in DOMAIN reading[1] |-> reading[1][number][1]])
       IN  Keep(l, list) /\ Store(list)
    /\ reading' = <<>> /\ least' = 0 /\ most' = 0 /\ steady' = {}
    /\ UNCHANGED <<chain, changes, failures, disturbed, mixed>>

\* The next metric is computed from the list that is kept.
ReadKept(l) ==
    /\ at < Len(Order) /\ l = ListOf(Order[at + 1]) /\ cache[l] # <<>>
    /\ Store(cache[l][1])
    /\ UNCHANGED <<chain, pages, cache, changes, failures, disturbed, mixed>>

\* The list cannot be read: the metric keeps its value and the next is tried.
MetricFails ==
    /\ failures < MaxFailures /\ failures' = failures + 1
    /\ \E l \in Lists : Missing(l)
    /\ at' = at + 1
    /\ reading' = <<>> /\ least' = 0 /\ most' = 0 /\ steady' = {}
    /\ disturbed' = TRUE /\ mixed' = TRUE
    /\ UNCHANGED <<chain, cache, stats, changes>>

\* The NFT contract is none, or has no such method: it counts as having none.
NftsUnreadable ==
    /\ failures < MaxFailures /\ failures' = failures + 1
    /\ Missing("nfts") /\ NotReading
    /\ Store(<<>>)
    /\ UNCHANGED <<chain, pages, cache, changes, disturbed, mixed>>

\* The metrics of the DAO are done; the next run will sweep again.
FinishSweep ==
    /\ at = Len(Order)
    /\ at' = 0
    /\ disturbed' = FALSE
    /\ mixed' = disturbed
    /\ UNCHANGED <<chain, pages, cache, stats, changes, failures>>

\* 300 seconds are over.
Expires(l) ==
    /\ cache[l] # <<>>
    /\ cache' = [cache EXCEPT ![l] = <<>>]
    /\ disturbed' = (disturbed \/ at > 0)
    /\ mixed' = (mixed \/ at > 0)
    /\ UNCHANGED <<chain, pages, stats, at, changes, failures>>

-----------------------------------------------------------------------------
(* The DAO                                                                 *)

Changes == changes < MaxChanges /\ changes' = changes + 1

Sweep == <<cache, stats, at, failures, disturbed, mixed>>

\* An entry that was decided on meanwhile is the same entry.
SameEntry(l, old, new) == IF l = "proposals" THEN old.kind = new.kind ELSE old = new

\* The list changes, maybe while it is read.
Becomes(l, list) ==
    LET read == ~ NotReading /\ Missing(l)
        length == Len(list)
    IN  /\ least' = IF read /\ length < least THEN length ELSE least
        /\ most' = IF read /\ length > most THEN length ELSE most
        /\ steady' = IF read
                     THEN {i \in steady : i \in DOMAIN list /\ SameEntry(l, Fetch(l)[i], list[i])}
                     ELSE steady
        /\ reading' = reading

AddProposal(p) ==
    /\ Changes
    /\ proposals' = Append(proposals, p)
    /\ Becomes("proposals", proposals')
    /\ UNCHANGED <<policy, bounties, nfts, Sweep>>

\* A proposal is decided once.
Decide(i, status) ==
    /\ Changes
    /\ proposals[i].status = "InProgress"
    /\ proposals' = [proposals EXCEPT ![i].status = status]
    /\ UNCHANGED <<policy, bounties, nfts, pages, Sweep>>

SetPolicy(p) ==
    /\ Changes
    /\ policy' = p
    /\ UNCHANGED <<proposals, bounties, nfts, pages, Sweep>>

AddBounty(amount) ==
    /\ Changes
    /\ bounties' = Append(bounties, amount)
    /\ Becomes("bounties", bounties')
    /\ UNCHANGED <<policy, proposals, nfts, Sweep>>

\* The list of an NFT contract when a token leaves it: those behind it move up,
\* or the last one takes its place.
Without(list, i) ==
    {RemoveAt(list, i), SubSeq([list EXCEPT ![i] = list[Len(list)]], 1, Len(list) - 1)}

\* The DAO is given an NFT, or gives one away.
TransferNft(owned) ==
    /\ Changes
    /\ nfts' = owned
    /\ Becomes("nfts", owned)
    /\ UNCHANGED <<policy, proposals, bounties, Sweep>>

DaoChanges ==
    \/ \E p \in NewProposals : AddProposal(p)
    \/ \E i \in DOMAIN proposals, status \in Outcomes :
          Decide(i, status)
    \/ \E p \in Policies : SetPolicy(p)
    \/ \E amount \in Amounts : AddBounty(amount)
    \/ \E token \in Tokens \ Range(nfts) : TransferNft(Append(nfts, token))
    \/ \E i \in DOMAIN nfts : \E owned \in Without(nfts, i) : TransferNft(owned)

Next ==
    \/ ReadGroups \/ MetricFails \/ NftsUnreadable \/ FinishSweep
    \/ \E l \in Lists : StartReading(l) \/ FinishReading(l) \/ ReadKept(l)
    \/ \E l \in Lists : ~ NotReading /\ \E number \in DOMAIN reading[1] : ReadPage(l, number)
    \/ \E l \in Lists : Expires(l)
    \/ DaoChanges

Spec == Init /\ [][Next]_vars

-----------------------------------------------------------------------------
(* Readers: GovernanceService.totals                                       *)

\* proposalsByType.governance: what the other types leave of the total.
GovernanceShare == stats["PROPOSALS"] - (stats["TRANSFER"] + stats["BOUNTY"] + stats["MEMBER"])

\* The numerator and the denominator of voteRate.
Approved == stats["APPROVED"]
Total == stats["PROPOSALS"]

-----------------------------------------------------------------------------
(* Properties                                                              *)

\* At any moment, also in the middle of a sweep, when some values are new and
\* others a day old, the decided and the open proposals are no more than the
\* proposals, so no vote rate exceeds 1, and what the other types leave for
\* governance is never negative.  This rests on the order of the metrics (the
\* total before its parts, the open before the decided) and on all of them
\* being computed from one list.
PartsWithinTotal ==
    ~ mixed =>
        /\ stats["IN_PROGRESS"] + Approved + stats["REJECTED"] + stats["EXPIRED"] <= Total
        /\ GovernanceShare >= stats["POLICY_CHANGE"]

\* After a sweep that was not disturbed, the values that stem from one
\* list fit together: the council is part of the members, members need groups,
\* and what is locked in bounties needs a bounty.
GroupsAgree ==
    (at = Len(Order) /\ ~ disturbed) =>
        /\ stats["COUNCIL_SIZE"] <= stats["MEMBERS"]
        /\ stats["GROUPS"] = 0 => stats["MEMBERS"] = 0
        /\ stats["BOUNTIES"] = 0 => stats["BOUNTIES_VALUE"] = 0

\* A list that was read page by page, while it changed, has a length the list had
\* meanwhile, and every entry that kept its place all the while is in it, at that
\* place (as it was when its page was read).  All proposals and bounties keep theirs, so
\* none that was there at the start is missed; of the NFTs, those that move up when one
\* before them is given away may be missed, or read twice.
ReadsWhole ==
    [][\A l \in Lists \ {"groups"} : (cache[l] = <<>> /\ cache'[l] # <<>>) =>
          LET list == cache'[l][1]
          IN  /\ Len(list) \in least .. most
              /\ \A i \in steady : i \in DOMAIN list /\ SameEntry(l, list[i], Fetch(l)[i])]_vars

\* dao-stats-metric.ts: PROPOSALS_BOUNTY_COUNT is the "total count of proposals
\* with kind = AddBounty | BountyDone", PROPOSALS_MEMBER_COUNT the one of
\* proposals "with kind = AddMemberToRole | RemoveMemberFromRole".
CountsEitherKind ==
    (at = Len(Order) /\ ~ disturbed) =>
        LET ps == cache["proposals"][1]
            Of(kinds) == Cardinality({i \in DOMAIN ps : ps[i].kind \in kinds})
        IN  /\ stats["BOUNTY"] = Of({"AddBounty", "BountyDone"})
            /\ stats["MEMBER"] = Of(MemberKinds)

=============================================================================
