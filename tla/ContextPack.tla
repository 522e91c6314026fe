------------------------------ MODULE ContextPack ------------------------------
(***************************************************************************)
(* What of a session's context one model call is sent: the channels are    *)
(* packed under limits, the limits are lowered until the estimate of the   *)
(* request fits the window, and room that is left is given back.           *)
(*                                                                         *)
(* A text is the number of its tokens.  "quotes" is how many of every      *)
(* eight tokens of it JSON escapes: once in a channel's own estimate, and  *)
(* twice on the wire, where a structured message is a string.              *)
(***************************************************************************)
EXTENDS Integers, Sequences, FiniteSets, Folds, SequencesExt

CONSTANTS MaxTokens,       \* max_context_tokens
          ToolsCore,       \* tools_core_limit
          MaxSlices,       \* max_source_slices
          MinTurns,        \* min_recent_turns
          DigestTokens     \* max_older_digest_tokens

Smaller(a, b) == IF a < b THEN a ELSE b
Larger(a, b) == IF a > b THEN a ELSE b
Total(s) == FoldLeft(LAMBDA sum, n : sum + n, 0, s)
Costs(Cost(_), s) == Total([k \in DOMAIN s |-> Cost(s[k])])

-----------------------------------------------------------------------------
(* The budget.                                                             *)
Channel == {"system", "working", "memory", "source", "skill", "tools"}
FloorShare == [system |-> 5, working |-> 4, memory |-> 2, source |-> 0, skill |-> 3, tools |-> 8]
SoftShare == [system |-> 5, working |-> 30, memory |-> 12, source |-> 25, skill |-> 15, tools |-> 15]

Floor(c) == (MaxTokens * FloorShare[c]) \div 100
SoftCap(c) == Larger(Floor(c), (MaxTokens * SoftShare[c]) \div 100)
SourceHardMax == Larger(0, MaxTokens - Total([k \in 1..5 |-> Floor(<<"system", "working", "memory", "skill", "tools">>[k])]))
Target == (MaxTokens * 65) \div 100

(* Texts that are cut end in a marker of four tokens.                      *)
Marker == 4
Trim(text, limit) == IF text <= limit THEN text ELSE limit + Marker

-----------------------------------------------------------------------------
(* Tools: a sequence of [bare, desc].                                      *)
ToolCost(t) == t.bare + t.desc

PackTool(limit, packed, tool) ==
    LET used == Costs(ToolCost, packed)
        short == IF tool.desc = 0 THEN tool
                 ELSE [tool EXCEPT !.desc = Trim(tool.desc, Larger(8, limit - used - tool.bare))]
    IN CASE Len(packed) < ToolsCore \/ used + ToolCost(tool) <= limit -> Append(packed, tool)
         [] used + ToolCost(short) <= limit -> Append(packed, short)
         [] OTHER -> packed
PackTools(tools, limit) == FoldLeft(LAMBDA packed, tool : PackTool(limit, packed, tool), <<>>, tools)

(* Memory: the digest is cut, its message never dropped; head = 0 is none. *)
PackMemory(memory, limit) ==
    IF memory.head = 0 THEN 0
    ELSE IF memory.head + memory.digest <= limit THEN memory.head + memory.digest
    ELSE memory.head + Trim(memory.digest, Larger(0, limit - memory.head))

(* Skills: the catalog, or the loaded ones as [body, refs].                *)
ItemCost(i) == 10 + i.desc
LoadedCost(i) == 10 + i.body + Total(i.refs)

ShortenCatalog(items, limit) ==
    LET shorten[k \in 0..Len(items)] ==
            IF k = 0 THEN items
            ELSE LET before == shorten[k - 1]
                 IN IF Costs(ItemCost, before) <= limit \/ before[k].desc = 0 THEN before
                    ELSE [before EXCEPT ![k].desc = Smaller(@, 27) + Marker]
    IN shorten[Len(items)]

RECURSIVE DropReferences(_, _, _)
DropReferences(items, k, limit) ==
    IF k > Len(items) \/ Costs(LoadedCost, items) <= limit THEN items
    ELSE IF items[k].refs = <<>> THEN DropReferences(items, k + 1, limit)
    ELSE DropReferences([items EXCEPT ![k].refs = Tail(@)], k, limit)

CutBodies(items, limit) ==
    IF Costs(LoadedCost, items) <= limit THEN items
    ELSE [k \in DOMAIN items |-> [items[k] EXCEPT !.body = Trim(@, Larger(32, limit \div Len(items)))]]

PackSkill(skill, limit) ==
    CASE skill.kind = "none" -> 0
      [] skill.kind = "catalog" -> Costs(ItemCost, ShortenCatalog(skill.items, limit))
      [] skill.kind = "loaded" -> Costs(LoadedCost, CutBodies(DropReferences(skill.items, 1, limit), limit))

-----------------------------------------------------------------------------
(* Source: a sequence of [raw, window, quotes]: the tokens of the body, of *)
(* its head and tail, and the density of what JSON escapes; raw = 0 is a   *)
(* pointer.                                                                *)
StubCost == 60
Overhead == 50
Escaped(n, quotes) == (n * quotes) \div 8
FitTokens(n, limit) == IF n <= limit THEN n ELSE IF limit > 8 THEN limit ELSE IF limit = 8 THEN 8 ELSE 0

SliceCost(s) == IF s.body = 0 THEN StubCost ELSE Overhead + s.body + Escaped(s.body, s.quotes)
OnTheWire(s) == SliceCost(s) + (IF s.body = 0 THEN 20 ELSE 18 + Escaped(s.body, s.quotes))

PackSlice(limit, packed, s) ==
    LET remaining == limit - Costs(SliceCost, packed)
        body == FitTokens(s.window, remaining - Overhead)
        slice == [at |-> s.at, body |-> IF s.raw = 0 THEN 0 ELSE body, quotes |-> s.quotes]
    IN IF \/ Len(packed) >= MaxSlices
          \/ s.raw > 0 /\ (remaining - Overhead <= 0 \/ body = 0)
          \/ SliceCost(slice) > remaining
       THEN packed ELSE Append(packed, slice)
PackSource(source, limit) ==
    LET numbered == [k \in DOMAIN source |-> [at |-> k, raw |-> source[k].raw, window |-> source[k].window, quotes |-> source[k].quotes]]
    IN FoldLeft(LAMBDA packed, s : PackSlice(limit, packed, s), <<>>, numbered)

-----------------------------------------------------------------------------
(* Working set: [base, digest, marked, turns], a turn [plan, events,       *)
(* outcome]; "base" is what the user message holds besides.                *)
TurnCost(t) == 10 + t.plan + Total(t.events) + t.outcome
WorkingCost(w) == 20 + w.digest + Costs(TurnCost, w.turns)

Compacted(digest, limit) == IF limit = 0 THEN 0 ELSE IF digest <= limit THEN digest ELSE limit + 1
Fragment(t) == 8 + t.plan + t.outcome + Costs(LAMBDA e : Smaller(e, 40), t.events)
FoldOldest(w) == [w EXCEPT !.turns = Tail(@), !.marked = FALSE, !.digest = Compacted(@ + Fragment(Head(w.turns)), DigestTokens)]

RECURSIVE ShrinkDigest(_, _)
ShrinkDigest(w, limit) ==
    IF WorkingCost(w) <= limit \/ w.digest = 0 THEN w
    ELSE LET target == Larger(32, w.digest \div 2)
             cut == w.digest > target
             after == IF cut THEN [w EXCEPT !.digest = target + 1 + (IF w.marked THEN 0 ELSE Marker), !.marked = TRUE] ELSE w
         IN IF after.digest = w.digest
            THEN IF WorkingCost(after) > limit THEN [after EXCEPT !.digest = Trim(@, Larger(16, target))] ELSE after
            ELSE IF after.digest <= target THEN after ELSE ShrinkDigest(after, limit)

RECURSIVE FoldTurns(_, _)
FoldTurns(w, limit) ==
    IF WorkingCost(w) <= limit \/ Len(w.turns) <= MinTurns THEN w ELSE FoldTurns(FoldOldest(w), limit)

ShortenTurns(w, limit) ==
    LET text(n) == Trim(n, Larger(24, limit \div 8))
        shorten[k \in 0..Len(w.turns)] ==
            IF k = 0 THEN w
            ELSE IF WorkingCost(shorten[k - 1]) <= limit THEN shorten[k - 1]
            ELSE [shorten[k - 1] EXCEPT !.turns[k] =
                    [plan |-> text(@.plan), events |-> [e \in DOMAIN @.events |-> text(@.events[e])], outcome |-> text(@.outcome)]]
    IN shorten[Len(w.turns)]

ShrinkWorking(w, limit) == ShortenTurns(FoldTurns(ShrinkDigest(w, limit), limit), limit)

-----------------------------------------------------------------------------
(* The request: what is packed of each channel, and its estimate.          *)
Wire(p) ==
    LET nested == Total(<<p.working.base, WorkingCost(p.working), p.memory, p.skill>>)
        total == p.system + nested + nested \div 8 + Costs(OnTheWire, p.source) + Costs(ToolCost, p.tools)
    IN (6 * total + 4) \div 5
Fits(p) == Wire(p) <= MaxTokens

Natural(c) ==
    [system |-> c.system, working |-> ShrinkWorking(c.working, SoftCap("working")), memory |-> PackMemory(c.memory, MaxTokens),
     source |-> PackSource(c.source, SoftCap("source")), skill |-> PackSkill(c.skill, MaxTokens), tools |-> PackTools(c.tools, MaxTokens)]
NaturalLimits == [working |-> SoftCap("working"), memory |-> MaxTokens, source |-> SoftCap("source"), skill |-> MaxTokens, tools |-> MaxTokens]

(* The channels in the order they give, with the least they are cut to.    *)
Order == <<"source", "memory", "skill", "working", "tools">>
Least == [source |-> 64, memory |-> 32, skill |-> 32, working |-> 64, tools |-> 64]
Offered(c, channel) ==
    CASE channel = "source" -> c.source # <<>> [] channel = "memory" -> c.memory.offered [] channel = "skill" -> c.skill.kind # "none"
      [] channel = "working" -> TRUE [] channel = "tools" -> c.tools # <<>>
CanGive(c, limits) == {k \in DOMAIN Order : Offered(c, Order[k]) /\ limits[Order[k]] > Larger(Floor(Order[k]), Least[Order[k]])}

Repacked(c, p, channel, limit) ==
    CASE channel = "source" -> [p EXCEPT !.source = PackSource(c.source, limit)]
      [] channel = "memory" -> [p EXCEPT !.memory = PackMemory(c.memory, limit)]
      [] channel = "skill" -> [p EXCEPT !.skill = PackSkill(c.skill, limit)]
      [] channel = "working" -> [p EXCEPT !.working = ShrinkWorking(@, limit)]
      [] channel = "tools" -> [p EXCEPT !.tools = PackTools(c.tools, limit)]

(* Mutant: the tools give before the source does.                          *)
FirstToGive(able) == CHOOSE k \in able : \A other \in able : k >= other

NextToGive(able) == CHOOSE k \in able : \A other \in able : k <= other

CutTo(c, s, channel, limit) ==
    [packed |-> Repacked(c, s.packed, channel, limit), limits |-> [s.limits EXCEPT ![channel] = limit],
     given |-> Append(s.given, channel)]
CutChannel(c, s, channel) == CutTo(c, s, channel, Larger(Floor(channel), s.limits[channel] \div 2))
Cut(c, s) ==
    IF Fits(s.packed) \/ CanGive(c, s.limits) = {} THEN s
    ELSE CutChannel(c, s, Order[NextToGive(CanGive(c, s.limits))])

Rounds == 16
Degraded(c) ==
    LET cut[n \in 0..Rounds] == IF n = 0 THEN [packed |-> Natural(c), limits |-> NaturalLimits, given |-> <<>>] ELSE Cut(c, cut[n - 1])
    IN cut[Rounds]

-----------------------------------------------------------------------------
(* Giving back: "packed" is the request, and "used" and "limit" are what   *)
(* the report says of a channel, a rejected trial of it included.          *)
Room(s) == (5 * Larger(0, MaxTokens - Wire(s.packed))) \div 6
Used(p, channel) == IF channel = "source" THEN Costs(SliceCost, p.source) ELSE p[channel]

(* Mutant: a trial is accepted whether it fits or not.                     *)
AcceptAny(s, channel, limit, trial) ==
    [s EXCEPT !.used[channel] = Used(trial, channel), !.packed = trial, !.limit[channel] = limit]

Try(s, channel, limit, trial) ==
    IF Fits(trial) THEN [s EXCEPT !.used[channel] = Used(trial, channel), !.packed = trial, !.limit[channel] = limit]
    ELSE [s EXCEPT !.used[channel] = Used(trial, channel)]

TryLimit(s, c, channel, limit) == Try(s, channel, limit, Repacked(c, s.packed, channel, limit))

Give(s, c, channel) ==
    IF ~Offered(c, channel) \/ Room(s) < 64 THEN s
    ELSE TryLimit(s, c, channel, Larger(SoftCap(channel), s.used[channel] + Room(s)))

HasRoom(s, c) == c.source # <<>> /\ Room(s) >= 64 /\ Wire(s.packed) < Target

GiveSourceUpTo(s, c, limit) ==
    IF ~HasRoom(s, c) \/ limit <= s.used.source THEN s ELSE TryLimit(s, c, "source", limit)
GiveSource(s, c) == GiveSourceUpTo(s, c, Smaller(SoftCap("source"), s.used.source + Room(s)))

(* Up to the hard maximum, or back to the soft cap, fit or not.            *)
PutBack(s, c) ==
    [s EXCEPT !.packed = Repacked(c, @, "source", Smaller(SoftCap("source"), SourceHardMax)), !.restored = TRUE]
Enlarged(s, c, limit, trial) == IF Fits(trial) THEN Try(s, "source", limit, trial) ELSE PutBack(s, c)
GiveSourceMoreUpTo(s, c, limit) ==
    IF ~HasRoom(s, c) \/ limit <= s.limit.source THEN s ELSE Enlarged(s, c, limit, Repacked(c, s.packed, "source", limit))
GiveSourceMore(s, c) == GiveSourceMoreUpTo(s, c, Smaller(SourceHardMax, s.used.source + Room(s)))

Start(cut) == [packed |-> cut.packed, limit |-> cut.limits, restored |-> FALSE,
               used |-> [channel \in {"skill", "memory", "source"} |-> Used(cut.packed, channel)]]
Refilled(c, cut) ==
    IF Wire(cut.packed) >= Target THEN Start(cut)
    ELSE GiveSourceMore(GiveSource(Give(Give(Start(cut), c, "skill"), c, "memory"), c), c)

(* pack_context(): what is sent, or that the call is refused.              *)
Outcome(c, cut, filled) ==
    [cut |-> cut, sent |-> filled.packed, restored |-> filled.restored,
     refused |-> c.system > Floor("system") \/ ~Fits(filled.packed)]
Packed(c, cut) == Outcome(c, cut, Refilled(c, cut))
Pack(c) == Packed(c, Degraded(c))

-----------------------------------------------------------------------------
(* Whatever the window is, the first tools are sent as they are and in     *)
(* their place; the latest turns stay; the source keeps to its number and  *)
(* to the hard maximum, in the order it was read; the channels give in     *)
(* their order, each down to its floor before the next one gives; and a    *)
(* request that was made to fit is sent, unless its source was put back to *)
(* the soft cap.                                                           *)
IsSound(c, result, sent) ==
    LET kept == Smaller(Len(c.working.turns), MinTurns)
    IN /\ SubSeq(sent.tools, 1, Smaller(Len(c.tools), ToolsCore)) = SubSeq(c.tools, 1, Smaller(Len(c.tools), ToolsCore))
       /\ Len(sent.working.turns) >= kept
       /\ Len(sent.source) <= MaxSlices
       /\ Costs(SliceCost, sent.source) <= SourceHardMax
       /\ \A j, k \in DOMAIN sent.source : j < k => sent.source[j].at < sent.source[k].at
       /\ \A k \in DOMAIN result.cut.given : \A before \in DOMAIN Order :
             (Offered(c, Order[before]) /\ \E later \in (before + 1)..Len(Order) : result.cut.given[k] = Order[later])
                => result.cut.limits[Order[before]] <= Larger(Floor(Order[before]), Least[Order[before]])
       /\ Fits(result.cut.packed) /\ ~result.restored => Fits(sent)

PackIsSound(c) == \A result \in {Pack(c)} : IsSound(c, result, result.sent)
=============================================================================
