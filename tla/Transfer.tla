------------------------------ MODULE Transfer ------------------------------
(* One transfer of control after another in the translated program: an indirect *)
(* branch, an indirect call or a landing of the unwinder, from the word in the   *)
(* register to the block that runs, through the switch of the branch, the        *)
(* dispatch of the function, guest_dispatch and the searches of dispatch.c.      *)
EXTENDS Search, Dispatch

CONSTANTS
    Builds,         \* slots in DT_RELR and blocks the scan may have found besides
    Calls           \* calls that may throw: [fn, ra, pad], as the guest means them

\* The relocated slots hold addresses of the image, and those of symbols are others.
\* A call that may throw is in the region of a table or of none, and the guest means
\* the pad, if any, of the site that it is in.
ASSUME GuestAssumption ==
    /\ \A b \in Builds :
          /\ b.relr \subseteq Slots /\ \A s \in b.relr : InImage(Raw[s])
          /\ \A i \in Stores : Symbols[i].slot \notin b.relr
    /\ \A c \in Calls :
          /\ c.fn \in DOMAIN Functions /\ c.ra \in Words \ {0}
          /\ c.pad # 0 => c.pad \in Functions[c.fn]
          /\ \/ c.pad = 0 /\ \A s \in Regioned : ~InRegion(s, c.ra - 1)
             \/ \E s \in Regioned :
                   LET around == {i \in DOMAIN LsdaOf[s].sites : InSite(s, i, c.ra - 1)}
                       pad(i) == LsdaOf[s].sites[i].pad
                   IN  /\ InRegion(s, c.ra - 1)
                       /\ \/ c.pad = 0 /\ \A i \in around : pad(i) = 0
                          \/ \E i \in around : pad(i) # 0 /\ c.pad = PadBase(LsdaOf[s], s) + pad(i)

VARIABLES
    relr, blocks, image,    \* the program: relocated slots, blocks, writable image,
    entries,                \* and the table of its entries
    fn,                     \* the function that runs
    word, meant,            \* the word control goes to, and what the guest means
    targets,                \* the targets the scan resolved for the branch
    missed,                 \* a code address the read-only image gave and no block has
    jumping,                \* the transfer began as a branch of fn
    step,                   \* where the transfer is
    reached                 \* what runs at its end, or the address reported

transferVars == <<relr, blocks, image, entries, fn, word, meant, targets, missed, jumping, step, reached>>
vars         == <<searchVars, transferVars>>

program == <<relr, blocks, image, entries>>
request == <<meant, jumping>>

Ended == {"ran", "host", "unresolved", "no pad"}

Init ==
    /\ \E b \in Builds :
          /\ relr = b.relr
          /\ blocks = [f \in DOMAIN Functions |->
                          Blocks(b.relr)[f] \cup (b.extra \cap Functions[f])]
          /\ image = WritableImage(b.relr)
    /\ entries = EntryRows(blocks)
    /\ fn \in DOMAIN Functions
    /\ word = 0 /\ meant = Null /\ targets = {} /\ missed = 0 /\ jumping = FALSE
    /\ step = "idle" /\ reached = Null
    /\ SearchIdle

-----------------------------------------------------------------------------
(* Where a transfer comes from.                                               *)

Begins(p, ts, jump, to) ==
    /\ word' = p.word /\ meant' = p.meant
    /\ targets' = ts /\ jumping' = jump /\ missed' = 0
    /\ step' = to /\ reached' = Null
    /\ UNCHANGED <<program, searchVars>>

\* Words the guest may branch to: pointers to code or to an imported function, and
\* null.
Branchable(m) ==
    CASE m[1] = "guest" -> Within(Rx, m[2])
      [] m[1] = "host"  -> m[2] \notin DataImports /\ m[3] = 0
      [] m[1] = "null"  -> TRUE

Held == {p \in Pointers(relr, image) : Branchable(p.meant)}
          \cup {[word |-> 0, meant |-> Null]}

CallPointer ==
    /\ step = "idle"
    /\ \E p \in Held : Begins(p, {}, FALSE, "call")
    /\ UNCHANGED fn

JumpPointer ==
    /\ step = "idle"
    /\ \E p \in Held : Begins(p, {}, TRUE, "fallback")
    /\ UNCHANGED fn

\* An arm of a jump table.  The base of the address is materialised like any other
\* constant.
Arm(site, k) ==
    [word  |-> (IF site.base # None THEN ConstAddr(site.base) + site.words[k] * 4
                ELSE ConstAddr(site.table) + site.words[k]) % Word,
     meant |-> Guest(Leads(site, k))]

JumpTable ==
    /\ step = "idle"
    /\ \E i \in DOMAIN Sites :
          /\ Sites[i].fn = fn
          /\ \E k \in 1 .. Sites[i].length :
                Begins(Arm(Sites[i], k), Sites[i].targets, TRUE, "branch")
    /\ UNCHANGED fn

\* frame_action: the region of the call, then its exception table.
Raise ==
    /\ step = "idle"
    /\ \E c \in Calls :
          /\ c.fn = fn
          /\ Ask(Regions, c.ra - 1)
          /\ word' = c.ra /\ meant' = Guest(c.pad)
    /\ targets' = {} /\ jumping' = FALSE /\ missed' = 0
    /\ step' = "region" /\ reached' = Null
    /\ UNCHANGED <<program, fn>>

-----------------------------------------------------------------------------
(* The end of a block.                                                        *)

Ran(b) ==
    /\ step' = "ran" /\ reached' = Guest(b)
    /\ UNCHANGED <<program, searchVars, fn, word, targets, missed, request>>

Goes(to) ==
    /\ step' = to
    /\ UNCHANGED <<program, searchVars, fn, word, targets, missed, request, reached>>

AskFor(rows, k, to) ==
    /\ Ask(rows, k)
    /\ step' = to
    /\ UNCHANGED <<program, fn, word, targets, request, reached>>

\* The switch over the resolved targets, if one of them is a block of the function.
OnTarget ==
    /\ step = "branch" /\ word \in targets \cap blocks[fn]
    /\ Ran(word)

OnOutside ==
    /\ step = "branch" /\ targets \cap blocks[fn] # {}
    /\ word \in targets \ blocks[fn]
    /\ AskFor(entries, word, "addr")
    /\ UNCHANGED missed

OnNoTarget ==
    /\ step = "branch"
    /\ targets \cap blocks[fn] = {} \/ word \notin targets
    /\ Goes("fallback")

HasLocalDispatch(f) == Cardinality(blocks[f]) > 1

\* A function of several blocks dispatches inside itself first.
Fallback ==
    /\ step = "fallback"
    /\ Goes(IF HasLocalDispatch(fn) THEN "local" ELSE "call")

Local ==
    /\ step = "local"
    /\ IF LocalDispatch(blocks[fn], word) # NoBlock
       THEN Ran(LocalDispatch(blocks[fn], word))
       ELSE Goes("call")

-----------------------------------------------------------------------------
(* guest_dispatch and guest_dispatch_addr.                                    *)

Unresolved(a) ==
    /\ step' = "unresolved" /\ reached' = a
    /\ UNCHANGED <<program, fn, word, targets, missed, request>>

NullPointer ==
    /\ step = "call" /\ word = 0
    /\ Unresolved(Null) /\ UNCHANGED searchVars

CodeAddress ==
    /\ step = "call" /\ word # 0 /\ Within(Rx, word)
    /\ AskFor(entries, word, "addr")
    /\ UNCHANGED missed

\* A word that is a code address when taken back through g_ro, or else through g_rw.
ReadOnlyBased ==
    /\ step = "call" /\ word # 0 /\ ~Within(Rx, word)
    /\ IF Within(Rx, ThroughRo(word))
       THEN AskFor(entries, ThroughRo(word), "read-only") /\ UNCHANGED missed
       ELSE Goes("written")

WritableBased ==
    /\ step = "written" /\ Within(Rx, ThroughRw(word))
    /\ AskFor(entries, ThroughRw(word), "writable")
    /\ UNCHANGED missed

NotBased ==
    /\ step = "written" /\ ~Within(Rx, ThroughRw(word))
    /\ IF missed # 0
       THEN Unresolved(Guest(missed)) /\ UNCHANGED searchVars
       ELSE /\ step' = "host"
            /\ \E n \in DOMAIN Host : Host[n] = word /\ reached' = HostOf(n, 0)
            /\ UNCHANGED <<program, searchVars, fn, word, targets, missed, request>>

\* A search of dispatch.c goes on.
Searches == Probe /\ UNCHANGED transferVars

Found == phase = "done" /\ at # 0
NotFound == phase = "done" /\ at = 0

\* guest_dispatch only asks whether there is a row, guest_dispatch_addr looks again.
LookAgain ==
    /\ step \in {"read-only", "writable"} /\ Found
    /\ AskFor(entries, key, "addr")
    /\ UNCHANGED missed

MissReadOnly ==
    /\ step = "read-only" /\ NotFound
    /\ missed' = key
    /\ step' = "written"
    /\ UNCHANGED <<program, searchVars, fn, word, targets, request, reached>>

MissWritable ==
    /\ step = "writable" /\ NotFound
    /\ Unresolved(Guest(IF missed # 0 THEN missed ELSE key))
    /\ UNCHANGED searchVars

\* Slip: the entry of a function is its lowest block.
EnterLowest(f, entry) ==
    /\ fn' = f /\ word' = entry
    /\ IF entry = 0
       THEN step' = "ran" /\ reached' = Guest(Min(blocks[f]))
       ELSE step' = (IF HasLocalDispatch(f) THEN "local" ELSE "call") /\ UNCHANGED reached
    /\ jumping' = FALSE /\ missed' = 0
    /\ UNCHANGED <<program, searchVars, targets, meant>>
\* A translated function begins: at its first block, or through its dispatch when the
\* row names a block inside it.
Enter(f, entry) ==
    /\ fn' = f /\ word' = entry
    /\ CASE entry = 0 -> step' = "ran" /\ reached' = Guest(f)
         [] entry # 0 /\ HasLocalDispatch(f) -> step' = "local" /\ UNCHANGED reached
         [] OTHER -> step' = "ran" /\ reached' = Guest(f)
    /\ jumping' = FALSE /\ missed' = 0
    /\ UNCHANGED <<program, searchVars, targets, meant>>

HitAddress ==
    /\ step = "addr" /\ Found
    /\ LET a == entries[at].lo
       IN  Enter(Owner(a), IF a = Owner(a) THEN 0 ELSE key)

MissAddress ==
    /\ step = "addr" /\ NotFound
    /\ Unresolved(Guest(key)) /\ UNCHANGED searchVars

-----------------------------------------------------------------------------
(* The unwinder, at the frame of the function that made the call.               *)

\* 0 when no table covers the call or its site has no pad.
PadOf == IF Found THEN PadFor(Regions[at].lo, word) ELSE 0

Land ==
    /\ step = "region" /\ phase = "done"
    /\ \E pad \in {PadOf} :
          \/ /\ pad = 0
             /\ step' = "no pad" /\ reached' = Guest(0)
             /\ UNCHANGED <<program, searchVars, fn, word, targets, missed, request>>
          \/ pad # 0 /\ Enter(fn, pad)

\* The program goes on from where it is.
GoesOn ==
    /\ step \in Ended
    /\ step' = "idle" /\ word' = 0 /\ meant' = Null /\ targets' = {} /\ missed' = 0
    /\ jumping' = FALSE /\ reached' = Null
    /\ table' = <<>> /\ key' = 0 /\ lo' = 0 /\ hi' = 0 /\ at' = 0 /\ phase' = "idle"
    /\ UNCHANGED <<program, fn>>

Moves ==
    \/ OnTarget \/ OnOutside \/ OnNoTarget \/ Fallback \/ Local
    \/ NullPointer \/ CodeAddress \/ ReadOnlyBased \/ WritableBased \/ NotBased
    \/ Searches \/ LookAgain \/ MissReadOnly \/ MissWritable
    \/ HitAddress \/ MissAddress \/ Land

Next == CallPointer \/ JumpPointer \/ JumpTable \/ Raise \/ Moves \/ GoesOn

Spec == Init /\ [][Next]_vars /\ WF_vars(Moves)

-----------------------------------------------------------------------------
(* Properties.                                                                *)

\* Every search is over rows in order, of a program whose functions have a block of
\* their own and no other's: the tables are what the searches rely on.
TransferTypeOK ==
    /\ \A i \in DOMAIN table : table[i] \in Row
    /\ Sorted(table)
    /\ phase \in {"idle", "searching", "done"}
    /\ \A f \in DOMAIN Functions : f \in blocks[f] /\ blocks[f] \subseteq Functions[f]
    /\ DOMAIN image = Slots
    /\ word \in Words /\ missed \in Words
    /\ step \in Ended \cup {"idle", "branch", "fallback", "local", "call", "addr",
                          "read-only", "written", "writable", "region"}

\* Two pointers are equal just when they mean the same, whichever way each arrived:
\* the guest compares a constant of its code with a word of a vtable (gen.py, the
\* comment under reloc_addr).
ComparisonsAgree ==
    step = "idle" =>
        \A p, q \in Pointers(relr, image) : p.word = q.word <=> p.meant = q.meant

\* A branch, a call or a landing ends at the block or the import the guest means,
\* and one that is reported is reported by the guest's address.
LandsWhereMeant ==
    /\ step \in {"ran", "host", "unresolved"} => reached = meant
    /\ step = "no pad" => meant = Guest(0)

\* The recovery reads a table as far as the guest uses it: the guard it found, which
\* may be that of something else, is not too small, or there is none and the arms stay
\* in the function; and the table is in the read-only image and within the cap.
Vouched(site) ==
    /\ Within(Ro, site.table)
    /\ site.length <= TableCap
    /\ IF site.base = None /\ Guarded(site)
       THEN site.length <= Guard(site) + 1
       ELSE \A k \in 1 .. site.length : InSpan(site.fn, Leads(site, k))

DoubtfulArms ==
    UNION {{Arm(Sites[i], k).meant : k \in 1 .. Sites[i].length} :
             i \in {j \in DOMAIN Sites : ~Vouched(Sites[j])}}

\* Addresses that are registered too late or not at all: constants no branch of the
\* function that makes them could mean, and symbols that a relocation stores.
StrayConstants ==
    {Guest(c.value) : c \in {d \in Materialised : ~Plausible(d.fn, d.value)}}

StraySymbols ==
    {Guest(Defined[Symbols[i].name] + Symbols[i].addend) :
        i \in {j \in Stores : Symbols[j].name \in DOMAIN Defined \ Ignored}}

Doubtful == DoubtfulArms \cup StrayConstants \cup StraySymbols

\* What the guest reaches by a relative relocation, by a constant of the function that
\* branches, by an arm the recovery reads as far as, or by an unwind, has a block, and
\* every function has one at its start.  What is left to report is null, an address no
\* instruction has, and what is doubtful and inside a function.
ReachableIsTranslated ==
    step = "unresolved" =>
        \/ meant = Null
        \/ meant[2] % 4 # 0
        \/ meant \in Doubtful /\ meant[2] \notin DOMAIN Functions

\* The dispatch of a function takes every word where a switch over its blocks would:
\* the subtraction, the cut key and the search lose nothing.  So only a jump to a word
\* that is none of its blocks is handed to guest_dispatch, and a loop of jumps inside
\* a function does not pile up calls.  A function of one block has no dispatch
\* (len(blocks) > 1), although the comment over wants_local promises one to each.
DispatchIsTheSwitch ==
    /\ step = "idle" =>
           \A p \in Words : LocalDispatch(blocks[fn], p) = Plain(blocks[fn], p)
    /\ jumping /\ step \in {"call", "addr"} /\ HasLocalDispatch(fn) => word \notin blocks[fn]

\* The pad the runtime finds in an exception table is one the generator found, and a
\* call that ends its function finds the table of that function.
PadsWereRecovered ==
    step = "region" /\ phase = "done" =>
        PadOf = meant[2] /\ (PadOf # 0 => PadOf \in LandingPads)

\* Every transfer ends.
TransferEnds == step # "idle" ~> step \in Ended
=============================================================================
