--------------------------------- MODULE Ftl ----------------------------------
(***************************************************************************)
(* The flash translation layer, os/port/devftl.c: rewritable sectors on    *)
(* flash memory, whose erase units can only be erased as a whole.  A write *)
(* of a sector takes a free block, fills it, enters it in its unit's block *)
(* map (BAM) and deletes the sector's old block; a kernel process copies a *)
(* unit with dead blocks to the spare (transfer) unit and erases it.  The  *)
(* map from sectors to blocks (VBM) is only in memory and is rebuilt from  *)
(* the BAMs by mkftl.                                                      *)
(*                                                                         *)
(* Each write to the flash is a step, so that the power can fail between   *)
(* any two of them; the copy to a transfer unit, which a restart erases    *)
(* unread, is one step.  The counts nfree and bamx are those of the BAM.   *)
(* Erase counts are left out: bestcopy may pick any unit with dead blocks. *)
(***************************************************************************)
EXTENDS Integers, FiniteSets

CONSTANTS
  NUnit,      \* erase units, the transfer unit included
  NBlock,     \* data blocks in a unit
  Sectors,    \* sectors in use (below rwlimit)
  Values,     \* what may be written
  Zero,       \* what a sector never written reads as
  Writers,    \* processes that write
  MaxCrash,   \* bound: power failures
  None        \* no process, no block, no unit

Units == 0 .. NUnit - 1
Blocks == 0 .. NBlock - 1
Block == Units \X Blocks

ASSUME FtlAssumption ==
  /\ NUnit \in Nat /\ NUnit > 1 /\ NBlock \in Nat \ {0} /\ MaxCrash \in Nat
  /\ Zero \notin Values /\ None \notin Writers \cup Sectors \cup Values
  /\ Cardinality(Sectors) < (NUnit - 1) * NBlock

\* Unit ids besides the numbers of data units; a unit without a header.
XferID == -1
XferBusy == -2
Blank == -3

\* BAM entries besides the sector a block holds.
Bfree == "free"
Bwriting == "writing"
Bdeleted == "deleted"

\* What a block holds after an erase, and after it was written twice.
Erased == "erased"
Garbage == "garbage"

VARIABLES
  id, bam, data,   \* the flash: header, BAM and contents of each unit
  up,              \* "run", "down" after a failure, "dead" if mkftl gave up
  at,              \* ftl->unit: the erase unit that has each index
  xfer,            \* ftl->xfer
  vbm,             \* ftl->vbm: sector -> index and block, or None
  ndead,           \* dead blocks of each unit, as counted
  lastx,           \* ftl->lastx: the index last allocated from
  lock,            \* owner of the QLock of the Ftl
  needspace,       \* ftl->needspace
  pc, wr,          \* each writer: where it is; its sector, value, block, old
                   \* block, and calls of scavenge
  spc, from,       \* scavengeproc: where it is; index of the unit it copies
  crashes,
  allowed          \* history: what each sector may read as

flash == <<id, bam, data>>
ram == <<at, xfer, vbm, ndead, lastx>>
vars == <<flash, up, ram, lock, needspace, pc, wr, spc, from, crashes, allowed>>

Position == Block \cup {None}  \* an index and a block

TypeOK ==
  /\ id \in [Units -> -3 .. NUnit - 2]
  /\ bam \in [Units -> [Blocks -> Sectors \cup {Bfree, Bwriting, Bdeleted}]]
  /\ data \in [Units -> [Blocks -> Values \cup {Erased, Garbage}]]
  /\ up \in {"run", "down", "dead"}
  /\ at \in [Units -> Units \cup {None}] /\ xfer \in Units \cup {None}
  /\ vbm \in [Sectors -> Position]
  /\ ndead \in [Units -> 0 .. NBlock] /\ lastx \in Units
  /\ lock \in Writers \cup {"scavenger", None} /\ needspace \in BOOLEAN
  /\ pc \in [Writers -> {"idle", "alloc", "scavenge", "ask", "want", "full", "fill",
                         "enter", "delete"}]
  /\ wr \in [Writers -> [sector : Sectors \cup {None}, value : Values \cup {None},
                         new : Position, old : Position, ns : 0 .. 3]]
  /\ spc \in {"sleep", "copy", "name", "swap", "header"} /\ from \in Units \cup {None}
  /\ crashes \in 0 .. MaxCrash
  /\ allowed \in [Sectors -> SUBSET (Values \cup {Zero})]

Idle == [sector |-> None, value |-> None, new |-> None, old |-> None, ns |-> 0]

Init ==
  /\ id = [u \in Units |-> IF u = NUnit - 1 THEN XferID ELSE u]
  /\ bam = [u \in Units |-> [b \in Blocks |-> Bfree]]
  /\ data = [u \in Units |-> [b \in Blocks |-> Erased]]
  /\ up = "run"
  /\ at = [x \in Units |-> x]
  /\ xfer = NUnit - 1
  /\ vbm = [s \in Sectors |-> None]
  /\ ndead = [u \in Units |-> 0] /\ lastx = 0
  /\ lock = None /\ needspace = FALSE
  /\ pc = [w \in Writers |-> "idle"]
  /\ wr = [w \in Writers |-> Idle]
  /\ spc = "sleep" /\ from = None
  /\ crashes = 0
  /\ allowed = [s \in Sectors |-> {Zero}]

-----------------------------------------------------------------------------
Free(u) == {b \in Blocks : bam[u][b] = Bfree}
nfree == {x \in Units : at[x] # None /\ x # xfer /\ Free(at[x]) # {}}

\* A wrong variant: a unit with nothing to reclaim may be copied.
bestcopy_any == {x \in Units : at[x] # None /\ x # xfer}

\* bestcopy: a unit that has dead blocks.
bestcopy == {x \in Units : at[x] # None /\ x # xfer /\ ndead[at[x]] > 0}

\* mapblk.
mapblk(s) ==
  IF vbm[s] = None \/ vbm[s][1] = xfer \/ at[vbm[s][1]] = None THEN None ELSE vbm[s]

\* ftlread.
ftlread(s) ==
  LET p == mapblk(s) IN IF p = None THEN Zero ELSE data[at[p[1]]][p[2]]

\* putbam and putflash.  Flash that is not erased loses what it held.
putbam(p, v) == bam' = [bam EXCEPT ![at[p[1]]][p[2]] = v]
putdata(p, v) ==
  data' = [data EXCEPT ![at[p[1]]][p[2]] = IF @ = Erased THEN v ELSE Garbage]

Goto(w, l) == pc' = [pc EXCEPT ![w] = l]
Running == up = "run"

-----------------------------------------------------------------------------
(* ftlwrite, for one sector, of a value it does not have *)

\* Outside ftlwrite, the last call of which may have ended in an error.
Ended == {"idle", "full"}

ftlwrite(w) ==
  /\ Running /\ pc[w] \in Ended
  /\ \E s \in Sectors : \E v \in Values \ allowed[s] :
       wr' = [wr EXCEPT ![w] = [Idle EXCEPT !.sector = s, !.value = v]]
  /\ Goto(w, "alloc")
  /\ UNCHANGED <<flash, up, ram, lock, needspace, spc, from, crashes, allowed>>

\* allocblk: the first free block, from the unit last allocated from on,
\* becomes Bwriting.
allocblk(w) ==
  /\ Running /\ pc[w] = "alloc" /\ lock = None
  /\ IF nfree = {}
     THEN Goto(w, "scavenge") /\ UNCHANGED <<wr, bam, lastx>>
     ELSE \E x \in nfree : \E b \in Free(at[x]) :
            /\ \A y \in nfree : (x - lastx) % NUnit <= (y - lastx) % NUnit
            /\ \A c \in Free(at[x]) : b <= c
            /\ lastx' = x
            /\ putbam(<<x, b>>, Bwriting)
            /\ wr' = [wr EXCEPT ![w].new = <<x, b>>]
            /\ Goto(w, "fill")
  /\ UNCHANGED <<id, data, up, at, xfer, vbm, ndead, lock, needspace, spc, from, crashes, allowed>>

\* The write ends with the error "flash memory full".
full(w) == Goto(w, "full") /\ wr' = [wr EXCEPT ![w] = Idle]

\* scavenge: without the lock, is there anything to reclaim? ("you worm!")
scavenge(w) ==
  /\ Running /\ pc[w] = "scavenge"
  /\ IF bestcopy = {} THEN full(w) ELSE Goto(w, "ask") /\ UNCHANGED wr
  /\ UNCHANGED <<flash, up, ram, lock, needspace, spc, from, crashes, allowed>>

\* Then scavengeproc is asked to.
ask(w) ==
  /\ Running /\ pc[w] = "ask" /\ lock = None
  /\ needspace' = TRUE
  /\ Goto(w, "want")
  /\ UNCHANGED <<flash, up, ram, lock, wr, spc, from, crashes, allowed>>

\* scavenge returns ftl->nfree; ftlwrite tries three times.
scavenged(w) ==
  /\ Running /\ pc[w] = "want" /\ ~needspace
  /\ IF nfree = {} \/ wr[w].ns + 1 > 3
     THEN full(w)
     ELSE Goto(w, "alloc") /\ wr' = [wr EXCEPT ![w].ns = @ + 1]
  /\ UNCHANGED <<flash, up, ram, lock, needspace, spc, from, crashes, allowed>>

\* Under the lock: find the old block, write the data,
fill(w) ==
  /\ Running /\ pc[w] = "fill" /\ lock = None
  /\ lock' = w
  /\ wr' = [wr EXCEPT ![w].old = mapblk(wr[w].sector)]
  /\ putdata(wr[w].new, wr[w].value)
  /\ Goto(w, "enter")
  /\ UNCHANGED <<id, bam, up, ram, needspace, spc, from, crashes, allowed>>

\* enter the new block in the BAM and in the VBM,
enter(w) ==
  /\ Running /\ pc[w] = "enter"
  /\ putbam(wr[w].new, wr[w].sector)
  /\ vbm' = [vbm EXCEPT ![wr[w].sector] = wr[w].new]
  /\ Goto(w, "delete")
  /\ UNCHANGED <<id, data, up, at, xfer, ndead, lastx, lock, needspace, wr, spc, from,
                 crashes, allowed>>

\* and delete the old one.  The write is complete.
delete(w) ==
  LET o == wr[w].old IN
  /\ Running /\ pc[w] = "delete"
  /\ IF o = None THEN UNCHANGED <<bam, ndead>>
     ELSE /\ putbam(o, Bdeleted)
          /\ ndead' = [ndead EXCEPT ![at[o[1]]] = @ + 1]
  /\ lock' = None
  /\ allowed' = [allowed EXCEPT ![wr[w].sector] = {wr[w].value}]
  /\ wr' = [wr EXCEPT ![w] = Idle]
  /\ Goto(w, "idle")
  /\ UNCHANGED <<id, data, up, at, xfer, vbm, lastx, needspace, spc, from, crashes>>

-----------------------------------------------------------------------------
(* scavengeproc *)

\* A wrong variant: the transfer unit is filled without being marked busy first.
begin_unmarked ==
  /\ Running /\ spc = "sleep" /\ needspace /\ lock = None
  /\ IF bestcopy = {}
     THEN needspace' = FALSE /\ UNCHANGED <<lock, spc, from>>
     ELSE /\ from' \in bestcopy
          /\ lock' = "scavenger" /\ spc' = "copy"
          /\ UNCHANGED needspace
  /\ UNCHANGED <<flash, up, ram, pc, wr, crashes, allowed>>

\* Pick a unit and mark the transfer unit busy.
begin ==
  /\ Running /\ spc = "sleep" /\ needspace /\ lock = None
  /\ IF bestcopy = {}
     THEN needspace' = FALSE /\ UNCHANGED <<id, lock, spc, from>>
     ELSE /\ from' \in bestcopy
          /\ id' = [id EXCEPT ![at[xfer]] = XferBusy]
          /\ lock' = "scavenger" /\ spc' = "copy"
          /\ UNCHANGED needspace
  /\ UNCHANGED <<bam, data, up, ram, pc, wr, crashes, allowed>>

\* What copyunit carries over: the blocks that hold a sector.
Live(u) == {b \in Blocks : bam[u][b] \in Sectors}

copyunit ==
  LET a == at[from]  z == at[xfer] IN
  /\ Running /\ spc = "copy"
  /\ bam' = [bam EXCEPT ![z] = [b \in Blocks |-> IF b \in Live(a) THEN bam[a][b] ELSE Bfree]]
  /\ data' = [data EXCEPT ![z] = [b \in Blocks |-> IF b \in Live(a) THEN data[a][b] ELSE @[b]]]
  /\ spc' = "name"
  /\ UNCHANGED <<id, up, ram, lock, needspace, pc, wr, from, crashes, allowed>>

\* The copy gets the id of the original,
name ==
  /\ Running /\ spc = "name"
  /\ id' = [id EXCEPT ![at[xfer]] = id[at[from]]]
  /\ spc' = "swap"
  /\ UNCHANGED <<bam, data, up, ram, lock, needspace, pc, wr, from, crashes, allowed>>

EraseUnit(u) ==
  /\ id' = [id EXCEPT ![u] = Blank]
  /\ bam' = [bam EXCEPT ![u] = [b \in Blocks |-> Bfree]]
  /\ data' = [data EXCEPT ![u] = [b \in Blocks |-> Erased]]

\* takes its index, and the original is erased (its count of dead blocks, reset here,
\* is not read before a copyunit resets it),
swap ==
  LET a == at[from]  z == at[xfer] IN
  /\ Running /\ spc = "swap"
  /\ at' = [at EXCEPT ![from] = z, ![xfer] = a]
  /\ ndead' = [ndead EXCEPT ![a] = 0, ![z] = 0]
  /\ EraseUnit(a)
  /\ spc' = "header"
  /\ UNCHANGED <<up, xfer, vbm, lastx, lock, needspace, pc, wr, from, crashes, allowed>>

\* A wrong variant: the lock is kept.
header_locked ==
  /\ Running /\ spc = "header"
  /\ id' = [id EXCEPT ![at[xfer]] = XferID]
  /\ needspace' = FALSE
  /\ spc' = "sleep" /\ from' = None
  /\ UNCHANGED <<bam, data, up, ram, lock, pc, wr, crashes, allowed>>

\* to be the transfer unit.
header ==
  /\ Running /\ spc = "header"
  /\ id' = [id EXCEPT ![at[xfer]] = XferID]
  /\ needspace' = FALSE /\ lock' = None
  /\ spc' = "sleep" /\ from' = None
  /\ UNCHANGED <<bam, data, up, ram, pc, wr, crashes, allowed>>

-----------------------------------------------------------------------------
(* Power failures and mkftl("init") *)

\* The memory is lost; a sector that was being written may have either value.
Crash ==
  /\ up # "dead" /\ crashes < MaxCrash
  /\ crashes' = crashes + 1
  /\ up' = "down"
  /\ allowed' = [s \in Sectors |-> allowed[s] \cup
                   {wr[w].value : w \in {w \in Writers : wr[w].sector = s}}]
  /\ at' = [x \in Units |-> None] /\ xfer' = None
  /\ vbm' = [s \in Sectors |-> None]
  /\ ndead' = [u \in Units |-> 0] /\ lastx' = 0
  /\ lock' = None /\ needspace' = FALSE
  /\ pc' = [w \in Writers |-> "idle"] /\ wr' = [w \in Writers |-> Idle]
  /\ spc' = "sleep" /\ from' = None
  /\ UNCHANGED flash

\* mkftl finds a transfer unit that was being filled and erases it.  The header it then
\* writes is the one that mkftl, below, writes in a unit without any.
eraseinit ==
  /\ up = "down"
  /\ \E u \in Units : id[u] = XferBusy /\ EraseUnit(u)
  /\ UNCHANGED <<up, ram, lock, needspace, pc, wr, spc, from, crashes, allowed>>

\* eraseload: the dead blocks of a unit with the header h, and the blocks it enters in
\* the VBM for the sector s.
Dead(u, h) ==
  IF h < 0 THEN 0 ELSE Cardinality({b \in Blocks : bam[u][b] \in {Bwriting, Bdeleted}})
Held(u, h, s) == IF h < 0 THEN {} ELSE {u} \X {b \in Blocks : bam[u][b] = s}

\* mkftl loads the units in order: a unit without a header becomes the transfer
\* unit, if there is only that one and no other; of units with the same id the
\* first is kept; a block loaded later takes its sector from an earlier one.
mkftl ==
  LET bad == {u \in Units : id[u] = Blank}
      badseg == IF Cardinality(bad) = 1 THEN bad ELSE {}
      hdr == [u \in Units |-> IF u \in badseg THEN XferID ELSE id[u]]
      keep == {u \in Units : hdr[u] # Blank /\ \A v \in 0 .. u - 1 : hdr[v] # hdr[u]}
      xfers == {u \in keep : hdr[u] = XferID}
      holds(s) == UNION {Held(u, hdr[u], s) : u \in Units}
      After(p, q) == p[1] > q[1] \/ (p[1] = q[1] /\ p[2] >= q[2])
  IN
  /\ up = "down" /\ XferBusy \notin {id[u] : u \in Units}
  /\ UNCHANGED <<bam, data, lastx, lock, needspace, pc, wr, spc, from, crashes>>
  /\ IF \/ badseg # {} /\ \E u \in Units : id[u] = XferID
        \/ xfers = {} \/ Cardinality(keep) <= 1
     THEN up' = "dead" /\ UNCHANGED <<id, at, xfer, vbm, ndead, allowed>>
     ELSE /\ up' = "run"
          /\ id' = hdr
          /\ at' = [x \in Units |-> IF x \in keep THEN x ELSE None]
          /\ xfer' = CHOOSE u \in xfers : TRUE
          /\ vbm' = [s \in Sectors |->
                       IF holds(s) = {} THEN None
                       ELSE CHOOSE p \in holds(s) : \A q \in holds(s) : After(p, q)]
          /\ ndead' = [u \in Units |-> Dead(u, hdr[u])]
          /\ allowed' = [s \in Sectors |-> IF (ftlread(s))' \in allowed[s]
                                          THEN {(ftlread(s))'} ELSE allowed[s]]

-----------------------------------------------------------------------------
Writes(w) ==
  \/ allocblk(w) \/ scavenge(w) \/ ask(w) \/ scavenged(w)
  \/ fill(w) \/ enter(w) \/ delete(w)

scavengeproc == begin \/ copyunit \/ name \/ swap \/ header

Next ==
  \/ \E w \in Writers : ftlwrite(w) \/ Writes(w)
  \/ scavengeproc
  \/ Crash \/ eraseinit \/ mkftl

Spec == Init /\ [][Next]_vars

\* The writers and the scavenger run.
LiveSpec ==
  /\ Spec /\ WF_vars(scavengeproc)
  /\ \A w \in Writers : WF_vars(Writes(w))

-----------------------------------------------------------------------------
(* Properties *)

\* A sector reads as what was last written to it, across any number of copies
\* and erasures of units and a power failure at any step; one that was being
\* written then has its old value or the new, and keeps it.
Durable ==
  Running => \A s \in Sectors :
    ftlread(s) \in allowed[s] \cup
      {wr[w].value : w \in {w \in Writers : wr[w].sector = s}}

\* Types; and a write never fails for want of space: when no block is free some unit
\* has dead ones, and copying it frees them.
NeverFull == TypeOK /\ \A w \in Writers : pc[w] # "full"

\* mkftl makes a formatted device available again, whenever the power failed.
Mounts == up # "dead"

\* A write ends, whatever copying it has to wait for.
WriteEnds == \A w \in Writers : pc[w] \notin Ended ~> pc[w] \in Ended
===============================================================================
