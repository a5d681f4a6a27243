----------------------------- MODULE CvSymbols ------------------------------
(***************************************************************************)
(* The symbol sections of the CodeView information that OPTLINK appends to *)
(* a program (cv/cvhashesc.c, instgsymc.c, cvindexc.c and the drivers      *)
(* cvpuball.asm, cvglball.asm, cvstaall.asm): the public, the global and   *)
(* the static symbols, each followed by its two tables, and the directory  *)
(* of all sections.  A symbol goes through a buffer to the end of the      *)
(* file; in the first two sections no symbol may cross a page, so that the *)
(* rest of a page is given to an S_ALIGN record.  The tables hold where    *)
(* each symbol stands, which is known before the buffer is written.        *)
(*                                                                         *)
(* Offsets count from CV_HEADER_LOC.  A symbol is a record of its kind,    *)
(* its name and the name's hash, its length before alignment, and its      *)
(* segment and offset.                                                     *)
(***************************************************************************)
EXTENDS CvTables

CONSTANTS
  Page,       \* 1000H: the page no symbol may cross
  Slack,      \* 512: what the buffer is meant to keep free
  Publics,    \* what PUBDEFs and imports give
  Globals,    \* constants, types, data and references offered to the global list
  Statics,    \* references of the static list
  OddNames,   \* names whose every character is their length (see SameName)
  Loads       \* how many of each a link has: [modules, publics, offered, statics]

ASSUME SymbolsAssumption ==
  /\ Page \in Nat /\ Page % 4 = 0 /\ Page > 8
  /\ Slack \in Nat /\ Slack <= Block /\ Page <= Block
  /\ \A l \in Loads : l.modules > 0

VARIABLES
  load,     \* what of the link is still to come
  stage,    \* the part of the information that is being written
  open,     \* the section has a symbol and its buffer
  gsyms,    \* the global list, in FIRST_GSYM order
  offered,  \* the symbols offered to it so far
  soFar,    \* BYTES_SO_FAR
  start,    \* CV_SECTION_OFFSET
  out,      \* the section's output: see Opened
  infos,    \* CV_HASHES_STRUCTs, FIRST_CVH to LAST_CVH
  index,    \* the directory in memory: blocks of words
  entries,  \* the entries it was given
  made,     \* the finished sections
  final     \* the directory as written

vars == <<load, stage, open, gsyms, offered, soFar, start, out, infos, index, entries, made, final>>

-----------------------------------------------------------------------------
(* The buffer.  `high` is FINAL_HIGH_WATER, `base` is CV_SYMBOL_BASE_ADDR, *)
(* `put` the records in the buffer and `bytes` how far CVG_PUT_PTR is in   *)
(* it, `most` how far it ever was, `wrote` the records in the file (their  *)
(* places count from base) and `page` is CV_PAGE_BYTES.                    *)

HeaderSize == 16

S_ALIGN == [kind |-> "S_ALIGN"]

Opened(high) == [high |-> high, base |-> high, put |-> {}, bytes |-> 0, most |-> 0, wrote |-> {}, page |-> 0]

Moved(o) == {[r EXCEPT !.at = @ + (o.high - o.base)] : r \in o.put}

FlushTemp(o) == [o EXCEPT !.wrote = @ \cup Moved(o), !.high = @ + o.bytes, !.put = {}, !.bytes = 0]

PutRecord(o, size, sym) ==
  [o EXCEPT !.put = @ \cup {[at |-> o.bytes, size |-> size, sym |-> sym]},
            !.bytes = @ + size, !.most = Max({@, o.bytes + size})]

FlushIf(o, full) == IF full THEN FlushTemp(o) ELSE o

Spilled(o) == FlushIf(o, o.bytes >= Block - Slack)

(* Fault: the buffer is left as it is and relied on to end Slack early.    *)
TrustsSlack(o, n) == o

(* Room for n more bytes, or the buffer is written first.                  *)
Fitting(o, n) == FlushIf(o, o.bytes + n > Block)

Aligned(length) == 2 + length + ((2 - length) % 4)

(* A symbol is put together in CV_TEMP_RECORD, which is 9K; a block is     *)
(* 16K.  A name is at most 8K (getnamec.c).                                *)
ASSUME SymbolsFit == \A s \in Publics \cup Globals \cup Statics : s.len \in Nat /\ Aligned(s.len) <= Block

(* What a symbol is looked up and compared by.                             *)
ASSUME SymbolRecords ==
  \A s \in Publics \cup Globals \cup Statics :
    /\ s = [kind |-> s.kind, name |-> s.name, hash |-> s.hash, len |-> s.len, seg |-> s.seg, off |-> s.off]
    /\ {s.hash, s.seg, s.off} \subseteq Nat

(* S_ALIGN is needed unless the symbol ends the page or leaves more than   *)
(* eight bytes of it.                                                      *)
NeedsPage(o, n) == LET left == Page - (o.page + n) IN left # 0 /\ left <= 8

(* Fault: the new page is not charged with the symbol that made it needed. *)
PaddedUncharged(o, n) ==
  LET rest == Page - o.page
  IN  [Spilled(PutRecord(Fitting(o, rest), rest, S_ALIGN)) EXCEPT !.page = 0]

(* The rest of the page is filled, and the symbol will be its first.       *)
Padded(o, n) ==
  LET rest == Page - o.page
  IN  [Spilled(PutRecord(Fitting(o, rest), rest, S_ALIGN)) EXCEPT !.page = n]

Counted(o, n) == [o EXCEPT !.page = (@ + n) % Page]

Paged(align, o, n) == IF ~align THEN o ELSE IF NeedsPage(o, n) THEN Padded(o, n) ELSE Counted(o, n)

(* Where the symbol will stand: known once the buffer it goes to is.       *)
SymbolOffset(o, n) == LET f == Fitting(o, n) IN f.high - f.base + f.bytes

Stored(o, n, sym) == Spilled(PutRecord(Fitting(o, n), n, sym))

OutputSymbol(align, o, n, sym) == Stored(Paged(align, o, n), n, sym)

(* Fault: the offset is taken before the page is filled.                   *)
OffsetUnpadded(align, o, n) == SymbolOffset(o, n)

OffsetOf(align, o, n) == SymbolOffset(Paged(align, o, n), n)

(* memset is given the length of the padding as an unsigned number.        *)
(* It wraps when a symbol as long as a page, or longer, began the page.    *)
Overruns(align, o, n) == align /\ NeedsPage(o, n) /\ o.page >= Page

-----------------------------------------------------------------------------
(* The directory in memory: blocks of words, of which the last is written  *)
(* at its end.  An entry is six words; one that does not fit the block is  *)
(* put together beside it and divided.                                     *)

BlockWords == Block \div 2
EntryWords == 6
DirHeader == [w \in 1..8 |-> <<"header", w>>]
Trailer == [w \in 1..4 |-> <<"trailer", w>>]
WordsOf(e) == [w \in 1..EntryWords |-> <<e, w>>]

(* Fault: the new block gets the entry from its beginning. *)
AppendAgain(blocks, words) ==
  LET left == BlockWords - Len(Last(blocks))
  IN  IF Len(words) <= left THEN Front(blocks) \o <<Last(blocks) \o words>>
      ELSE Front(blocks) \o <<Last(blocks) \o SubSeq(words, 1, left), SubSeq(words, 1, Len(words) - left)>>

AppendWords(blocks, words) ==
  LET left == BlockWords - Len(Last(blocks))
  IN  IF Len(words) <= left THEN Front(blocks) \o <<Last(blocks) \o words>>
      ELSE Front(blocks) \o <<Last(blocks) \o SubSeq(words, 1, left), SubSeq(words, left + 1, Len(words))>>

(* An entry that begins at `at` and ends at BYTES_SO_FAR, which the C      *)
(* moves back to `at` and restores.                                        *)
HandleIndex(type, at, end) ==
  LET e == [type |-> type, at |-> at, length |-> end - at]
  IN  /\ entries' = Append(entries, e)
      /\ index' = AppendWords(index, WordsOf(e))
      /\ soFar' = end

DwordAligned(n) == n + ((0 - n) % 4)

(* xdebug_normal writes at BYTES_SO_FAR, and the file ends there or later. *)
Xdebug(n) == Max({out.high, n})

-----------------------------------------------------------------------------
Init ==
  /\ load \in Loads
  /\ stage = "modules" /\ open = FALSE
  /\ gsyms = <<>> /\ offered = {}
  /\ soFar = 8 /\ start = 0 /\ out = Opened(0)
  /\ infos = <<>>
  /\ index = <<DirHeader>> /\ entries = <<>> /\ made = <<>> /\ final = <<>>

Spend(what) == load[what] > 0 /\ load' = [load EXCEPT ![what] = @ - 1]

(* A record of another kind: here one for each module, and at the end the  *)
(* segments.                                                               *)
Another(type, length) ==
  LET at == DwordAligned(soFar)
  IN  /\ HandleIndex(type, at, at + length)
      /\ out' = [out EXCEPT !.high = Xdebug(at + length)]

WriteModule ==
  /\ stage = "modules" /\ Spend("modules")
  /\ Another("module", 21)
  /\ UNCHANGED <<stage, open, gsyms, offered, start, infos, made, final>>

EndModules ==
  /\ stage = "modules" /\ load.modules = 0
  /\ stage' = "install"
  /\ UNCHANGED <<load, open, gsyms, offered, soFar, start, out, infos, index, entries, made, final>>

-----------------------------------------------------------------------------
(* The global list.  Of two names only the lengths and the characters are  *)
(* compared, and the second length is read where the first name's text     *)
(* stands: they agree for a name of which every character is its length.   *)
SameName(g, s) == g.name = s.name /\ g.name \in OddNames

(* Fault: the segments are not compared. *)
SameOffset(g, s) == g.off = s.off /\ g.kind = s.kind

SameReference(g, s) == g.off = s.off /\ g.kind = s.kind /\ g.seg = s.seg

Matches(g, s) ==
  /\ g.hash = s.hash
  /\ IF s.kind = "ref" THEN SameReference(g, s) ELSE g.kind # "ref" /\ SameName(g, s)

Installed(s) == IF \E i \in DOMAIN gsyms : Matches(gsyms[i], s) THEN gsyms ELSE Append(gsyms, s)

InstallGlobalsym(s) ==
  /\ stage = "install" /\ Spend("offered")
  /\ gsyms' = Installed(s)
  /\ offered' = offered \cup {s}
  /\ UNCHANGED <<stage, open, soFar, start, out, infos, index, entries, made, final>>

EndInstall ==
  /\ stage = "install" /\ load.offered = 0
  /\ stage' = "public"
  /\ UNCHANGED <<load, open, gsyms, offered, soFar, start, out, infos, index, entries, made, final>>

-----------------------------------------------------------------------------
(* The symbols of a section. *)

InitHashes ==
  IF open THEN [at |-> start, out |-> out, soFar |-> soFar]
  ELSE LET at == DwordAligned(soFar)
       IN  [at |-> at, out |-> Opened(Xdebug(at) + HeaderSize), soFar |-> at + HeaderSize]

Put(align, s) ==
  LET o == InitHashes.out
      n == Aligned(s.len)
  IN  IF Overruns(align, o, n)
      THEN stage' = "fault" /\ UNCHANGED <<open, soFar, start, out, infos>>
      ELSE /\ open' = TRUE /\ soFar' = InitHashes.soFar /\ start' = InitHashes.at
           /\ out' = OutputSymbol(align, o, n, s)
           /\ infos' = Append(infos, [at |-> OffsetOf(align, o, n), hash |-> s.hash, seg |-> s.seg, off |-> s.off, sym |-> s])
           /\ UNCHANGED stage

PutPublic(s) ==
  /\ stage = "public" /\ Spend("publics")
  /\ Put(TRUE, s)
  /\ UNCHANGED <<gsyms, offered, index, entries, made, final>>

PutGlobal ==
  /\ stage = "global" /\ Len(infos) < Len(gsyms)
  /\ Put(TRUE, gsyms[Len(infos) + 1])
  /\ UNCHANGED <<load, gsyms, offered, index, entries, made, final>>

PutStatic(s) ==
  /\ stage = "static" /\ Spend("statics")
  /\ Put(FALSE, s)
  /\ UNCHANGED <<gsyms, offered, index, entries, made, final>>

(* The last record of an aligned section: an S_ALIGN of eight bytes.       *)
Terminated(align) == IF align THEN OutputSymbol(align, out, 8, S_ALIGN) ELSE out

NextStage == [public |-> "global", global |-> "static", static |-> "segments"]

FlushSymbolHashes(o) ==
  LET symbols   == o.high - o.base
      names     == DoSymbolHash(infos)
      addresses == DoAddressHash(infos)
      end       == soFar + symbols + names.bytes + addresses.bytes
  IN  /\ out' = [o EXCEPT !.high = @ + names.bytes + addresses.bytes]
      /\ made' = Append(made, [stage |-> stage, at |-> start, infos |-> infos, wrote |-> o.wrote,
                               names |-> names, addresses |-> addresses, symbols |-> symbols])
      /\ HandleIndex(stage, start, end)

Exhausted ==
  CASE stage = "public" -> load.publics = 0
    [] stage = "global" -> Len(infos) = Len(gsyms)
    [] stage = "static" -> load.statics = 0
    [] OTHER            -> FALSE

EndSection ==
  /\ Exhausted /\ open
  /\ LET align == stage # "static"
     IN  IF Overruns(align, out, 8)
         THEN stage' = "fault" /\ UNCHANGED <<open, soFar, out, infos, index, entries, made>>
         ELSE /\ FlushSymbolHashes(FlushTemp(Terminated(align)))
              /\ stage' = NextStage[stage] /\ open' = FALSE /\ infos' = <<>>
  /\ UNCHANGED <<load, gsyms, offered, start, final>>

SkipSection ==
  /\ Exhausted /\ ~open
  /\ stage' = NextStage[stage]
  /\ UNCHANGED <<load, open, gsyms, offered, soFar, start, out, infos, index, entries, made, final>>

-----------------------------------------------------------------------------
WriteSegments ==
  /\ stage = "segments"
  /\ stage' = "directory"
  /\ LET at == DwordAligned(soFar)
     IN  /\ entries' = Append(entries, [type |-> "segments", at |-> at, length |-> 30])
         /\ index' = AppendWords(index, WordsOf(Last(entries')))
         /\ soFar' = DwordAligned(at + 30)
         /\ out' = [out EXCEPT !.high = Xdebug(DwordAligned(at + 30))]
  /\ UNCHANGED <<load, open, gsyms, offered, start, infos, made, final>>

(* The header of the information was given BYTES_SO_FAR as the place of    *)
(* the directory, which is aligned only now.                               *)
FlushIndexes ==
  /\ stage = "directory"
  /\ stage' = "end"
  /\ LET at    == DwordAligned(soFar)
         words == FlattenSeq(AppendWords(index, Trailer))
     IN  /\ final' = <<[place |-> soFar, at |-> at, words |-> words]>>
         /\ soFar' = at + 2 * Len(words)
         /\ out' = [out EXCEPT !.high = Xdebug(at + 2 * Len(words))]
  /\ UNCHANGED <<load, open, gsyms, offered, start, infos, index, entries, made>>

Next ==
  \/ WriteModule \/ EndModules \/ EndInstall
  \/ \E s \in Globals : InstallGlobalsym(s)
  \/ \E s \in Publics : PutPublic(s)
  \/ PutGlobal
  \/ \E s \in Statics : PutStatic(s)
  \/ EndSection \/ SkipSection \/ WriteSegments \/ FlushIndexes

Spec == Init /\ [][Next]_vars

-----------------------------------------------------------------------------
(* The records of the section by their places in it, in the file and in    *)
(* the buffer.                                                             *)
Records == out.wrote \cup Moved(out)

OnOnePage(r) == \E k \in 0..r.at : k * Page <= r.at /\ r.at + r.size <= (k + 1) * Page

(* No symbol of an aligned section that fits a page crosses one (the       *)
(* comment at cvhashesc.c 154), and no record begins but where another     *)
(* ends: a reader that starts at any page finds a symbol there and every   *)
(* one after it by its length.                                             *)
PagesHold ==
  open /\ stage # "static" =>
    /\ \A r \in Records : r.size <= Page => OnOnePage(r)
    /\ \A r \in Records : r.at = 0 \/ \E q \in Records : q.at + q.size = r.at

(* The buffer is never filled past its block, whatever the order of long   *)
(* symbols and padding (Bugzilla 2436).                                    *)
BufferKept == out.most <= Block /\ \A r \in out.put : r.at + r.size <= out.bytes

(* A symbol stands in the file where the tables say it does, although its  *)
(* place was worked out while it was, at best, in the buffer.              *)
SymbolsFound ==
  /\ open => \A i \in DOMAIN infos : \E r \in Records : r.at = infos[i].at /\ r.sym = infos[i].sym
  /\ \A m \in Range(made) : \A i \in DOMAIN m.infos :
       \E r \in m.wrote : r.at = m.infos[i].at /\ r.sym = m.infos[i].sym

(* Both tables of a section lead to all of its symbols, each once.         *)
TablesLead ==
  \A m \in Range(made) : NamesFound(m.names, m.infos) /\ AddressesFound(m.addresses, m.infos)

(* The global list has every symbol offered to it, of its kind and at its  *)
(* place, and no reference twice.                                          *)
GlobalsKept ==
  /\ \A s \in offered : \E i \in DOMAIN gsyms :
       [gsyms[i] EXCEPT !.name = s.name, !.len = s.len, !.hash = s.hash] = s
  /\ \A i, j \in DOMAIN gsyms : i # j /\ gsyms[i].kind = "ref" => gsyms[i] # gsyms[j]

(* The directory: between sections BYTES_SO_FAR and FINAL_HIGH_WATER name  *)
(* the same place, though each part of the code advances its own; each     *)
(* entry begins where the one before ended; a section's symbols begin      *)
(* after its header; and the words that are written are the header, every  *)
(* entry and the trailer, at the place CV_HEADER was given.                *)
DirectoryRight ==
  /\ ~open /\ entries # <<>> => out.high = soFar
  /\ open => out.base = start + HeaderSize
  /\ \A i \in DOMAIN entries :
       entries[i].at = IF i = 1 THEN 8 ELSE DwordAligned(entries[i - 1].at + entries[i - 1].length)
  /\ \A d \in Range(final) :
       /\ d.place = d.at
       /\ d.words = DirHeader \o FlattenSeq([i \in DOMAIN entries |-> WordsOf(entries[i])]) \o Trailer

(* cvhashesc.c 175 says of the padding's memset "Fix for Bugzilla 2436     *)
(* where it would seg fault on the memset()".                              *)
NeverFaults == stage # "fault"
=============================================================================
