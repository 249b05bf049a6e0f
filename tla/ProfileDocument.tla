--------------------------- MODULE ProfileDocument ---------------------------
(***************************************************************************)
(* The profile editor of the control center: one open INI document, kept   *)
(* as a list of lines so that whatever the user did not touch is written   *)
(* back as it was, with an undo and a redo history, saved over the file it  *)
(* came from when that still has the bytes the document was opened on.      *)
(*                                                                         *)
(* A line is a section header, a key with a value, an entry without one    *)
(* (lists), or text (comments and blank lines); `ended` is its line ending, *)
(* which only the last line of a file may lack.  Lines that were written    *)
(* one after the other are read back joined where an ending is missing.     *)
(* Spacing, letter case and the character codecs are left out.             *)
(***************************************************************************)
EXTENDS Naturals, Sequences, FiniteSets, SequencesExt

CONSTANTS
    None,            \* no document, no file, no value
    Junk,            \* text that two joined lines read as
    Installed, Personal, External,   \* profile files by where they are
    Key,             \* scalar settings
    Shape,           \* structured settings (shadow, filter weights, layout)
    List,            \* list sections
    FontSubstitutes, \* the list that the advanced settings replace
    Individual,      \* the section of per-font settings
    Entry,           \* list entries and font faces
    Value,           \* rendered values
    Fallback,        \* what the engine takes when a setting is absent
    Factory,         \* the value a reset writes for each scalar setting
    Originals,       \* bound: what a file may hold at first, or be given by others
    HISTORY_LIMIT,   \* revisions that can be undone
    MaxWork          \* bound: commands, failures and outside events

VARIABLES
    doc,       \* the open document
    file,      \* profile files
    backup,    \* the .ini.bak beside each
    saving,    \* a save has compared the file and not yet replaced it
    ragged,    \* history: the document came from a file that does not end its last line
    work

docVars == <<doc, file, backup, saving, ragged, work>>

ASSUME LimitAssumption == HISTORY_LIMIT \in Nat \ {0} /\ MaxWork \in Nat
ASSUME ListAssumption == FontSubstitutes \in List /\ Individual \notin List
ASSUME FactoryAssumption == Factory \in [Key -> Value] /\ Fallback \in Value
ASSUME SettingsAssumption == IsFiniteSet(Key) /\ IsFiniteSet(Shape)

-----------------------------------------------------------------------------
(* Lines.                                                                  *)

Path == Installed \cup Personal \cup External
General == <<"FreeType", "General">>
Section == Range(General) \cup List \cup {Individual}
IniNode == [kind : {"section", "key", "entry", "text"},
            name : Section \cup Key \cup Shape \cup Entry \cup {None, Junk},
            value : Value \cup {None, Junk}, ended : BOOLEAN]

\* A file read as lines: only the last one may lack its ending.
ASSUME OriginalsAssumption ==
    \A b \in Originals : b \in Seq(IniNode) /\ \A i \in 1 .. Len(b) - 1 : b[i].ended
ASSUME NoTextAssumption == None \notin Seq(IniNode)
\* The sections of settings, of lists and of fonts have different names, and so
\* have the settings of one value and the structured ones.
ASSUME NamesAssumption ==
    /\ Range(General) \cap (List \cup {Individual}) = {} /\ Key \cap Shape = {}
    /\ None \notin Value \cup List

Header(s) == [kind |-> "section", name |-> s, value |-> None, ended |-> TRUE]
KeyValue(k, v) == [kind |-> "key", name |-> k, value |-> v, ended |-> TRUE]
Listed(e) == [kind |-> "entry", name |-> e, value |-> None, ended |-> TRUE]

\* The section line i belongs to: the last header at or before it.
SectionAt(n, i) ==
    LET h == SelectLastInSubSeq(n, 1, i, LAMBDA l : l.kind = "section")
    IN  IF h = 0 THEN None ELSE n[h].name
Lines(n, s, kinds) == {i \in DOMAIN n : n[i].kind \in kinds /\ SectionAt(n, i) = s}
Holds(n, s, k) == {i \in Lines(n, s, {"key"}) : n[i].name = k}
Latest(S) == CHOOSE i \in S : \A j \in S : j <= i

\* Two lines without an ending between them: a comment or a value swallows
\* what follows; otherwise the kind comes from the joined text.
Fused(a, b) ==
    IF a.kind \in {"text", "key"} THEN [a EXCEPT !.value = Junk, !.ended = b.ended]
    ELSE [kind |-> IF b.kind = "key" THEN "key"
                   ELSE IF a.kind = "section" /\ b.kind = "section" THEN "section" ELSE "entry",
          name |-> Junk, value |-> IF b.kind = "key" THEN Junk ELSE None, ended |-> b.ended]
\* encoded, read as lines again.
Encoded(n) ==
    LET gaps == {i \in 1 .. Len(n) - 1 : ~n[i].ended} IN
    IF gaps = {} THEN n
    ELSE LET i == Latest(gaps) IN
         SubSeq(n, 1, i - 1) \o <<Fused(n[i], n[i + 1])>> \o SubSeq(n, i + 2, Len(n))

-----------------------------------------------------------------------------
(* What a document says.                                                   *)

\* raw_value: a setting of General is looked for in FreeType first, and the
\* last of several lines counts.
RawValue(n, k) ==
    LET sections == {i \in DOMAIN General : Holds(n, General[i], k) # {}} IN
    IF sections = {} THEN None
    ELSE n[Latest(Holds(n, General[CHOOSE i \in sections : \A j \in sections : i <= j], k))].value
SettingValue(n, k) == IF RawValue(n, k) \in Value THEN RawValue(n, k) ELSE Fallback
Ordered(n, S) == [i \in 1 .. Cardinality(S) |->
                    n[CHOOSE x \in S : Cardinality({y \in S : y <= x}) = i]]
ListEntries(n, s) == Ordered(n, Lines(n, s, {"entry", "key"}))
Individuals(n) == Ordered(n, Lines(n, Individual, {"key"}))

Says(l) == <<l.name, l.value>>
View(n) == [settings |-> [k \in Key |-> SettingValue(n, k)],
            shapes |-> [k \in Shape |-> RawValue(n, k)],
            lists |-> [s \in List |-> [i \in DOMAIN ListEntries(n, s) |-> Says(ListEntries(n, s)[i])]],
            fonts |-> [i \in DOMAIN Individuals(n) |-> Says(Individuals(n)[i])]]

-----------------------------------------------------------------------------
(* Edits.                                                                  *)

WithSection(n, s) ==
    IF \E i \in DOMAIN n : n[i].kind = "section" /\ n[i].name = s THEN n
    ELSE Append(n, Header(s))
\* A new line goes after the last line of its section, which is added at the
\* end when there is none.
Inserted(n, s, line) ==
    LET m == WithSection(n, s)
        at == Latest(Lines(m, s, {"section", "key", "entry"}))
    IN  InsertAt(m, at + 1, line)
SetRawValue(n, k, v) ==
    LET held == {i \in DOMAIN General : Holds(n, General[i], k) # {}} IN
    IF v = None
    THEN Ordered(n, DOMAIN n \ UNION {Holds(n, General[i], k) : i \in DOMAIN General})
    ELSE IF held = {} THEN Inserted(n, "General", KeyValue(k, v))
    ELSE LET s == General[CHOOSE i \in held : \A j \in held : i <= j]
         IN  [n EXCEPT ![Latest(Holds(n, s, k))].value = v]

\* Several settings, one after the other; a sparing change leaves alone what
\* already has its value.
HasValue(n, k, v) == IF RawValue(n, k) = None THEN v = Fallback ELSE RawValue(n, k) = v
SetAll(n, values, sparing) ==
    LET keys == SetToSeq(DOMAIN values)
        after[i \in 0 .. Len(keys)] ==
            IF i = 0 THEN n
            ELSE IF sparing /\ HasValue(after[i - 1], keys[i], values[keys[i]]) THEN after[i - 1]
            ELSE SetRawValue(after[i - 1], keys[i], values[keys[i]])
    IN  after[Len(keys)]

\* The first section of that name: what is dropped of it, then what is new.
ReplaceSection(n, s, dropped, new) ==
    LET m == WithSection(n, s)
        start == SelectInSeq(m, LAMBDA l : l.kind = "section" /\ l.name = s)
        next == SelectInSubSeq(m, start + 1, Len(m), LAMBDA l : l.kind = "section")
        end == IF next = 0 THEN Len(m) ELSE next - 1
        kept == {i \in 1 .. end : i > start => m[i].kind \notin dropped}
    IN  Ordered(m, kept) \o new \o SubSeq(m, end + 1, Len(m))
ReplaceListSection(n, s, entries) ==
    ReplaceSection(n, s, {"entry", "key"}, [i \in DOMAIN entries |-> Listed(entries[i])])

Revision(d) == [nodes |-> d.nodes, dirty |-> d.dirty]
Pushed(history, r) == Append(IF Len(history) = HISTORY_LIMIT THEN Tail(history) ELSE history, r)
\* record_edit: an edit that changes nothing is not a revision.
RecordEdit(d, n, keys) ==
    LET edited == [d EXCEPT !.nodes = n, !.dirty = @ \cup keys] IN
    IF Revision(edited) = Revision(d) THEN d
    ELSE [edited EXCEPT !.undo = Pushed(d.undo, Revision(d)), !.redo = <<>>]

Undone(d) ==
    LET r == Last(d.undo) IN
    [d EXCEPT !.nodes = r.nodes, !.dirty = r.dirty, !.undo = Front(@),
              !.redo = Append(@, Revision(d))]
Redone(d) ==
    LET r == Last(d.redo) IN
    [d EXCEPT !.nodes = r.nodes, !.dirty = r.dirty, !.redo = Front(@),
              !.undo = Append(@, Revision(d))]

FromBytes(p, bytes) == [path |-> p, nodes |-> bytes, base |-> bytes, dirty |-> {},
                        undo |-> <<>>, redo |-> <<>>]
SavedKeepingHistory(d) == [d EXCEPT !.base = Encoded(d.nodes), !.dirty = {}]
Saved(d) == [d EXCEPT !.base = Encoded(d.nodes), !.dirty = {}, !.undo = <<>>, !.redo = <<>>]

-----------------------------------------------------------------------------
(* Commands.  They run one at a time.                                      *)

Ragged(bytes) == bytes # <<>> /\ ~Last(bytes).ended
Works == work < MaxWork /\ work' = work + 1
Idle == ~saving /\ Works
Document(d) == doc' = d /\ UNCHANGED <<file, backup, saving, ragged>>

Opens(p, bytes) == doc' = FromBytes(p, bytes) /\ ragged' = Ragged(bytes)
OpenProfile ==
    /\ Idle
    /\ \E p \in Path : file[p] # None /\ Opens(p, file[p])
    /\ UNCHANGED <<file, backup, saving>>
DiscardChanges ==
    /\ Idle /\ doc # None /\ file[doc.path] # None
    /\ Opens(doc.path, file[doc.path])
    /\ UNCHANGED <<file, backup, saving>>

UpdateSetting(k, v) ==
    /\ Idle /\ doc # None
    /\ Document(RecordEdit(doc, SetRawValue(doc.nodes, k, v), {k}))
UpdateIndividuals(fonts) ==
    /\ Idle /\ doc # None
    /\ Document(RecordEdit(doc, ReplaceSection(doc.nodes, Individual, {"key"},
                  [i \in DOMAIN fonts |-> KeyValue(fonts[i][1], fonts[i][2])]), {Individual}))
UpdateList(s, entries) ==
    /\ Idle /\ doc # None
    /\ Document(RecordEdit(doc, ReplaceListSection(doc.nodes, s, entries), {s}))
\* Every structured setting is written or removed, then the substitutions.
UpdateAdvanced(shapes, entries) ==
    /\ Idle /\ doc # None
    /\ Document(RecordEdit(doc, ReplaceListSection(SetAll(doc.nodes, shapes, FALSE), FontSubstitutes, entries),
                           Shape \cup {FontSubstitutes}))
\* A reset leaves alone what already has its factory value.
ResetDefaults ==
    /\ Idle /\ doc # None
    /\ Document(RecordEdit(doc, SetAll(doc.nodes, Factory, TRUE),
                           {k \in Key : ~HasValue(doc.nodes, k, Factory[k])}))
Undo == Idle /\ doc # None /\ doc.undo # <<>> /\ Document(Undone(doc))
Redo == Idle /\ doc # None /\ doc.redo # <<>> /\ Document(Redone(doc))

\* bounds: lists of at most one entry, and one value for what is not a scalar
\* setting.
Short == {<<>>} \cup {<<e>> : e \in Entry}
Edits ==
    \/ \E k \in Key, v \in Value : UpdateSetting(k, v)
    \/ \E fonts \in {<<>>} \cup {<<<<e, Fallback>>>> : e \in Entry} : UpdateIndividuals(fonts)
    \/ \E s \in List, entries \in Short : UpdateList(s, entries)
    \/ \E shapes \in [Shape -> {Fallback, None}], entries \in Short : UpdateAdvanced(shapes, entries)
    \/ ResetDefaults \/ Undo \/ Redo

\* save_profile: a file outside the profile directories is never written,
\* and a file that changed since it was read is not replaced.
MaySave == doc.path \notin External /\ file[doc.path] = doc.base
SaveCheck ==
    /\ Idle /\ doc # None /\ MaySave
    /\ saving' = TRUE
    /\ UNCHANGED <<doc, file, backup, ragged>>
\* ReplaceFileW: what was there moves to the backup in the same call.
ReplaceWithoutBackup(p, bytes) == file' = [file EXCEPT ![p] = bytes] /\ UNCHANGED backup
ReplaceFile(p, bytes) ==
    /\ file' = [file EXCEPT ![p] = bytes]
    /\ backup' = [backup EXCEPT ![p] = file[p]]
SaveReplace ==
    /\ saving /\ file[doc.path] # None
    /\ ReplaceFile(doc.path, Encoded(doc.nodes))
    /\ doc' = Saved(doc)
    /\ saving' = FALSE
    /\ UNCHANGED <<ragged, work>>
SaveFails ==
    /\ saving /\ Works
    /\ saving' = FALSE
    /\ UNCHANGED <<doc, file, backup, ragged>>

\* duplicate_in: unsaved edits included, under a name that is free; a failed
\* write leaves what it wrote.
Duplicate ==
    /\ Idle /\ doc # None
    /\ \E p \in Personal :
         /\ file[p] = None
         /\ \/ /\ file' = [file EXCEPT ![p] = Encoded(doc.nodes)]
               /\ Opens(p, Encoded(doc.nodes))
            \/ file' = [file EXCEPT ![p] = <<>>] /\ UNCHANGED <<doc, ragged>>
    /\ UNCHANGED <<backup, saving>>
\* import_profile_to: the bytes as they are; a failed write is removed again.
Import ==
    /\ Idle
    /\ \E source \in Path, p \in Personal :
         /\ file[source] # None /\ file[p] = None
         /\ file' = [file EXCEPT ![p] = file[source]]
         /\ Opens(p, file[source])
    /\ UNCHANGED <<backup, saving>>
\* export_to writes in place, over any file, the document's own included.
Export ==
    /\ Idle /\ doc # None
    /\ \E p \in Path : \E bytes \in {Encoded(doc.nodes), <<>>} :
         file' = [file EXCEPT ![p] = bytes]
    /\ UNCHANGED <<doc, backup, saving, ragged>>

\* Somebody else writes, deletes or restores a profile file.
OthersWrite ==
    /\ Works
    /\ \E p \in Path, bytes \in Originals \cup {None} :
         bytes # file[p] /\ file' = [file EXCEPT ![p] = bytes]
    /\ UNCHANGED <<doc, backup, saving, ragged>>

EditorCommand == OpenProfile \/ DiscardChanges \/ Edits \/ SaveCheck \/ Duplicate \/ Import \/ Export

EditorInit ==
    /\ doc = None
    /\ file \in [Path -> Originals \cup {None}]
    /\ \A p \in Path : (file[p] = None) = (p \notin Installed)
    /\ backup = [p \in Path |-> None]
    /\ saving = FALSE /\ ragged = FALSE /\ work = 0

-----------------------------------------------------------------------------
(* Properties.                                                             *)

\* The document and the files have their types, and undo and redo together
\* never hold more than the limit of record_edit, although redo appends
\* without looking at it.
EditorTypeOK ==
    /\ doc # None =>
         /\ doc.path \in Path /\ doc.nodes \in Seq(IniNode) /\ doc.base \in Seq(IniNode)
         /\ doc.dirty \subseteq Key \cup Shape \cup List \cup {Individual}
         /\ Len(doc.undo) + Len(doc.redo) <= HISTORY_LIMIT
    /\ \A p \in Path : file[p] = None \/ file[p] \in Seq(IniNode)
    /\ \A p \in Path : backup[p] = None \/ backup[p] \in Seq(IniNode)
    /\ saving \in BOOLEAN /\ (saving => doc # None) /\ ragged \in BOOLEAN
    /\ work \in 0 .. MaxWork

\* A document without unsaved changes is, byte for byte, what was last read
\* from or written to its file, after any mix of edits, undo, redo and saves:
\* active_payload takes "not dirty" for it when a profile is applied.
CleanMeansSaved == doc # None /\ doc.dirty = {} => Encoded(doc.nodes) = doc.base

\* What the editor shows is what the file will say when it is opened again,
\* provided the file it came from ends its last line (otherwise a line that
\* set_raw_value or section_range adds is joined to it).
ShownIsWritten == doc # None /\ ~ragged => View(Encoded(doc.nodes)) = View(doc.nodes)

\* Changing one setting changes that setting and nothing else, whichever of
\* FreeType and General holds it and however often (set_raw_value against
\* raw_value).
EditIsLocal ==
    \A k \in Key, v \in Value : UpdateSetting(k, v) =>
       View(doc'.nodes) = [View(doc.nodes) EXCEPT !.settings[k] = v]

Headers(n, s) == {i \in DOMAIN n : n[i].kind = "section" /\ n[i].name = s}
\* Replacing a list gives exactly that list and leaves the other sections
\* alone, unless the section occurs twice (replace_list_section rewrites the
\* first, list_entries reads both).
ListIsReplaced ==
    \A s \in List, entries \in Short :
       UpdateList(s, entries) /\ Cardinality(Headers(doc.nodes, s)) <= 1 =>
       View(doc'.nodes) = [View(doc.nodes) EXCEPT
           !.lists[s] = [i \in DOMAIN entries |-> <<entries[i], None>>]]

\* A save destroys nothing it has not seen: the file it replaces has the bytes
\* the document was read from, or they are in the backup (the comparison and
\* ReplaceFileW are two steps, and others write in between).
NothingUnseenIsLost ==
    SaveReplace => \/ file[doc.path] = doc.base
                   \/ backup'[doc.path] = file[doc.path]

\* An edit or a save does to the text what the user asked for and nothing else,
\* whatever the file looked like and whoever else writes it.
EditsAreFaithful == [][EditIsLocal /\ ListIsReplaced /\ NothingUnseenIsLost]_docVars

=============================================================================
