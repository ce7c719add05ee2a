------------------------------ MODULE Ingestion ------------------------------
(***************************************************************************)
(* How an upload or a local directory becomes the source directory of a    *)
(* scan: names (app/ingest/paths.py), filters (filters.py), zip archives   *)
(* (zipsafe.py), single files (upload.py) and directories (directory.py),  *)
(* and which files have a language (app/preprocess/detect.py).             *)
(*                                                                         *)
(* A name is a record of parts, its segments, and whether it is absolute,  *)
(* ends with a separator (folder) or is too long.  An entry is a record of *)
(* a name, its kind ("file", "folder", "link", "special"), size (declared  *)
(* in an archive's header, or what lstat says), actual (what reading it    *)
(* yields), and flags: locked (encrypted, or not readable), corrupt,       *)
(* binary, clash (the system has another file of this name) and excluded   *)
(* (by a pattern of the user), and shebang: the interpreter it names.      *)
(***************************************************************************)
EXTENDS Lists

CONSTANTS
  LowerCase,            \* LowerCase[c]: a segment in lower case
  ExcludedDirectories, Lockfiles, GeneratedNames,
  NotPortable,          \* segments that are no file names on some system
  LanguageOf,           \* LanguageOf[c]: the language of a name that has an extension
  Interpreters,         \* Interpreters[i]: the language of an interpreter
  Limits                \* IngestLimits: files, total, file, archive, ratio

ASSUME LimitAssumption ==
  Limits.files \in Nat \ {0} /\ Limits.file \in Nat /\ Limits.total \in Nat

NoLanguage == "none"

-----------------------------------------------------------------------------
(* Names.                                                                  *)

PathOf(name) == Kept(name.parts, LAMBDA p : p \notin {"", "."})

\* Of the name of a single file only what follows the last separator counts.
BaseName(name) ==
  [parts |-> <<Last(name.parts)>>, absolute |-> FALSE, folder |-> FALSE, long |-> name.long]

\* safe_relative_path
NameProblem(name) ==
  CASE name.absolute \/ ".." \in Range(name.parts) -> "path_traversal"
    [] OTHER -> IF \/ PathOf(name) = <<>> \/ name.long
                   \/ Range(PathOf(name)) \cap NotPortable # {}
                THEN "invalid_path" ELSE "none"

\* Two paths with one key are one file on some systems.
Key(path) == [i \in DOMAIN path |-> LowerCase[path[i]]]
Parents(path) == {SubSeq(path, 1, n) : n \in 1..(Len(path) - 1)}

SkipForPath(path) ==
  CASE \E p \in Range(Front(Key(path))) : p \in ExcludedDirectories -> "excluded_directory"
    [] OTHER -> IF Last(Key(path)) \in Lockfiles THEN "lockfile"
                ELSE IF Last(Key(path)) \in GeneratedNames THEN "minified" ELSE "none"

SkipForContent(entry) ==
  IF entry.size > Limits.file THEN "too_large"
  ELSE IF entry.binary THEN "binary" ELSE "none"

\* What a header, a client or a file system says of an entry.
IsEntry(e) ==
  /\ {"name", "file", "kind", "size", "actual"} \subseteq DOMAIN e
  /\ IsList(e.name.parts)
  /\ e.kind \in {"file", "folder", "link", "special"}
  /\ e.name.folder => e.kind # "file"
  /\ e.size \in Nat /\ e.actual \in Nat

-----------------------------------------------------------------------------
(* What is on disk: files, their paths and the bytes written; what was     *)
(* skipped, and why; and why everything was rejected, if it was.           *)

Nothing == [files |-> <<>>, skipped |-> <<>>, rejected |-> "none"]

Rejected(problem) == [Nothing EXCEPT !.rejected = problem]
Skipping(s, path, reason) ==
  [s EXCEPT !.skipped = Append(@, [path |-> path, reason |-> reason])]
Writing(s, entry) ==
  [s EXCEPT !.files = Append(@, [path |-> PathOf(entry.name), entry |-> entry])]

\* The bytes on disk, and those that were expected.
Written(s) == TotalOf([i \in DOMAIN s.files |-> s.files[i].entry.actual])
Expected(s) == TotalOf([i \in DOMAIN s.files |-> s.files[i].entry.size])

-----------------------------------------------------------------------------
(* Zip archives: a record of the archive's size and its entries.           *)

Members(entries) == Kept(entries, LAMBDA e : ~ e.name.folder)

\* What _validate_members says of entry i, the ones before it being accepted.
EntryProblem(entries, i) ==
  LET e == entries[i]
      key == Key(PathOf(e.name))
  IN  IF NameProblem(e.name) # "none" THEN NameProblem(e.name)
      ELSE IF e.kind = "link" THEN "symlink"
      ELSE IF e.locked THEN "encrypted_entry"
      ELSE IF \E j \in 1..(i - 1) : Key(PathOf(entries[j].name)) = key THEN "duplicate_entry"
      ELSE IF Len(Members(SubSeq(entries, 1, i))) > Limits.files THEN "too_many_files"
      ELSE "none"

FileUsedAsDirectory(members) ==
  \E i, j \in DOMAIN members :
    Key(PathOf(members[i].name)) \in Parents(Key(PathOf(members[j].name)))

\* _reject_oversized_expansion
ExpansionProblem(total, size) ==
  CASE total > Limits.total -> "uncompressed_too_large"
    [] total <= Limits.total /\ total > Limits.file /\ total > Limits.ratio * Larger(size, 1) ->
         "compression_ratio"
    [] OTHER -> "none"

ArchiveProblem(archive) ==
  LET entries == archive.entries
      bad == {i \in DOMAIN entries : EntryProblem(entries, i) # "none"}
      members == Members(entries)
  IN  IF archive.size > Limits.archive THEN "archive_too_large"
      ELSE IF bad # {} THEN EntryProblem(entries, FirstOf(bad))
      ELSE IF FileUsedAsDirectory(members) THEN "duplicate_entry"
      ELSE ExpansionProblem(TotalOf([i \in DOMAIN members |-> members[i].size]), archive.size)

\* A plausible slip: headers are believed.
ExtractBelieving(s, m) ==
  LET path == PathOf(m.name)
  IN  CASE s.rejected # "none" -> s
        [] s.rejected = "none" /\ SkipForPath(path) # "none" ->
             Skipping(s, path, SkipForPath(path))
        [] OTHER ->
             IF m.corrupt THEN [s EXCEPT !.rejected = "corrupt_archive"]
             ELSE IF SkipForContent(m) # "none" THEN Skipping(s, path, SkipForContent(m))
             ELSE IF m.clash THEN [s EXCEPT !.rejected = "duplicate_entry"]
             ELSE Writing(s, m)

\* One member of a validated archive; nothing more after a failure.  Its content is
\* looked at only when its path does not decide, and it is written up to the size
\* that its header declares.
Extract(s, m) ==
  LET path == PathOf(m.name)
  IN  CASE s.rejected # "none" -> s
        [] s.rejected = "none" /\ SkipForPath(path) # "none" ->
             Skipping(s, path, SkipForPath(path))
        [] OTHER ->
             IF m.corrupt THEN [s EXCEPT !.rejected = "corrupt_archive"]
             ELSE IF SkipForContent(m) # "none" THEN Skipping(s, path, SkipForContent(m))
             ELSE IF m.clash THEN [s EXCEPT !.rejected = "duplicate_entry"]
             ELSE IF m.actual > m.size THEN [s EXCEPT !.rejected = "size_mismatch"]
             ELSE Writing(s, m)

\* extract_archive: a failure clears the directory.
ExtractArchive(archive) ==
  LET extracted == FoldedOver(Extract, Nothing, Members(archive.entries))
  IN  CASE ArchiveProblem(archive) # "none" -> Rejected(ArchiveProblem(archive))
        [] ArchiveProblem(archive) = "none" /\ extracted.rejected # "none" ->
             Rejected(extracted.rejected)
        [] OTHER -> extracted

-----------------------------------------------------------------------------
(* Single files and directories.                                           *)

\* _ingest_single_file
IngestFile(entry) ==
  LET name == BaseName(entry.name)
      path == PathOf(name)
      reason == IF SkipForPath(path) # "none" THEN SkipForPath(path) ELSE SkipForContent(entry)
  IN  CASE NameProblem(name) # "none" -> Rejected(NameProblem(name))
        [] NameProblem(name) = "none" /\ reason # "none" -> Skipping(Nothing, path, reason)
        [] OTHER -> Writing(Nothing, [entry EXCEPT !.name = name])

\* Why a directory entry is skipped: _descend_into and _inspect.
EntrySkip(e) ==
  CASE e.excluded /\ ~ (e.kind = "link" /\ e.name.folder) -> "excluded"
    [] OTHER ->
         IF e.kind = "link" THEN "symlink"
         ELSE IF e.kind = "special" THEN "special_file"
         ELSE IF e.kind = "folder"
         THEN (IF LowerCase[Last(PathOf(e.name))] \in ExcludedDirectories
               THEN "excluded_directory" ELSE "none")
         ELSE IF NameProblem(e.name) # "none" THEN "invalid_name"
         ELSE IF SkipForPath(PathOf(e.name)) # "none" THEN SkipForPath(PathOf(e.name))
         ELSE IF e.locked THEN "unreadable"
         ELSE SkipForContent(e)

\* One entry of the walk: nothing below a folder that is skipped is visited.  A
\* file that is longer than it was when it was looked at fails the scan.
Visit(s, e) ==
  LET path == PathOf(e.name)
      below == \E i \in DOMAIN s.skipped : s.skipped[i].path \in Parents(path)
  IN  CASE s.rejected # "none" \/ below -> s
        [] s.rejected = "none" /\ ~ below /\ EntrySkip(e) # "none" ->
             Skipping(s, path, EntrySkip(e))
        [] OTHER ->
             IF e.kind = "folder" THEN s
             ELSE IF Len(s.files) + 1 > Limits.files THEN [s EXCEPT !.rejected = "too_many_files"]
             ELSE IF Expected(s) + e.size > Limits.total
             THEN [s EXCEPT !.rejected = "uncompressed_too_large"]
             ELSE IF e.corrupt THEN Skipping(s, path, "unreadable")
             ELSE IF e.actual > e.size THEN [s EXCEPT !.rejected = "size_mismatch"]
             ELSE Writing(s, e)

\* ingest_directory, its entries in the order of the walk.
IngestDirectory(entries) == FoldedOver(Visit, Nothing, entries)

Ingested(upload) ==
  CASE upload.kind = "archive"   -> ExtractArchive(upload)
    [] upload.kind = "file"      -> IngestFile(upload.entries[1])
    [] upload.kind = "directory" -> IngestDirectory(upload.entries)

-----------------------------------------------------------------------------

\* detect_language: only a file without an extension is asked for a shebang.
NameLanguage(file) ==
  LET name == LowerCase[Last(file.path)]
  IN  IF name \in DOMAIN LanguageOf THEN LanguageOf[name] ELSE NoLanguage

Language(file) ==
  LET name == LowerCase[Last(file.path)]
  IN  IF name \in DOMAIN LanguageOf THEN LanguageOf[name]
      ELSE IF file.entry.shebang \in DOMAIN Interpreters THEN Interpreters[file.entry.shebang]
      ELSE NoLanguage

=============================================================================
