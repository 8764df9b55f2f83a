------------------------------ MODULE StageIn ------------------------------
(***************************************************************************)
(* The stage-in shell plugin (src/src/shell/stage-in.c): one job shell     *)
(* reads the "stage-in" option, resolves the archive names and the         *)
(* destination, changes into the destination directory, looks each         *)
(* archive up in the KVS, filters its entries by the optional pattern and  *)
(* extracts them.                                                          *)
(*                                                                         *)
(* Data is abstracted: an option string is a sequence of its ','-separated *)
(* tokens (what argz_create_sep yields), an archive entry is "match" (a     *)
(* path the pattern matches), "other" (a path it does not) or "nopath"     *)
(* (an entry without a string "path"), and a destination is the prefix     *)
(* class of the string.  The program's inputs (option, KVS, shell rank,    *)
(* environment) are chosen in Init and never change.                       *)
(***************************************************************************)
EXTENDS Naturals, Sequences, SequencesExt

CONSTANTS
    TokenLists,     \* the token sequences a names/tags option may hold
    Archives,       \* the archives a KVS key may hold (sequences of entries)
    Ranks,          \* the shell ranks
    None,           \* an option the config does not give (NULL)
    Absent          \* no archive under the key: the lookup fails

Entries == {"match", "other", "nopath"}
Destinations == {None, "local:", "global:", "plain", "other:"}

VARIABLES
    given,      \* the stage-in option: "set", "absent" or "error" (getopt fails)
    opt,        \* the parsed option: names, tags, pattern, destination, ok
    kvs,        \* archive.<name> in the primary namespace
    rank,       \* shell->info->shell_rank
    tmpdir,     \* FLUX_JOB_TMPDIR is set
    pc,         \* where the plugin is
    names,      \* ctx.names
    destdir,    \* ctx.destdir is set (NULL or not)
    leader,     \* leader_only
    i,          \* the json_array_foreach index into names (1-based)
    archive,    \* the archive being filtered, edited in place
    index,      \* the filter loop's index (0-based, as in the code)
    count,      \* ctx.count, bumped by trace_cb per extracted file
    extracted,  \* the entries filemap_extract has written, in order
    rc          \* the return code of stage_in

inputs == <<given, opt, kvs, rank, tmpdir>>
vars == <<given, opt, kvs, rank, tmpdir, pc, names, destdir, leader, i, archive,
          index, count, extracted, rc>>

Names == UNION {Range(t) : t \in TokenLists} \cup {"main"}
Options == [names : {None} \cup TokenLists, tags : {None} \cup TokenLists,
            pattern : BOOLEAN, destination : Destinations, ok : BOOLEAN]

parse_names_no_default_on_empty(s, default_value) ==
    IF s = None THEN <<default_value>> ELSE s

(* parse_names: the tokens of s, or default_value when there are none.    *)
parse_names(s, default_value) ==
    IF s = None \/ s = <<>> THEN <<default_value>> ELSE s

(* The condition under which the filter loop keeps an entry: it has a     *)
(* string "path" and fnmatch(pattern, path) == 0.                          *)
Keep(e) == e = "match"

TypeOK ==
    /\ given \in {"set", "absent", "error"}
    /\ opt \in Options
    /\ kvs \in [Names -> Archives \cup {Absent}]
    /\ rank \in Ranks /\ tmpdir \in BOOLEAN
    /\ pc \in {"init", "start", "chdir", "lookup", "filter", "extract", "chdirback",
               "done", "died"}
    /\ names \in Seq(Names) /\ destdir \in BOOLEAN /\ leader \in BOOLEAN
    /\ i \in Nat /\ index \in Nat /\ count \in Nat
    /\ archive \in Seq(Entries) /\ extracted \in Seq(Entries)
    /\ rc \in {0, -1}

Init ==
    /\ given \in {"set", "absent", "error"}
    /\ opt \in Options
    /\ kvs \in [Names -> Archives \cup {Absent}]
    /\ rank \in Ranks /\ tmpdir \in BOOLEAN
    /\ pc = "init"
    /\ names = <<>> /\ destdir = FALSE /\ leader = FALSE
    /\ i = 0 /\ archive = <<>> /\ index = 0 /\ count = 0
    /\ extracted = <<>> /\ rc = 0

Fail(to) == pc' = to /\ rc' = -1

(* stage_in_init: a getopt failure returns -1, an absent option returns 0 *)
(* at once, a given one runs stage_in.                                     *)
stage_in_init ==
    /\ pc = "init"
    /\ CASE given = "error"  -> Fail("done")
         [] given = "absent" -> pc' = "done" /\ rc' = 0
         [] OTHER            -> pc' = "start" /\ rc' = rc
    /\ UNCHANGED <<inputs, names, destdir, leader, i, archive, index, count,
                   extracted>>

(* stage_in up to the call of extract_files.  An unpack error, a          *)
(* destination with an unknown prefix and an unset FLUX_JOB_TMPDIR fail;  *)
(* "tags" overrides "names"; with a "global:" destination only rank 0     *)
(* extracts.                                                               *)
StageIn ==
    /\ pc = "start"
    /\ LET n   == IF opt.tags # None THEN opt.tags ELSE opt.names
           d   == opt.destination
           dir == d \in {"local:", "global:", "plain"} \/ (d = None /\ tmpdir)
           ldr == d = "global:"
       IN  /\ names' = IF opt.ok THEN parse_names(n, "main") ELSE <<>>
           /\ destdir' = (opt.ok /\ dir)
           /\ leader' = (opt.ok /\ ldr)
           /\ IF ~opt.ok \/ d = "other:" \/ ~dir
                THEN Fail("done")
              ELSE IF rank = 0 \/ ~ldr
                THEN pc' = "chdir" /\ rc' = rc
              ELSE pc' = "done" /\ rc' = 0
    /\ UNCHANGED <<inputs, i, archive, index, count, extracted>>

(* extract_files: getcwd, which fails with a return at once, then         *)
(* chdir(ctx->destdir), which on failure skips to the chdir back.          *)
ChdirDest ==
    /\ pc = "chdir"
    /\ \/ pc' = "lookup" /\ i' = 1 /\ rc' = rc
       \/ Fail("chdirback") /\ i' = i
       \/ Fail("done") /\ i' = i
    /\ UNCHANGED <<inputs, names, destdir, leader, archive, index, count,
                   extracted>>

LookupSkipsAbsent ==
    /\ pc = "lookup"
    /\ IF i > Len(names)
         THEN pc' = "chdirback" /\ UNCHANGED <<archive, index, rc, i>>
       ELSE IF kvs[names[i]] = Absent
         THEN i' = i + 1 /\ UNCHANGED <<pc, archive, index, rc>>
       ELSE /\ archive' = kvs[names[i]]
            /\ index' = 0
            /\ pc' = IF opt.pattern THEN "filter" ELSE "extract"
            /\ UNCHANGED <<rc, i>>
    /\ UNCHANGED <<inputs, names, destdir, leader, count, extracted>>

(* One iteration of json_array_foreach in extract: the end of the array,   *)
(* or the lookup of archive.<name>, which fails when the key is absent.   *)
Lookup ==
    /\ pc = "lookup"
    /\ IF i > Len(names)
         THEN pc' = "chdirback" /\ UNCHANGED <<archive, index, rc>>
       ELSE IF kvs[names[i]] = Absent
         THEN Fail("chdirback") /\ UNCHANGED <<archive, index>>
       ELSE /\ archive' = kvs[names[i]]
            /\ index' = 0
            /\ pc' = IF opt.pattern THEN "filter" ELSE "extract"
            /\ rc' = rc
    /\ UNCHANGED <<inputs, names, destdir, leader, i, count, extracted>>

(* One iteration of the pattern filter loop: an entry that does not match *)
(* is removed in place and the index stays; a match advances the index.   *)
FilterRemoveClearSlot(a, k) == [a EXCEPT ![k + 1] = None]
FilterRemoveOffByOne(a, k) == RemoveAt(a, k)
FilterRemoveNoop(a, k) == a

FilterRemove(a, k) == RemoveAt(a, k + 1)

FilterStep ==
    /\ pc = "filter"
    /\ \/ /\ index < Len(archive) /\ ~Keep(archive[index + 1])
          /\ archive' = FilterRemove(archive, index)
          /\ UNCHANGED <<pc, index>>
       \/ /\ index < Len(archive) /\ Keep(archive[index + 1])
          /\ index' = index + 1
          /\ UNCHANGED <<pc, archive>>
       \/ /\ index >= Len(archive)
          /\ pc' = "extract"
          /\ UNCHANGED <<archive, index>>
    /\ UNCHANGED <<inputs, names, destdir, leader, i, count, extracted, rc>>

(* trace_cb, once per file written: ctx->count++ (the size total and the   *)
(* trace line are left out).                                               *)
trace_cb(c, files) == c + Len(files)

(* filemap_extract of the (filtered) archive, calling trace_cb per file;  *)
(* it fails on an I/O error after writing some prefix of the files.       *)
Extract ==
    /\ pc = "extract"
    /\ \/ /\ extracted' = extracted \o archive
          /\ count' = trace_cb(count, archive)
          /\ i' = i + 1 /\ pc' = "lookup" /\ rc' = rc
       \/ \E k \in 0..Len(archive) :
             /\ extracted' = extracted \o SubSeq(archive, 1, k)
             /\ count' = trace_cb(count, SubSeq(archive, 1, k))
             /\ i' = i /\ Fail("chdirback")
    /\ UNCHANGED <<inputs, names, destdir, leader, archive, index>>

(* The chdir back to the original directory; shell_die if it fails.        *)
ChdirBack ==
    /\ pc = "chdirback"
    /\ pc' \in {"done", "died"}
    /\ UNCHANGED <<inputs, names, destdir, leader, i, archive, index, count,
                   extracted, rc>>

Next == stage_in_init \/ StageIn \/ ChdirDest \/ Lookup \/ FilterStep \/ Extract \/ ChdirBack

(* The plugin runs to completion in the shell's init callback.             *)
Spec == Init /\ [][Next]_vars /\ WF_vars(Next)

Terminated == pc \in {"done", "died"}

-----------------------------------------------------------------------------
(* Properties                                                              *)

(* What the archive under name should yield: its entries the pattern      *)
(* keeps, or all of them without a pattern.                                *)
Staged(n) == IF opt.pattern THEN SelectSeq(kvs[n], Keep) ELSE kvs[n]

(* The filter loop's invariant, which the in-place removal with the        *)
(* index loop of extract() must keep: the entries before index are all     *)
(* kept ones, and the entries the pattern keeps are exactly those of the   *)
(* archive as looked up.  A slip in the index (advancing after a removal)  *)
(* leaves an unmatched entry behind the index.                             *)
FilterKeepsMatches ==
    pc = "filter" =>
        /\ \A k \in 1..index : Keep(archive[k])
        /\ SelectSeq(archive, Keep) = Staged(names[i])

(* The archive names the option asks for: "tags" if given, else "names",  *)
(* and "main" when neither holds a name.                                   *)
Wanted ==
    LET n == IF opt.tags # None THEN opt.tags ELSE opt.names
    IN  IF n = None \/ n = <<>> THEN <<"main">> ELSE n

(* When the plugin returns 0, the files written are, in order, the kept  *)
(* entries of every wanted archive, trace_cb counted each one, and a      *)
(* shell without the option, or other than rank 0 with a "global:"        *)
(* destination, wrote nothing.                                             *)
SuccessExtractsAll ==
    (pc = "done" /\ rc = 0) =>
        /\ extracted =
              IF given = "absent" \/ (opt.destination = "global:" /\ rank # 0)
              THEN <<>>
              ELSE FlattenSeq([k \in 1..Len(Wanted) |-> Staged(Wanted[k])])
        /\ count = Len(extracted)

(* The number of wanted archives before the first one missing from the   *)
(* KVS: the lookups of extract() can get no further than these.           *)
Present ==
    LET ok(k) == \A m \in 1..k : kvs[Wanted[m]] # Absent
    IN  CHOOSE k \in 0..Len(Wanted) :
            ok(k) /\ (k = Len(Wanted) \/ ~ok(k + 1))

(* When stage_in fails part way (a later archive missing from the KVS, a  *)
(* filemap_extract error), the files already written are a prefix of what *)
(* a successful run writes: kept entries only, in order, from archives    *)
(* before the first missing one; nothing is rolled back, but nothing     *)
(* unwanted or out of order was written either.                           *)
FailureLeavesPrefix ==
    (Terminated /\ rc = -1) =>
        IsPrefix(extracted,
                 FlattenSeq([k \in 1..Present |-> Staged(Wanted[k])]))

(* The plugin always returns: the filter loop and the name loop end.       *)
EventuallyTerminates == <>Terminated

=============================================================================
