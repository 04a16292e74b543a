---------------------------- MODULE BackupExport ----------------------------
(***************************************************************************)
(* lib/db/backup-export.ts, lib/r2.ts and the cron route: the reference    *)
(* tables are read page by page while others write them, each is put into  *)
(* the off-vendor bucket and read back, the manifest comes last, and only a*)
(* run that is whole pings the dead-man's switch.                          *)
(***************************************************************************)
EXTENDS Naturals, SequencesExt

CONSTANTS
    TIER1_TABLES,       \* Seq of table names, in the order they are exported
    Deletable,          \* the tables whose rows the service may delete
    Ids,                \* row ids, ordered
    EXPORT_PAGE_SIZE,
    Runs,               \* invocations of the cron
    Minutes,            \* an object's prefix is the minute its run began
    MaxChanges          \* bound on what others write

VARIABLES
    db,          \* [tables -> Seq of sets of ids; the columns are all there]
    missing,     \* the tables whose migration has not been applied
    specs,       \* [tables -> the columns allowlisted]
    bucket,      \* [Minutes -> [names -> an object]]
    run,         \* [Runs -> a run, or its summary]
    changes      \* counts the writes of others

own == << db, missing, specs, bucket, run, changes >>

Tables    == Range(TIER1_TABLES)
Manifest  == "manifest.json"
NoObject  == [ rows |-> << >>, columns |-> {}, there |-> FALSE ]
Waiting   == [ pc |-> "waiting" ]
FORBIDDEN_COLUMNS == {"task_description"}
EXCLUDED_TABLES   == {"task_description_history", "sessions", "used_nonces", "mcp_challenges"}
NotYet    == [ status |-> "not yet" ]

(* The registry names a table once. *)
BackupAssumption ==
    /\ TIER1_TABLES \in Seq(STRING) \ {<< >>} /\ IsInjective(TIER1_TABLES)
    /\ Manifest \notin Tables
    /\ Ids \subseteq Nat /\ IsFiniteSet(Ids) /\ EXPORT_PAGE_SIZE \in Nat \ {0}

Init ==
    /\ db \in [Tables -> SUBSET Ids]
    /\ missing \in { {}, {Last(TIER1_TABLES)} }
    /\ \A t \in missing : db[t] = {}
    /\ specs \in [Tables -> { {"id"}, {"id"} \cup FORBIDDEN_COLUMNS }]
    /\ bucket = [p \in Minutes |-> [n \in Tables \cup {Manifest} |-> NoObject]]
    /\ run = [r \in Runs |-> Waiting]
    /\ changes = 0
-----------------------------------------------------------------------------
(* What others write.  `there' of a run: the rows that have been in their  *)
(* table ever since it began.                                              *)

Active(r) == run[r].pc \notin {"waiting", "ended"}

insert(t, i) ==
    /\ changes < MaxChanges /\ t \notin missing /\ i \notin db[t]
    /\ db' = [db EXCEPT ![t] = @ \cup {i}]
    /\ changes' = changes + 1
    /\ UNCHANGED << missing, specs, bucket, run >>

delete(t, i) ==
    /\ changes < MaxChanges /\ t \in Deletable /\ i \in db[t]
    /\ db' = [db EXCEPT ![t] = @ \ {i}]
    /\ run' = [r \in Runs |-> IF Active(r) THEN [run[r] EXCEPT !.there[t] = @ \ {i}] ELSE run[r]]
    /\ changes' = changes + 1
    /\ UNCHANGED << missing, specs, bucket >>
-----------------------------------------------------------------------------
(* exportTier1ToR2 *)

Goes(r, f) == run' = [run EXCEPT ![r] = f] /\ UNCHANGED << db, missing, specs, bucket, changes >>

assertSpecCompliance ==
    /\ Tables \cap EXCLUDED_TABLES = {}
    /\ \A t \in Tables : specs[t] \cap FORBIDDEN_COLUMNS = {}

(* Throws with a registry that would let content out.                      *)
begin(r, minute) ==
    /\ run[r].pc = "waiting"
    /\ assertSpecCompliance
    /\ Goes(r, [ pc |-> "fetch", prefix |-> minute, table |-> 1, rows |-> << >>, there |-> db,
                 results |-> [t \in Tables |-> NotYet] ])

TableOf(r) == TIER1_TABLES[run[r].table]

Recorded(r, result) ==
    LET f == [run[r] EXCEPT !.results[TableOf(r)] = result, !.table = @ + 1, !.rows = << >>]
    IN  [f EXCEPT !.pc = IF f.table > Len(TIER1_TABLES) THEN "put manifest" ELSE "fetch"]

Sorted(ids) ==
    CHOOSE s \in [1 .. Cardinality(ids) -> ids] : \A i, j \in DOMAIN s : i < j => s[i] < s[j]
FirstOf(ids) == LET s == Sorted(ids)
                IN  SubSeq(s, 1, IF Len(s) < EXPORT_PAGE_SIZE THEN Len(s) ELSE EXPORT_PAGE_SIZE)

(* Mutant: pages by offset. *)
nextPage_Offset(t, rows) ==
    LET s == Sorted(db[t]) IN FirstOf({ s[i] : i \in Len(rows) + 1 .. Len(s) })

(* order by id, id > lastId, limit. *)
nextPage(t, rows) ==
    FirstOf({ i \in db[t] : rows = << >> \/ i > Last(rows) })

(* A page that is not full is the last. *)
fetchAllRows(r) ==
    /\ run[r].pc = "fetch"
    /\ LET t    == TableOf(r)
           page == nextPage(t, run[r].rows)
       IN  IF t \in missing THEN Goes(r, Recorded(r, [ status |-> "absent" ]))
           ELSE Goes(r, [run[r] EXCEPT !.rows = @ \o page,
                             !.pc = IF Len(page) < EXPORT_PAGE_SIZE THEN "put" ELSE "fetch"])

Store(r, name, object) ==
    bucket' = [bucket EXCEPT ![run[r].prefix][name] = object]

Body(r) == [ rows |-> run[r].rows, columns |-> specs[TableOf(r)], there |-> TRUE ]

putObject(r) ==
    /\ run[r].pc = "put"
    /\ Store(r, TableOf(r), Body(r))
    /\ run' = [run EXCEPT ![r].pc = "get"]
    /\ UNCHANGED << db, missing, specs, changes >>

(* What comes back is hashed: it may have been cut, or be another run's.   *)
getObject(r) ==
    /\ run[r].pc = "get"
    /\ \E intact \in BOOLEAN :
         Goes(r, Recorded(r, [ status |-> "exported", rows |-> run[r].rows,
                   verified |-> intact /\ bucket[run[r].prefix][TableOf(r)] = Body(r) ]))

(* A query, a PUT or a GET fails: the table does, and the next is tried. A *)
(* PUT whose answer is lost has stored the object.                         *)
tableFails(r) ==
    /\ run[r].pc \in {"fetch", "put", "get"}
    /\ Goes(r, Recorded(r, [ status |-> "failed" ]))

Whole(results) ==
    /\ \A t \in Tables :
         \/ results[t].status = "absent"
         \/ results[t].status = "exported" /\ results[t].verified
    /\ \E t \in Tables : results[t].status = "exported"

(* The manifest has each table's status and hash, and not how its read-    *)
(* back went.                                                              *)
buildManifest(results) ==
    [t \in Tables |-> IF results[t].status = "exported"
                      THEN [ status |-> "exported", rows |-> results[t].rows ]
                      ELSE [ status |-> results[t].status ]]

ManifestOf(r) == [ rows |-> buildManifest(run[r].results), columns |-> {}, there |-> TRUE ]

putManifest(r) ==
    /\ run[r].pc = "put manifest"
    /\ Store(r, Manifest, ManifestOf(r))
    /\ run' = [run EXCEPT ![r].pc = "get manifest"]
    /\ UNCHANGED << db, missing, specs, changes >>

Ended(r, ok) == Goes(r, [ pc |-> "ended", ok |-> ok, prefix |-> run[r].prefix,
                          there |-> run[r].there, results |-> run[r].results ])

(* The summary; the heartbeat is pinged when it is ok. *)
getManifest(r) ==
    /\ run[r].pc = "get manifest"
    /\ \E intact \in BOOLEAN :
         Ended(r, /\ Whole(run[r].results)
                  /\ intact /\ bucket[run[r].prefix][Manifest] = ManifestOf(r))

manifestFails(r) ==
    /\ run[r].pc \in {"put manifest", "get manifest"}
    /\ Ended(r, FALSE)

(* The function's time is up. *)
crash(r) ==
    /\ Active(r)
    /\ Ended(r, FALSE)

Next ==
    \/ \E t \in Tables, i \in Ids : insert(t, i) \/ delete(t, i)
    \/ \E r \in Runs, p \in Minutes : begin(r, p)
    \/ \E r \in Runs : \/ fetchAllRows(r) \/ putObject(r) \/ getObject(r) \/ tableFails(r)
                       \/ putManifest(r) \/ getManifest(r) \/ manifestFails(r) \/ crash(r)

Spec == Init /\ [][Next]_own
-----------------------------------------------------------------------------
Alone(r) == \A o \in Runs \ {r} : run[o].pc = "waiting" \/ run[o].prefix # run[r].prefix

(* A run that pinged the switch, and had its minute to itself, has left in *)
(* the bucket every row that was in its table all along, once, whoever     *)
(* wrote between its pages; its manifest is of those objects.  No object   *)
(* has a forbidden column.                                                 *)
BackupIsWhole ==
    /\ \A r \in Runs : run[r].pc = "ended" /\ run[r].ok /\ Alone(r) =>
            LET objects == bucket[run[r].prefix] IN
            \A t \in Tables \ missing :
               /\ run[r].there[t] \subseteq Range(objects[t].rows)
               /\ IsInjective(objects[t].rows)
               /\ objects[Manifest].rows[t] = [ status |-> "exported", rows |-> objects[t].rows ]
    /\ \A p \in Minutes, t \in Tables : bucket[p][t].columns \cap FORBIDDEN_COLUMNS = {}
=============================================================================
