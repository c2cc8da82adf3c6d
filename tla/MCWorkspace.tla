----------------------------- MODULE MCWorkspace -----------------------------
(***************************************************************************)
(* The safety of what works on one brain, one component per behaviour:     *)
(* the deliveries of the queue (this module's own variables), or one of    *)
(* the components below, whose variables are work1 to work10 in the order  *)
(* their module declares them.  The sets and functions that a component    *)
(* gets have names, which TLC evaluates once.                              *)
(***************************************************************************)
EXTENDS Deliveries, Integers, Sequences, TLC

CONSTANT Actor   \* helpers, messages or events of other components

VARIABLES component, work1, work2, work3, work4, work5, work6, work7, work8, work9, work10

work == <<work1, work2, work3, work4, work5, work6, work7, work8, work9, work10>>
allVars == <<component, work, vars>>

\* Two processes, or two records.
Pair == {"one", "two"}

-----------------------------------------------------------------------------
(* Collection: a cycle beside a collection by hand of one sensor, or beside *)
(* another cycle and a run by hand of one routine.                          *)

CollectsByHand == "one" :> {"update"} @@ "two" :> {"collect"}
RunsByHand == "one" :> {"update"} @@ "two" :> {"update", "run"}
TheSensor == {"sensor"}
TheRoutine == {"routine"}
OfSensor == "sensor" :> 1
OfRoutine == "routine" :> 1
Rarely == [refresh |-> 4, lookback |-> 2]

Sensing == INSTANCE Collection WITH
    Process <- Pair, Does <- CollectsByHand,
    Sensor <- TheSensor, Routine <- {}, Snapshots <- {}, Refresh <- OfSensor,
    Lookback <- 1, Overlap <- 0, Reconcile <- Rarely, CatchUp <- 2, Backoff <- 1, Day <- 2,
    StartTime <- 0, MaxTime <- 2, MaxCorrections <- 1, MaxFailures <- 1, MaxKills <- 0, NoOne <- "nobody",
    clock <- work1, history <- work2, collected <- work3, written <- work4, held <- work5,
    call <- work6, since <- work7, budget <- work8

\* The same without corrections of the clock, over a longer time.
Gapping == INSTANCE Collection WITH
    Process <- Pair, Does <- CollectsByHand,
    Sensor <- TheSensor, Routine <- {}, Snapshots <- {}, Refresh <- OfSensor,
    Lookback <- 1, Overlap <- 0, Reconcile <- Rarely, CatchUp <- 2, Backoff <- 1, Day <- 2,
    StartTime <- 0, MaxTime <- 3, MaxCorrections <- 0, MaxFailures <- 1, MaxKills <- 0, NoOne <- "nobody",
    clock <- work1, history <- work2, collected <- work3, written <- work4, held <- work5,
    call <- work6, since <- work7, budget <- work8

Acting == INSTANCE Collection WITH
    Process <- Pair, Does <- RunsByHand,
    Sensor <- {}, Routine <- TheRoutine, Snapshots <- {}, Refresh <- OfRoutine,
    Lookback <- 1, Overlap <- 0, Reconcile <- Rarely, CatchUp <- 2, Backoff <- 1, Day <- 2,
    StartTime <- 0, MaxTime <- 2, MaxCorrections <- 0, MaxFailures <- 1, MaxKills <- 1, NoOne <- "nobody",
    clock <- work1, history <- work2, collected <- work3, written <- work4, held <- work5,
    call <- work6, since <- work7, budget <- work8

(* A schedule that runs whenever its period ends, with wakes, or at a time  *)
(* of allowed days.                                                         *)

Periodic == INSTANCE Schedules WITH
    Every <- 1, At <- 0 - 1, Days <- 0..6, Day <- 2, Lookback <- 1, Delay <- {1, 2},
    MaxTime <- 2, MaxJobs <- 3, MaxWakes <- 2,
    clock <- work1, wake <- work2, asked <- work3, progress <- work4, jobs <- work5,
    reader <- work6, worker <- work7

\* Once a day, at the second of its two instants, on the days 0 and 2.
Daily == INSTANCE Schedules WITH
    Every <- 1, At <- 1, Days <- {0, 2}, Day <- 2, Lookback <- 1, Delay <- {1},
    MaxTime <- 5, MaxJobs <- 2, MaxWakes <- 1,
    clock <- work1, wake <- work2, asked <- work3, progress <- work4, jobs <- work5,
    reader <- work6, worker <- work7

OneEditor == {"editor"}

Replacing == INSTANCE GuardedWrite WITH
    Helper <- Pair, Editor <- OneEditor, Inode <- 1..5, Leaf <- 1..4,
    MaxKills <- 1, MaxReads <- 3,
    file <- work1, temporary <- work2, leaf <- work3, holder <- work4, call <- work5,
    reads <- work6, kills <- work7, saved <- work8, raced <- work9

Queueing == INSTANCE QueueSpace WITH
    Job <- 1..4, Direct <- {3}, Routes <- 1, MaxBytes <- 2, Escape <- 1, Limit <- 16,
    BODY_BUDGET <- 4, MAX_PENDING <- 5,
    state <- work1, raw <- work2, prepared <- work3, open <- work4, kept <- work5

Polling == INSTANCE ReadPoll WITH
    Message <- Actor, Ahead <- {0, 2}, Overlap <- 2, MAX_BATCH <- 2, CATCH_UP <- 2, MaxTime <- 3,
    clock <- work1, sent <- work2, progress <- work3, poll <- work4, admitted <- work5,
    overflowed <- work6

Counting == INSTANCE UsageLog WITH
    Process <- Pair, Event <- Actor, LIMIT <- 2, KEEP <- 1, Window <- 2, MaxDay <- 3,
    today <- work1, files <- work2, noted <- work3, call <- work4, excused <- work5

\* The second release changes one file, drops one and adds one.
Shipped ==
    1 :> ("SKILL.md" :> "skill 1" @@ "old.md" :> "old 1")
    @@ 2 :> ("SKILL.md" :> "skill 2" @@ "new.md" :> "new 2")

ShippedFiles == {"SKILL.md", "old.md", "new.md"}

Installing == INSTANCE Installation WITH
    File <- ShippedFiles, Ships <- Shipped, MaxEdits <- 2, MaxKills <- 2,
    files <- work1, manifest <- work2, stray <- work3, run <- work4, edits <- work5,
    kills <- work6, begun <- work7, trampled <- work8, raced <- work9

Items == [time : 1..2, size : 1..2]
ShortLists ==
    {list \in UNION {[1..n -> Items] : n \in 0..2} :
        \A i \in 2..Len(list) : list[i].time <= list[i - 1].time}
ShortTexts == UNION {[1..n -> {1, 2, 4}] : n \in 0..4}

Reading == INSTANCE Paging WITH
    Lists <- ShortLists, Texts <- ShortTexts,
    Break <- 2, Limit <- 2, BUDGET <- 3, Room <- {3, 5},
    kind <- work1, lists <- work2, text <- work3, offset <- work4, seen <- work5,
    problems <- work6

Scanning == INSTANCE FolderScan WITH
    File <- {"record"}, Settle <- 2, Lag <- 1, MaxTime <- 3, MaxChanges <- 2,
    clock <- work1, folder <- work2, changes <- work3, cache <- work4, check <- work5

\* Without any date, undated since, and dated in the future.
Revision(time, updated) == [time |-> time, updated |-> updated]
SomeRevisions == {Revision(0 - 1, 0 - 1), Revision(0, 0), Revision(1, 2)}
BothModes == {"window", "snapshot"}

Retaining == INSTANCE Retention WITH
    Record <- Pair, Modes <- BothModes, ExpireAfter <- 0, SHRINK_FLOOR <- 0,
    Revisions <- SomeRevisions, MaxTime <- 1, MaxFaults <- 1,
    clock <- work1, mode <- work2, stored <- work3, hidden <- work4, collector <- work5,
    forgetting <- work6, faults <- work7

Reporting == INSTANCE Reports WITH
    MaxDay <- 2, Keep <- 1, MaxEdits <- 2, MaxKills <- 1,
    today <- work1, folders <- work2, reports <- work3, run <- work4, edited <- work5,
    raced <- work6, edits <- work7, kills <- work8

Watched == {"sensor", "helper"}

Interrupting == INSTANCE WatchLoop WITH
    Program <- Watched, Helper <- {"helper"}, Failing <- {},
    MaxSuccesses <- 1, MaxSignals <- 2,
    world <- work1, update <- work2, at <- work3, job <- work4, board <- work5,
    alert <- work6, signals <- work7, work <- work8

\* Two records, their old bytes and new ones.
TwoRecords == {"record", "other"}
TwoValues == {"old", "new"}
AllFaults == {"kill", "error", "power"}

Committing == INSTANCE RecordCommit WITH
    Record <- TwoRecords, Value <- TwoValues, Absent <- "no file",
    Faults <- AllFaults, MaxFaults <- 2,
    now <- work1, disk <- work2, base <- work3, goal <- work4, pc <- work5, todo <- work6,
    after <- work7, told <- work8, faults <- work9, powered <- work10

\* Two paths, one of them of the release's commit.
Releasing == INSTANCE Releases WITH
    Path <- {"feature", "changelog"}, Named <- {"feature"}, MaxCommits <- 1, MaxEdits <- 2,
    origin <- work1, ci <- work2, base <- work3, primary <- work4, clone <- work5, at <- work6,
    todo <- work7, theirs <- work8, raced <- work9, edits <- work10

\* Two brains, and a third path.
Dirs == {"work", "home"}
Places == {"/work", "/home", "/new"}
Names == {"a", "b"}
FirstPlaces == "/work" :> "work" @@ "/home" :> "home" @@ "/new" :> "absent"

Selecting == INSTANCE BrainSelection WITH
    Process <- Pair, Dir <- Dirs, Place <- Places,
    Name <- Names, Start <- FirstPlaces,
    Absent <- "absent", Locked <- "locked", Nowhere <- "nowhere", Nobody <- "nobody", MaxChanges <- 1,
    at <- work1, brain <- work2, registry <- work3, holder <- work4, call <- work5, told <- work6,
    changes <- work7

\* Two brains with one inode number, on three device numbers.
Brains == {"b", "c"}
BrainPaths == {"/b", "/c", "/d"}
Homes == "b" :> [device |-> 1, path |-> "/b"] @@ "c" :> [device |-> 2, path |-> "/c"]

Renumbering == INSTANCE QueueFolders WITH
    Process <- Pair, Brain <- Brains, Path <- BrainPaths, Device <- 1..3,
    Nobody <- "nobody", MaxBoots <- 1, MaxMoves <- 1, MaxKills <- 1, MaxEvents <- 1,
    Home <- Homes,
    place <- work1, runtime <- work2, renumber <- work3, call <- work4, shared <- work5, bounds <- work6

\* Two brains: a note of one whose entity and alias others may hold too.
Leads(relation, target) == [relation |-> relation, target |-> target, section |-> FALSE, part |-> FALSE]
Cites(target) == [Leads("about", target) EXCEPT !.section = TRUE, !.part = TRUE]
Stating(entity, aliases, links) == [entity |-> entity, aliases |-> aliases, links |-> links]
NoFile == Stating(<<"", "">>, {<<"", "">>}, {})
Plain == Stating(<<"", "">>, {}, {})
Main == Stating(<<"b", "e">>, {<<"", "x">>}, {Leads("links", <<"", "r">>), Leads("about", <<"b", "n">>)})
Alias == Stating(<<"", "">>, {<<"", "x">>}, {Leads("undeclared", <<"", "r">>)})
Citing == Stating(<<"", "">>, {},
    {Cites(<<"b", "n">>), Leads("undeclared", <<"b", "n">>), Leads("about", <<"", "x">>)})
Misplaced == Stating(<<"", "">>, {<<"b", "n">>}, {Leads("about", <<"b", "e">>)})
Posing == Stating(<<"", "">>, {<<"", "r">>, <<"b", "e">>}, {Leads("about", <<"", "x">>)})
Beside ==
    {<<NoFile, Plain, NoFile, Plain>>, <<Citing, Plain, Citing, Plain>>, <<Posing, Alias, Plain, Plain>>,
     <<NoFile, Alias, Alias, Plain>>, <<Posing, NoFile, NoFile, NoFile>>}

TwoStores == <<"b", "c">>
TwoNotes == {"n", "m"}
OneRecord == {"r"}

Linking == INSTANCE Links WITH
    Stores <- TwoStores, Note <- TwoNotes, Record <- OneRecord, Subject <- {"e"}, External <- {"x"},
    Bare <- "", Declared <- {"about"}, Untyped <- "links", Nothing <- NoFile, MaxEdits <- 1, MaxFailures <- 1,
    Contents <- {Plain, Main, Alias, Citing, Misplaced, Posing},
    Starts <- {"b" :> ("n" :> Main @@ "m" :> beside[1] @@ "r" :> beside[2])
               @@ "c" :> ("n" :> beside[3] @@ "m" :> NoFile @@ "r" :> beside[4]) : beside \in Beside},
    files <- work1, read <- work2, held <- work3, bounds <- work4

\* A source and an assistant that runs every instant.
SomeConfigured ==
    {"mail" :> states[1] @@ "assistant" :> states[2] : states \in
        {<<"active", "active">>, <<"active", "disabled">>, <<"disabled", "manual">>, <<"manual", "absent">>}}

Mail == {"mail"}

Diagnosing == INSTANCE Health WITH
    Program <- Mail, Sensor <- Mail, Refresh <- 1, SilentAfter <- 2,
    Every <- 1, At <- 0 - 1, Days <- 0..6, Day <- 2, Configured <- SomeConfigured,
    MaxTime <- 3, MaxChanges <- 1,
    clock <- work1, settings <- work2, history <- work3, changed <- work4, queue <- work5,
    cache <- work6, report <- work7, held <- work8

\* The same report for an assistant that runs every day at its second instant.
Late == INSTANCE Health WITH
    Program <- TheSensor, Sensor <- TheSensor, Refresh <- 1, SilentAfter <- 2,
    Every <- 2, At <- 1, Days <- 0..6, Day <- 2,
    Configured <- {"sensor" :> "active" @@ "assistant" :> "active"},
    MaxTime <- 8, MaxChanges <- 0,
    clock <- work1, settings <- work2, history <- work3, changed <- work4, queue <- work5,
    cache <- work6, report <- work7, held <- work8

\* Four days, two of them of other lengths than their neighbours.
DayStarts == 0 :> 0 @@ 1 :> 4 @@ 2 :> 7 @@ 3 :> 12 @@ 4 :> 16
NoteOf(date, place, tags) == [kind |-> "note", date |-> date, place |-> place, tags |-> tags]
RecordOf(time, observed, updated, place) ==
    [kind |-> "record", time |-> time, observed |-> observed, updated |-> updated, place |-> place]

NoteAndRecord == {"note", "record"}
Months == 0 :> 0 @@ 1 :> 1 @@ 2 :> 1 @@ 3 :> 1

Browsing == INSTANCE Timeline WITH
    Item <- NoteAndRecord, LastDay <- 3, Midnight <- DayStarts, Span <- 2, Hour <- 4,
    Month <- Months, Source <- {"mail", "news"}, Low <- {"news"},
    Folder <- {"projects", "concepts"}, Tag <- {"t"}, MaxChanges <- 1,
    Contents <- {
        NoteOf(0 - 1, "projects", {"t"}), NoteOf(1, "projects", {}), NoteOf(2, "concepts", {"t"}),
        RecordOf(3, 5, 0 - 1, "mail"), RecordOf(0 - 1, 7, 0 - 1, "mail"), RecordOf(0 - 1, 11, 8, "mail"),
        RecordOf(7, 11, 12, "news"), RecordOf(0 - 1, 12, 0 - 1, "news")},
    now <- work1, items <- work2, walk <- work3, seen <- work4, counted <- work5, changes <- work6

\* What two brains hold of a name: a file, an alias, a link, an unreadable file.
Holding(file, owners, bad, linking) == [file |-> file, owners |-> owners, bad |-> bad, links |-> linking]

HomeAndWork == <<"home", "work">>
Questions == {"note", "name", "source", "export"}

Answering == INSTANCE Answers WITH
    Stores <- HomeAndWork, Kind <- Questions,
    Starts <- {"home" :> of @@ "work" :> Holding("none", 1, TRUE, FALSE) :
                  of \in {Holding("whole", 0, FALSE, TRUE), Holding("none", 1, FALSE, FALSE)}},
    MaxChanges <- 1, MaxFailures <- 1,
    content <- work1, cache <- work2, loads <- work3, read <- work4, held <- work5, budget <- work6

\* A note of one whole passage and two sections, and three records of one URL;
\* beside them another brain's note and record.
Passage(item, fragment, url, source, closed, time, score, words, context, holds) ==
    [item |-> item, fragment |-> fragment, url |-> url, source |-> source, closed |-> closed, time |-> time,
     score |-> score, words |-> words, context |-> context, holds |-> holds, inside |-> item # 2]

Gathered(closed, score, time) ==
    {Passage(1, 0, "", "notes", closed, 1, 2, {"x"}, {}, "link"),
     Passage(1, 1, "", "notes", closed, 1, score, {"y"}, {"x"}, "link"),
     Passage(1, 2, "", "notes", closed, 1, 1, {}, {"x"}, "link"),
     Passage(2, 0, "u", "mail", FALSE, 1, score, {"x", "y"}, {}, "name"),
     Passage(3, 0, "u", "drive", FALSE, time, 1, {"x"}, {}, "none"),
     Passage(4, 0, "u", "mail", FALSE, 2, 1, {"y"}, {}, "none")}

Elsewhere ==
    {{Passage(5, 0, "", "notes", FALSE, 1, 1, {"x"}, {}, "none")},
     {Passage(5, 0, "", "notes", TRUE, 2, 1, {"x"}, {}, "link"), Passage(6, 0, "", "mail", FALSE, 1, 1, {"y"}, {}, "none")}}

Found ==
    {<<{p \in Gathered(closed, score, 2) : p.item # without}, other>> :
        closed \in BOOLEAN, score \in 1..2, without \in {0, 2, 4}, other \in Elsewhere}
Drive == {"drive"}

Ranked == INSTANCE Ranking WITH
    Brain <- 1..2, Evidence <- Found,
    Asks <- {{"x"}, {"x", "y"}, {"z"}}, Low <- Drive, Attention <- Drive, Notes <- "notes", NoUrl <- "",
    ALSO <- 1, SECTIONS <- 1, Limit <- 1,
    evidence <- work1, query <- work2, offset <- work3, shown <- work4, reply <- work5

\* Two notes, one linked with two records; the home page has room for one.
MailAndFeed == {"mail", "feed"}
LinkedSources == <<{"mail"}, {"mail", "feed"}>>

Reminding == INSTANCE Reminders WITH
    Note <- 1..2, Entry <- 1..2,
    Starts <- {<<<<"project", 0 - 1>>, <<type, stale>>>> : type \in {"project", "note"}, stale \in {0 - 1, 1}},
    Records <- MailAndFeed, Quiet <- {"feed"},
    Linked <- LinkedSources, REVIEW_DAYS <- 1, DAY <- 1, WEEK <- 2,
    Room <- 1, Skew <- 1, MaxTime <- 2, MaxEdits <- 1,
    clock <- work1, notes <- work2, records <- work3, edited <- work4, news <- work5, edits <- work6

\* Three programs, the last an assistant; the first has not run yet, and the
\* second's last success may lie in the future.
Last(success) == [enabled |-> TRUE, scheduled |-> TRUE, run |-> success, success |-> success, failed |-> FALSE]

Watching == INSTANCE Dashboard WITH
    Program <- 1..3, Assistant <- {3}, Refresh <- 2, BACKOFF <- 1,
    Starts <- {<<Last(0 - 1), Last(of), Last(0)>> : of \in {0, 2}},
    Room <- 0..3, MaxTime <- 2, MaxChanges <- 1,
    clock <- work1, brain <- work2, readable <- work3, rows <- work4, cursor <- work5,
    view <- work6, chosen <- work7, current <- work8, changes <- work9

\* Another field is made of what a sensor prints, with another way to map it.
Says(default, mapping, one, accepts) ==
    [default |-> default, mapping |-> mapping, one |-> one, accepts |-> accepts]

MappedFields == {"author", "creator"}
MappedPaths == {"from"}
SomeDocuments == {"from" :> value : value \in {"ann", "x", "absent"}}

Mapping == INSTANCE Reprojection WITH
    Record <- Pair, Field <- MappedFields, Path <- MappedPaths,
    Configs <- {"author" :> Says("from", "none", FALSE, {"ann", "x"}) @@ "creator" :> Says("none", "none", TRUE, {}),
                "author" :> Says("from", "literal", TRUE, {"literal"}) @@ "creator" :> Says("none", "from", TRUE, {"ann"})},
    Documents <- SomeDocuments,
    NoPath <- "none", Literal <- "literal", Absent <- "absent", Tangled <- "tangled",
    REPROJECT <- 1, MaxEdits <- 2, MaxFaults <- 1,
    config <- work1, stored <- work2, collection <- work3, reprojection <- work4,
    sensorLock <- work5, settled <- work6, edits <- work7, faults <- work8

\* Two pages of a history of up to four items, of which one is a pull request.
Growing == {of \in [1..4 -> (0 - 1)..4] : \A i \in 1..3 : of[i] <= of[i + 1]}

Fetching == INSTANCE Listing WITH
    Item <- 1..4, Pulls <- {2}, Kinds <- {"commits", "issues"}, Histories <- Growing,
    Since <- 1, Until <- 4, PerPage <- 2, MAX_PAGES <- 3, Now <- 4, MaxTime <- 5, MaxChanges <- 1,
    clock <- work1, kind <- work2, history <- work3, run <- work4, steady <- work5,
    moved <- work6, raced <- work7, changes <- work8

ASSUME InstancesAssumption ==
    /\ Sensing!CollectionAssumption /\ Gapping!CollectionAssumption /\ Acting!CollectionAssumption
    /\ Periodic!SchedulesAssumption /\ Daily!SchedulesAssumption
    /\ Replacing!GuardedWriteAssumption
    /\ Queueing!QueueSpaceAssumption
    /\ Polling!ReadPollAssumption
    /\ Counting!UsageLogAssumption
    /\ Installing!InstallationAssumption
    /\ Reading!PagingAssumption
    /\ Scanning!FolderScanAssumption
    /\ Retaining!RetentionAssumption
    /\ Reporting!ReportsAssumption
    /\ Interrupting!WatchAssumption
    /\ Committing!FaultAssumption /\ Committing!AbsentAssumption
    /\ Releasing!ReleasesAssumption
    /\ Selecting!BrainSelectionAssumption
    /\ Renumbering!QueueFoldersAssumption
    /\ Linking!LinksAssumption
    /\ Diagnosing!HealthAssumption /\ Late!HealthAssumption
    /\ Browsing!TimelineAssumption
    /\ Answering!AnswersAssumption
    /\ Ranked!RankingAssumption
    /\ Reminding!RemindersAssumption
    /\ Watching!DashboardAssumption
    /\ Mapping!ReprojectionAssumption
    /\ Fetching!ListingAssumption

-----------------------------------------------------------------------------

\* The components, by what they do.
Collecting == {"sensing", "acting", "schedules", "daily", "retention", "reprojection", "listing", "scan"}
Changing == {"guarded write", "installation", "reports", "records", "releases", "usage", "counts"}
Queued == {"queue", "poll", "queue folders"}
Asked == {"paging", "brains", "links", "health", "timeline", "answers", "ranking", "reminders", "dashboard"}

InitWork ==
    /\ \/ component = "sensing" /\ Sensing!Init /\ work9 = 0
       \/ component = "acting" /\ Acting!Init /\ work9 = 0
       \/ component = "schedules" /\ Periodic!Init /\ work8 = 0 /\ work9 = 0
       \/ component = "daily" /\ Daily!Init /\ work8 = 0 /\ work9 = 0
       \/ component = "guarded write" /\ Replacing!Init
       \/ component = "queue" /\ Queueing!Init /\ work6 = 0 /\ work7 = 0 /\ work8 = 0 /\ work9 = 0
       \/ component = "poll" /\ Polling!Init /\ work7 = 0 /\ work8 = 0 /\ work9 = 0
       \/ component = "usage" /\ Counting!Init /\ work6 = 0 /\ work7 = 0 /\ work8 = 0 /\ work9 = 0
       \/ component = "installation" /\ Installing!Init
       \/ component = "paging" /\ Reading!Init /\ work7 = 0 /\ work8 = 0 /\ work9 = 0
       \/ component = "scan" /\ Scanning!Init /\ work6 = 0 /\ work7 = 0 /\ work8 = 0 /\ work9 = 0
       \/ component = "retention" /\ Retaining!Init /\ work8 = 0 /\ work9 = 0
       \/ component = "reports" /\ Reporting!Init /\ work9 = 0
       \/ component = "counts" /\ Interrupting!Init /\ work9 = 0
       \/ component = "records" /\ Committing!Init
       \/ component = "releases" /\ Releasing!Init
       \/ component = "brains" /\ Selecting!Init /\ work8 = 0 /\ work9 = 0
       \/ component = "queue folders" /\ Renumbering!Init /\ work7 = 0 /\ work8 = 0 /\ work9 = 0
       \/ component = "links" /\ Linking!Init /\ work5 = 0 /\ work6 = 0 /\ work7 = 0 /\ work8 = 0 /\ work9 = 0
       \/ component = "health" /\ Diagnosing!Init /\ work9 = 0
       \/ component = "timeline" /\ Browsing!Init /\ work7 = 0 /\ work8 = 0 /\ work9 = 0
       \/ component = "answers" /\ Answering!Init /\ work7 = 0 /\ work8 = 0 /\ work9 = 0
       \/ component = "ranking" /\ Ranked!Init /\ work6 = 0 /\ work7 = 0 /\ work8 = 0 /\ work9 = 0
       \/ component = "reminders" /\ Reminding!Init /\ work7 = 0 /\ work8 = 0 /\ work9 = 0
       \/ component = "dashboard" /\ Watching!Init
       \/ component = "reprojection" /\ Mapping!Init /\ work9 = 0
       \/ component = "listing" /\ Fetching!Init /\ work9 = 0
       \/ /\ component = "deliveries"
          /\ work1 = 0 /\ work2 = 0 /\ work3 = 0 /\ work4 = 0 /\ work5 = 0
          /\ work6 = 0 /\ work7 = 0 /\ work8 = 0 /\ work9 = 0
    /\ component \notin {"records", "releases"} => work10 = FALSE

NextCollecting ==
    \/ component = "sensing" /\ Sensing!Next /\ UNCHANGED work9
    \/ component = "acting" /\ Acting!Next /\ UNCHANGED work9
    \/ component = "schedules" /\ Periodic!Next /\ UNCHANGED <<work8, work9>>
    \/ component = "daily" /\ Daily!Next /\ UNCHANGED <<work8, work9>>
    \/ component = "retention" /\ Retaining!Next /\ UNCHANGED <<work8, work9>>
    \/ component = "reprojection" /\ Mapping!Next /\ UNCHANGED work9
    \/ component = "listing" /\ Fetching!Next /\ UNCHANGED work9
    \/ component = "scan" /\ Scanning!Next /\ UNCHANGED <<work6, work7, work8, work9>>

NextChanging ==
    \/ component = "guarded write" /\ Replacing!Next
    \/ component = "installation" /\ Installing!Next
    \/ component = "reports" /\ Reporting!Next /\ UNCHANGED work9
    \/ component = "records" /\ Committing!Next
    \/ component = "releases" /\ Releasing!Next
    \/ component = "usage" /\ Counting!Next /\ UNCHANGED <<work6, work7, work8, work9>>
    \/ component = "counts" /\ Interrupting!Next /\ UNCHANGED work9

NextQueued ==
    \/ component = "queue" /\ Queueing!Next /\ UNCHANGED <<work6, work7, work8, work9>>
    \/ component = "poll" /\ Polling!Next /\ UNCHANGED <<work7, work8, work9>>
    \/ component = "queue folders" /\ Renumbering!Next /\ UNCHANGED <<work7, work8, work9>>

NextAsked ==
    \/ component = "paging" /\ Reading!Next /\ UNCHANGED <<work7, work8, work9>>
    \/ component = "brains" /\ Selecting!Next /\ UNCHANGED <<work8, work9>>
    \/ component = "links" /\ Linking!Next /\ UNCHANGED <<work5, work6, work7, work8, work9>>
    \/ component = "health" /\ Diagnosing!Next /\ UNCHANGED work9
    \/ component = "timeline" /\ Browsing!Next /\ UNCHANGED <<work7, work8, work9>>
    \/ component = "answers" /\ Answering!Next /\ UNCHANGED <<work7, work8, work9>>
    \/ component = "ranking" /\ Ranked!Next /\ UNCHANGED <<work6, work7, work8, work9>>
    \/ component = "reminders" /\ Reminding!Next /\ UNCHANGED <<work7, work8, work9>>
    \/ component = "dashboard" /\ Watching!Next

NextWork ==
    /\ component \notin {"records", "releases"} => UNCHANGED work10
    /\ \/ component \in Collecting /\ NextCollecting
       \/ component \in Changing /\ NextChanging
       \/ component \in Queued /\ NextQueued
       \/ component \in Asked /\ NextAsked

InitWorkspace == Init /\ InitWork

NextWorkspace ==
    /\ UNCHANGED component
    /\ \/ component = "deliveries" /\ Next /\ UNCHANGED work
       \/ NextWork /\ UNCHANGED vars

SpecWorkspace == InitWorkspace /\ [][NextWorkspace]_allVars

\* One component alone.
SpecRetention == component = "retention" /\ SpecWorkspace
SpecGaps ==
    /\ component = "gaps" /\ Init /\ Gapping!Init /\ work9 = 0 /\ work10 = FALSE
    /\ [][Gapping!Next /\ UNCHANGED <<component, work9, work10, vars>>]_allVars
SpecLate ==
    /\ component = "late" /\ Init /\ Late!Init /\ work9 = 0 /\ work10 = FALSE
    /\ [][Late!Next /\ UNCHANGED <<component, work9, work10, vars>>]_allVars

-----------------------------------------------------------------------------
(* The properties of the components, each while its own is at work; SendBudget
   and CommitBeforeSend are those of Deliveries.                       *)

TypesCollecting ==
    CASE component = "sensing" -> Sensing!TypeOK
      [] component = "acting" -> Acting!TypeOK
      [] component = "schedules" -> Periodic!TypeOK
      [] component = "daily" -> Daily!TypeOK
      [] component = "retention" -> Retaining!TypeOK
      [] component = "reprojection" -> Mapping!TypeOK
      [] component = "listing" -> Fetching!TypeOK
      [] component = "scan" -> Scanning!TypeOK

TypesChanging ==
    CASE component = "guarded write" -> Replacing!TypeOK
      [] component = "installation" -> Installing!TypeOK
      [] component = "reports" -> Reporting!TypeOK
      [] component = "records" -> Committing!TypeOK
      [] component = "releases" -> Releasing!TypeOK
      [] component = "usage" -> Counting!TypeOK
      [] component = "counts" -> Interrupting!TypeOK

TypesQueued ==
    CASE component = "queue" -> Queueing!TypeOK
      [] component = "poll" -> Polling!TypeOK
      [] component = "queue folders" -> Renumbering!TypeOK

TypesAsked ==
    CASE component = "paging" -> Reading!TypeOK
      [] component = "brains" -> Selecting!TypeOK
      [] component = "links" -> Linking!TypeOK
      [] component = "health" -> Diagnosing!TypeOK
      [] component = "timeline" -> Browsing!TypeOK
      [] component = "answers" -> Answering!TypeOK
      [] component = "ranking" -> Ranked!TypeOK
      [] component = "reminders" -> Reminding!TypeOK
      [] component = "dashboard" -> Watching!TypeOK

\* Every component's variables have their types.
TypesHold ==
    CASE component = "deliveries" -> TypeOK
      [] component \in Collecting -> TypesCollecting
      [] component \in Changing -> TypesChanging
      [] component \in Queued -> TypesQueued
      [] component \in Asked -> TypesAsked

\* Evidence is stored before the history of collect.py claims it.
HistoryIsTrue ==
    /\ component = "sensing" => Sensing!HistoryIsTrue
    /\ component = "acting" => Acting!HistoryIsTrue

\* A routine has at most one action per local day.
OneActionPerDay == component = "acting" => Acting!OneActionPerDay

\* What a cycle runs was not begun by another cycle since it listed it.
DueListIsFresh ==
    /\ component = "sensing" => Sensing!DueListIsFresh
    /\ component = "acting" => Acting!DueListIsFresh

\* A sensor's resume point never jumps over a stretch nothing covered.
NothingSkipped == [][component = "sensing" => Sensing!SkipsNothing]_allVars

\* A settled delivery changes no more except by a retry; a record is kept,
\* replaced, removed or never stored again as its source decided; and queued
\* work is resolved for the brain that admitted it.
WhatIsDecidedStays ==
    [][/\ component = "deliveries" => KeepsSettled
       /\ component = "retention" => Retaining!KeepsDecisions
       /\ component = "queue folders" => Renumbering!KeepsToItsBrain]_allVars

\* No kill and no failing operation costs an open manifest the originals of its
\* records, and a caller hears what happened to them; and a finished reprojection
\* leaves every record with the fields that the mappings it read give it.
RecordsAreKept ==
    /\ component = "records" => Committing!KillsKeepOriginals /\ Committing!OutcomeTold
    /\ component = "reprojection" => Mapping!FieldsAreRight

\* A wake starts at most one run, and the newest request is never lost.
RequestsAreKept ==
    /\ component = "schedules" => Periodic!RequestsAreKept
    /\ component = "daily" => Daily!RequestsAreKept

\* What a guarded write reported as written stays, and what bf register
\* reported as registered.
WrittenStays ==
    /\ component = "guarded write" => Replacing!WrittenStays
    /\ component = "brains" => Selecting!RegistrationsStay

\* What is stored and what admitted work may still store stay within the limit.
RoomIsKept == component = "queue" => Queueing!RoomIsKept

\* What need not be read again was read: the checkpoint of a read input never
\* passes a message it can still read, the pages of a history hold every item of
\* their window, and a folder a freshness check takes from the cache holds what
\* the cache says.
NothingMissed ==
    /\ component = "poll" => Polling!NothingMissed
    /\ component = "listing" => Fetching!PagesMakeTheWindow
    /\ component = "scan" => Scanning!NothingOverlooked

\* An event counts once at most, on its day, and is not lost; and every success
\* of a program is one count of the dashboard.
CountsAreTrue ==
    /\ component = "usage" => Counting!CountsAreTrue
    /\ component = "counts" => Interrupting!EachSuccessCountsOnce

\* An interrupted watch leaves no update running.
UpdateStops == component = "counts" => Interrupting!StopsItsUpdate

\* No unforced installation replaces or removes a file that was a person's when
\* it looked, no routine an action a person changed, unless beside its run's last
\* steps, and no release another session's change.
EditsSurvive ==
    /\ component = "installation" => Installing!EditsSurvive
    /\ component = "reports" => Reporting!WorkIsKept
    /\ component = "releases" => Releasing!ReleasesAreSafe

\* A reader who follows the offsets reads everything once and in order; a name
\* selects the one brain its owner gave it to; and the names a read expands to
\* are those of one owner, with its backlinks. An answer of several brains names
\* every holder it found and every brain it missed; status names what needs
\* attention, and the dashboard keeps the chosen program under the cursor; the
\* home page reminds of what is due; a search shows each match once, best first;
\* and the pages of a time line hold each item once, where its time puts it.
AnswersAreRight == component \in Asked =>
    /\ component = "paging" => Reading!PagesAreTheWhole
    /\ component = "brains" => Selecting!NamesAreSafe
    /\ component = "links" => Linking!LinksAreRight
    /\ component = "answers" => Answering!AnswersAreTrue
    /\ component = "health" => Diagnosing!TroubleIsTold
    /\ component = "dashboard" => Watching!ViewIsRight
    /\ component = "reminders" => Reminding!RemindersAreRight
    /\ component = "ranking" => Ranked!SearchIsWhole
    /\ component = "timeline" => Browsing!PagesAreRight

-----------------------------------------------------------------------------
(* What docs and comments say and the code does not do, of one component.  *)

\* A run that leaves a gap inside the catch-up horizon is not contiguous, so the
\* next update still fills the gap (docstring of _coverage).
GapsAreFilled == [][component = "gaps" => Gapping!FillsGaps]_allVars

\* A failed collection writes nothing (docstring at collect.py:413).
FailuresWriteNothing == component = "retention" => Retaining!FailuresWriteNothing

\* bf status names an enabled assistant that last succeeded more than twice its
\* period ago (docs/schedule.md, overdue).
LatenessIsTold == component = "late" => Late!LatenessIsTold

=============================================================================
