# GraceDB server: TLA+ models, checks and proofs

GraceDB keeps the candidate events of gravitational-wave searches, groups them
into *superevents*, lets people and pipelines annotate them (log messages with
files and tags, labels, signoffs, VOEvents), and tells people and machines
about them.  It is a Django application.  Several web processes serve requests
at once; they share a PostgreSQL database in autocommit mode
(`src/config/settings/container/base.py:312-327`; there is no
`ATOMIC_REQUESTS`, no transaction and no lock in the code modelled here) and a
file system.  Every SQL statement commits on its own, so a request is a
sequence of steps with those of other requests in between.  That is what these
models are about: each handler is a sequence of actions, one for each statement
or system call that can be told apart, and the properties say what holds
whatever the order of the steps.

All paths below are relative to `src/gracedb/` unless they start with `src/`.

## 1. Inventory

| Component | Where | State | Operations | What is hard |
|---|---|---|---|---|
| Per-group numbering | `core/models.py` (AutoIncrementModel) | the number column of logs, VOEvents, EM observations, superevents, catalog versions | `save`: read the maximum, insert, retry on conflict | concurrent saves, retry limit, removed rows |
| Superevent identifiers | `superevents/models.py`, `superevents/utils.py`, `api/v1/superevents/views.py` | date number, letter suffix, GW number and ID, `is_gw` | create (two saves), confirm as GW, PATCH of `gw_id`, lookup | stale `is_gw`, whole-row saves, crash between two saves, IDs that meet |
| Superevent exposure | `superevents/utils.py:925-980`, `core/permissions/utils.py` | `is_exposed`, three group permission rows | `modify` (expose, hide); PATCH saves the column too | row-by-row changes, whole-row saves, refused saves |
| Events of a superevent | `superevents/utils.py`, `api/v1/superevents/serializers.py` | `Event.superevent`, `Event.pipeline_preferred`, `Superevent.preferred_event` | create, PATCH, add, remove, make and unmake pipeline preferred | validation and write apart; three columns that must agree |
| Log tags and permissions | `superevents/utils.py:242-392`, `core/permissions/logs.py` | tags and view permissions of each log | create a log, add and remove a tag | tag and permission are two statements; `public` and `lvem` depend on each other |
| Signoffs | `superevents/utils.py:734-922`, `events/models.py` (SignoffBase) | the signoff, and the labels for its request and its status | request, create, change, delete | four statements that must agree; labels belong to their creator |
| Labels of events and superevents | `events/view_logic.py`, `superevents/utils.py:485-544` | label rows | add, remove | they set off alerts; a submission asks for some |
| Versioned files | `core/vfile.py`, `core/http.py`, `SupereventFileViewSet` | the versions in the data directory, the link to the latest, log messages | upload, download | races on names, a link that is removed and made, crash in between |
| Event submission | `events/view_logic.py`, `events/translator.py`, `events/models.py`, `api/v1/events/views.py` | event row, two sets of permissions and a cached one, directory, files, logs, labels | submit, replace, change permissions | undo when a step fails; whole-row saves of instances loaded earlier |
| VOEvents | `superevents/utils.py:677-731`, `api/v1/events/views.py:1651-1825`, `annotations/` | row, file, log message, a tag that all share | create; remove the tag | row, file and second save; each cites the others; the tag is looked up late |
| Alerts | `alerts/` | notifications; nothing of its own while it runs | find the recipients of an alert, send | reads some things when it was issued and some when it runs |
| Background queue | `superevents/utils.py:45-57` (django_q) | queued log messages and alerts | enqueue, run | late, out of order, at most once |
| Contacts | `alerts/models.py`, `alerts/views.py`, `alerts/forms.py` | contact, code, expiration, the notifications that name it | create, request a code, verify, edit, delete | replaced codes, whole-row saves |
| Accounts | `ligoauth/`, `api/backends.py` | users, groups, certificates | synchronise from three directories; log in through the web | the two at once, entries that cannot be written |
| Control rooms | `ligoauth/middleware.py` | group membership, as long as a request runs | enter, leave | requests of one user share the row |
| Throttling | `api/throttling.py` | request history in a database cache | count a request | read, change, write without a lock |
| Data migrations | `events/migrations`, `ligoauth/migrations`, `migrations/` | accounts, groups, permissions, pipelines, searches, labels, tags | apply, roll back | 186 of them, in four applications, in an order that Django finds |
| EM observations | `superevents/utils.py:642-674` | observation, footprints | create | several rows of its own |
| GWTC catalogs | `gwtc/models.py`, `api/v1/gwtc/` | catalog versions, their superevents and events | create | many rows by one request |
| Permission checks | `events/permission_utils.py`, `api/v1/**/permissions.py` | none | decide a request | |
| Identifier letters | `core/utils.py:34-78` | none | number to letters and back | 26/27, 702/703 |
| Search | `search/` | none | query string to database query | |
| Web views, templates, middleware, formats, settings | the rest | none that is not above | | |

How they interact: the API views load an instance, a serializer validates the
request against what it reads, and a function of `superevents/utils.py` or
`events/view_logic.py` runs the statements.  That function then makes log
messages (numbered by *Per-group numbering*, tagged by *Log tags*, with files by
*Versioned files*) and issues alerts, directly or through the queue.  *Accounts*
and *Control rooms* decide which groups a user is in, and the permissions of
*Exposure*, *Log tags* and *Event submission* which groups see what.  Components
share database rows, never memory.

What makes each correct:

- **Numbering**: no gap and no duplicate in a group, order of numbers is order
  of time, a save fails only in a burst.
- **Identifiers**: an ID once given out keeps finding its superevent, and no
  ID finds two; a half-made superevent does not block its date.
- **Exposure**: the flag says who can see the superevent; those who ask for the
  same thing get it.
- **Events**: the preferred event and the listed ones are in the superevent, an
  event is in one superevent at a time and of its category, one listed event
  per pipeline.
- **Log tags**: a log is shown to the groups its tags say, and to LV-EM
  observers whenever the public sees it.
- **Signoffs**: labels say what the signoff says.
- **Files**: versions 0, 1, 2, ... without gaps; a logged version is complete;
  the link is there and points to the latest version.
- **Event submission**: a refused one leaves nothing; lists show an event to
  those who can open it; no save writes back what another request has changed.
- **VOEvents**: each cites those that have gone out before; one that has gone
  out has its file and log message; one that is asked for goes out.
- **Alerts**: whoever asked for it is told each time a superevent comes to
  match, and once.
- **Contacts**: alerts go to contacts whose owner has proved to be theirs.
- **Accounts**: they follow the directories; nobody is let in or is staff who
  should not be.
- **Control rooms**: a user is in a room's group while asking from it, and not
  afterwards.
- **Throttling**: no more than the limit goes through; nothing is refused before.
- **Migrations**: they can all be applied, and rolled back and applied again
  without loss; a rollback takes back the memberships and permissions its migration gave, and no
  others.

## 2. Modules

| Module | Models | State in the code |
|---|---|---|
| `AutoIncrement` | `AutoIncrementModel.save`, statement by statement | `N`, `created` are the table; `value`, `tries` the locals of a call |
| `NumberSequence` | what numbering promises, of rows, of file versions and of superevents: one atomic step takes the next number | |
| `SupereventId` | creation, `confirm_as_gw`, PATCH of `gw_id`, lookup; one date and category | `row` is the table, `inst` the instance each request holds, `had` is history |
| `SupereventExposure` | `modify` and PATCH | `is_exposed`, `granted` (the permission rows), `inst`, `next` (where a loop is) |
| `SupereventEvents` | six kinds of request on events, preferred event and pipeline preferred list | three columns; `inst` what the request read when it was validated |
| `LogTags` | `create_log`, `add_tag_to_log`, `remove_tag_from_log` | `tags`, `perms`; `todo` the statements a request has still to run |
| `Signoff` | one kind of signoff and its three labels | `signoff`, `labelling` (with the creator), `inst` which loaded rows are still there |
| `MCSuperevent` | composes the last three but one: exposure, log tags and signoffs of a superevent | `part` says which one a behaviour is of |
| `VersionedFile` | `VersionedFile`, `create_versioned_file`, the log message after it, downloads | `writer`, `complete`, `link` are the directory; `version`, `attempts`, `last` the locals |
| `MCNumbering` | composes `AutoIncrement` and `VersionedFile` | `part` |
| `EventSubmission` | `_createEventFromForm` and its undo, `EventDetail.put`, the pages and resources that change permissions, addition to and removal from a superevent | `row`, `sub`, `base`, `dir`, `files`, `logs`, `labels` are what is kept; `inst`, `under` the instances a request holds, `todo` its steps |
| `VOEvents` | `create_voevent_for_superevent`, `VOEventList.post`, the citations of `construct_voevent_file`, the removal of a tag | `count`, `filled` the rows, `texts` the files, `logged`, `tagged`, `tag` the log messages; `jobs` the locals |
| `Recipients` | the getters of `alerts/recipients.py`: which notifications an alert sets off | none: operators |
| `Alerts` | requests that change a superevent, the queue, the tasks that send | `pref`, `labels` the superevent, `queue` the tasks with the instance each was given, `sent` what contacts got |
| `Contacts` | pages of one contact | `row`, `names` (the notifications that name it), `inst` |
| `Throttle` | `PostOrPutUserRateThrottle` and its database cache | `cached`, `expires`; `own` the list a worker has read |
| `ControlRoom` | `ControlRoomMiddleware` | `groups`; `found` what a request has looked up |
| `Accounts` | `update_user_accounts_from_ligo_ldap`, the Shibboleth backend and middleware | `user`, `linked`, `cert` the tables, `directory` what the directories say, `entry`... the locals of the command |
| `Database` | the tables migrations write, and what Django does with them: cascades, `get_or_create`, uniqueness | a set of rows |
| `EventsMigrations`, `LigoauthMigrations`, `GuardianMigrations`, `AuthMigrations` | one definition for each data migration, of the name of its file: `up` and `down` are lists of steps | |
| `Migrations` | `migrate`, forward and back, in the order of Django's plan | `tables`, `applied`; `top`, `straight` and `changes` (what each migration gave and took on the way) are history |
| `Services` | composes the components that do not run into each other: contacts, throttle, control rooms, submission, VOEvents, migrations | `part` says which one a behaviour is of |
| `*Proofs` | theorems, section 4 | |
| other `MC*` | values of constants and symmetry sets for TLC | |

Three modules implement `NumberSequence`, each by other means: `AutoIncrement` by the unique
constraint and retries (`taken <- {s : pc[s] = "done"}`), `VersionedFile` by opening files with
`O_EXCL` (`N` is one more than the version an upload has created, `taken` the uploads that have
one), `SupereventId` by an INSERT among updates that write whole rows (`N` is the column
`base_date_number`, `taken` the rows there are).  `SupereventId` and `VOEvents` take the number
query and the INSERT as one step, which `AutoIncrement` justifies as long as no
row is removed.  `SupereventExposure` takes from `SupereventEvents` that a stray
pipeline preferred event may come up at any time and has the next save refused.
`VOEvents` and `EventSubmission` take from `VersionedFile` that a written file has
a version of its own and is complete when it is logged.

Components whose requests share no row are composed as alternatives: a behaviour
of `Services` or `MCSuperevent` is one of one component, and the others keep
`Unused`; one of `MCNumbering` is one of rows or of files, and the other stays as it begins.  An interleaving of two of them would be the product of the two and show
nothing that each does not.

Conventions.  A request is a process (`Creators`, `Modifiers`, `Writers`, ...:
it runs once), or a worker takes one request after another.  `pc`, `at`, `step`, `todo`
or `jobs` is the next statement of a request.  A request that validation refuses
changes nothing and is left out, unless refusing is what a property is about.  A
variable that no code reads is named a *history* in its comment.  Operators
introduced by "A bug:" are not part of the specification: each is a plausible
mistake at the place of the definition that follows it, kept to show that some
property depends on that definition.

History variables keep the properties honest about the races the code does not
prevent.  `calm` becomes false as soon as a process dies, a save is refused, or
two requests overlap that get in each other's way; `disturbed` and `removed` do
so per log in `LogTags`; `plain` in `Alerts` when an event is offline or has a
FAR of zero; `cut` in `ControlRoom` as long as a request that was cut off has
left something; `excused` in `VOEvents` per VOEvent.  `Compatible` and `Apart`
say which overlaps are allowed for.  They are part of what the checks establish:
those overlaps are harmless, and section 5 lists what the others do.  `alone`
names a request no other overlapped with, for properties that say what a
request repairs.

Of rows that all migrations treat alike (the sixty accounts of an initial
migration, say) the model has one; columns no migration tells apart are left
out.  Two migrations that ask for the same name ask for the same row.

## 3. Runs

Twelve runs; `tlc -config X.cfg M` repeats one.  Seven pass and five end in a
counterexample, which section 5 explains.

| Run | Module | Bounds | Shows |
|---|---|---|---|
| `numbers` | `MCNumbering` | rows: three saves, two groups, one removal, one retry; files: three uploads, a download, two attempts each, crashes | refinement of `NumberSequence` by both, and so no gaps; order of time, failure only in a burst, every save ends; log messages, link |
| `ids` | `MCSupereventId` | three creations, a confirmation of each of two superevents, a PATCH, a crash | IDs find one superevent; GW numbers without gaps; a date is not blocked; refinement of `NumberSequence` |
| `id_confirmed_twice` | `MCSupereventId` | two confirmations of one superevent | counterexample 1 |
| `events` | `MCSupereventEvents` | two superevents, three events on two pipelines, one of them external, two workers, crashes | lists agree; events are not taken; a PATCH repairs |
| `access` | `MCSuperevent` | exposure: three modify requests of any mix, two PATCHes, one refused save; log tags: one log, three tags, two workers, crashes; signoffs: two users, two workers, crashes | the flag, the tags and the labels say who sees and what was signed; later requests repair |
| `log_tags_public` | `LogTags` | one log, one worker | counterexample 2 |
| `alerts` | `MCAlerts` | three events (one with a FAR of 20, one with 5 and a neutron star, one offline with 0), six notifications, two web workers, three requests, one fault | who is told, how often, and that it happens |
| `accounts` | `MCAccounts` | three directories of one entry, two changes, one login, one interruption | accounts come to follow the directories |
| `accounts_stop` | `MCAccounts` | two entries of one directory | counterexample 3 |
| `services` | `Services` | contacts: two pages, two codes, five requests; throttle: two requests in two ticks; rooms: two rooms, two requests at a time and three in all, one cut off; submission: one event, two uploads, three requests, one fault; VOEvents: three, two removals of the tag, one failure; migrations: all 186, three rollbacks | one property or more for each |
| `tag_deleted` | `VOEvents` | one VOEvent of an event and one of a superevent | counterexample 4 |
| `directories_remain` | `Services` (`ServicesUndo.cfg`) | one submission, one worker, one fault | counterexample 5 |

Why the bounds are enough.  The races of this code are between two requests that
have read the same rows, and a third that finds what they left; two workers that
take request after request, or three processes, show every one of them.  A crash
or a failure may come at any step; what matters is which, not how many.
Retry limits are small enough to be reached (one retry of a number and two attempts of
an upload, where the code has five of each), and the throttle's limit and duration are small
enough for a span to begin, fill and end.  The notifications of `alerts` are
one for each kind of condition, plus two that share a telephone number.  The migrations
are not bounded: the run holds all that write data, with three rollbacks, because a rollback that
loses something needs one that others depend on, and one that is redone in between.

`services` has the constraint `Undisturbed`: behaviours of a submission end once
requests on the event have overlapped, because its properties say nothing from
there on; whole-row saves then undo what others wrote (section 5).  Workers, pages
and requests are interchangeable in `services`, and workers, superevents and events in
`events`: these two have symmetry, and no liveness property.

Deadlock is checked in `events`, `accounts`, `accounts_stop` and `log_tags_public`.
Elsewhere the system may stop: processes that run once have ended (`numbers`,
`ids`, `access`), the requests of the bounds are used up (`alerts`, `services`,
`tag_deleted`, `directories_remain`), or there is a state without an acceptable request (a status label without its
signoff, in `access`; section 5).

Fairness.  A request that was let in goes on: its process is scheduled by the
operating system, no step waits for another request, and one that dies takes its
own `Crash` step.  That is weak fairness of each request's own steps (`numbers`,
`ids`, and the exposure and log tag requests of `access`).  In `alerts`
it is weak fairness of "some request or task takes its step": the workers of the queue go on
as long as it has tasks; which task is taken is left open.  In `accounts` it is weak
fairness of the command, which a cron job runs again and again, and of a login that has
begun.  No request, crash, failure or change of a directory is fair.  The liveness properties:
every save ends (`EverySaveEnds`), a date is not blocked (`DateStaysOpen`), requests that agree get
what they ask for (`EveryoneAgrees`), the public tag reaches LV-EM
(`PublicTagReachesLvem`), a match is reported or is none any more
(`MatchesAreReported`), accounts follow the directories
(`AccountsFollowDirectory`).

## 4. Proofs

`tlapm M.tla` checks a proof module; all theorems hold for every value of the
constants that the assumptions allow.  The assumptions are those of the module
(`ASSUME`), or the operator `Sane...` in the statement of the theorem
(`SaneContact`, `SaneRoom`, `SaneExposure`, ...): bounds are naturals, and model values
that stand for "nothing" are not among the things they stand beside.  Three assumptions say
more, and the sections below tell why: those of identifiers, of files (finitely many uploads) and of
accounts (a row for every name).

| Theorem | States |
|---|---|
| `NumberingProofs!TypeCorrect` | `[]TypeOK` |
| `NumberingProofs!Contiguous` | `[]NumbersContiguous` |
| `NumberingProofs!FollowTime` | `[]NumbersFollowTime` |
| `NumberingProofs!NoNeedlessFailure` | `[]FailureNeedsBurst` |
| `NumberingProofs!Implements` | `Spec => Sequence!Spec`, the refinement |
| `NumberingProofs!FileTypeCorrect` | `[]FileTypeOK` |
| `NumberingProofs!FileContiguous` | `[]VersionsContiguous` |
| `NumberingProofs!LogsAreTrue` | `[]LoggedAreComplete` |
| `NumberingProofs!NoLonelyFailure` | `[]FailureNeedsCrowd` |
| `NumberingProofs!LinkSurvives` | `[]LinkIsThere` |
| `NumberingProofs!NothingServedUnlogged` | `[]ServedAfterLog` |
| `NumberingProofs!LoneUploadRepairs` | `UploadRepairsLink` |
| `NumberingProofs!UploadsTakeVersions` | `FileSpec => FileSequence!Spec`, the refinement of files |
| `SupereventIdProofs!IdsName` | `[]IdsFindOne`, which has `TypeOK` as a conjunct |
| `SupereventIdProofs!GwNumbersHaveNoGap` | `[]GwNumbersContiguous` |
| `SupereventIdProofs!CreationsTakeNumbers` | `Spec => DateSequence!Spec`, the refinement of superevent numbers |
| `SupereventEventsProofs!EventListsAgree` | `[]MembersAgree`, which has `TypeOK` as a conjunct |
| `SupereventEventsProofs!EventsStayPut` | `EventsAreNotTaken` |
| `SupereventEventsProofs!PatchMakesWhole` | `PatchRepairs` |
| `AccessProofs!FlagAgrees` | `[]FlagIsTrue`, which has `TypeOK` of exposure as a conjunct |
| `AccessProofs!FlagIsLast` | `[]FlagComesLast` |
| `AccessProofs!LogsAreShownAsTagged` | `[]TagsTellWhoSees`, which has `TypeOK` of log tags as a conjunct |
| `AccessProofs!LabelsAgree` | `[]LabelsMatchSignoff` |
| `AccessProofs!PutPutsLabelsRight` | `PutRepairs` |
| `ServicesProofs!OnlyEarnedIsVerified` | `[]VerifiedIsEarned` |
| `ServicesProofs!InRoomOnlyWhileAsking` | `[]InRoomWhileAsking` |
| `ServicesProofs!VOEventsCiteTheirPast` | `[]AlertsCiteTheirPast`, which has `TypeOK` of VOEvents as a conjunct |
| `ServicesProofs!VOEventsHaveGoneOut` | `[]VOEventsGoOut` |
| `ServicesProofs!NoMoreThanTheRate` | `[]RateIsKept` |
| `ServicesProofs!FailureLeavesNothing` | `[]RefusedLeavesNothing`, which has `TypeOK` of submissions as a conjunct |
| `ServicesProofs!ListedIsOpened` | `[]ListsShowWhatOpens` |
| `ServicesProofs!SavesKeepWishes` | `[]NothingIsOverwritten` |
| `AlertsProofs!OneAlertEach` | `[]ReportedOnce`, which has `TypeOK` as a conjunct |
| `AlertsProofs!NobodyIsForgotten` | `[]NobodyIsMissed` |
| `AccountsProofs!AccountsStayInOrder` | `[]AccountsInOrder`, which has the types of rows, links and steps as conjuncts |

The theorems of `AccessProofs` and `ServicesProofs` are about the composed
specifications that the runs `access` and `services` check.  Each of these modules has, for
each of its components, the inductive invariant and the lemmas that `Init` and every action
keep it, about the component's instance (`Exposure!Next`, `VOEvents!Next`, ...), and then a
lemma that the invariant holds whenever the behaviour is of that component
(`ExposureAlways`, ...): a step of the composition is a step of the component, and `part`
never changes.  The invariant of `EventSubmission` is in a module of its own,
`EventSubmissionProofs`, and is about the component by itself; `ServicesProofs` takes its lemmas
over to the composition (the lemmas `SameSubmission...` say that the two instances of the module
are the same).  `NumberingProofs` is about two components that have no variable in common.

### Numbering

That the numbers have no gap is not inductive: an INSERT keeps it only if the value it
inserts was the next one.  `NumberInv` adds `NoGapBelowValue`: when a call holds a value,
every smaller number is in the table, and stays there (the maximum the call read was the
greatest number of a group without gaps, and rows are only added).  The unique constraint does
the rest: a call whose value was taken in the meantime does not insert.
`StampedAfterSmaller` is the same argument for the time stamps: a row with a smaller number
was in the table when the value was computed, hence stamped before the call reads the clock.

For `FailureNeedsBurst` the invariant is `BurstInv`: a call has never lost more tries than
calls of its group have succeeded, and strictly fewer when it holds a value that has been taken
since.  The value two queries give is free (`ComputedValueIsFree`), so between two lost tries
of one call another call has succeeded; successes are counted, not rows, since a row may be
removed.  `Implements` uses `NumberInv` as well: only the INSERT changes the abstract state,
and it takes the least free number because of `NoGapBelowValue`.  `NumbersContiguous` and,
for files, `VersionsContiguous` are theorems and not properties of a run: the refinements, which the run
`numbers` checks, imply them.

### Files

The assumptions are that the uploads are finitely many, that no process is both an upload
and a download, and that `None` is neither an upload nor a number.  `FileInv` has one conjunct
for each reason the code is right: `OneVersionEach` is `O_EXCL`; `NoGapBelow` says that an
upload goes up only past versions that are there, which keeps the versions contiguous;
`SeenBelow` that every version it has tried is above those it had seen, so that the
`MaxAttempts` versions it lost were all created since it began.  `TriedVersionIsThere` is a
pigeonhole argument: the other uploads are too few to have taken every version up to
`Cardinality(Writers) - 1`, so the bound of `Versions` cuts no behaviour off.  `LinkComing`
says that a missing link has somebody about to make it, and `AloneWorks` how far an upload
without overlap has come with the link; the action property follows from its last line.

`UploadsTakeVersions` shows every system call to be a step of `NumberSequence` or none.  Only the
`open` that succeeds takes a number: `OneVersionEach` makes it a number nobody has and the upload
one that has none yet, `NoGapBelow` makes it the least one.  That no other call, failure or crash
changes a number is the other half of the claim: a version, once created, stays the
upload's.

### Identifiers

`Sane` restricts requests, and each restriction is needed: section 5 tells what happens
without it.  A superevent is confirmed by one request (a second one replaces the `gw_id` the first
has given out: run `id_confirmed_twice`), and no user supplies a `gw_id` that is the
`superevent_id` of a superevent (nothing in the code compares the two columns).  A user may supply
a `gw_id` that another superevent has or gets.

`IdInv` follows the two saves of a creation (`CreationInv`) and what an update has loaded
(`UpdateInv`).  `Unique` is what the unique constraints of the table give; `UnpatchedInv` that a
superevent no PATCH has written has had no IDs but those its row shows, since nothing but its one
confirmation takes an ID away from it.  With the injectivity of `SID` and `GWID` that makes the
lookup find one row.

For the numbers, as for those of a group, having no gap is not inductive.  `Follows` says that a
request that holds a number holds 1 or one more than a number that is there; the rows that have
numbers are only added to, so this stays true while the request waits, and a save that the unique
constraint lets through extends an interval `1 .. n` by one at its end.  That the numbers stay
finitely many is counted over the confirmations that have looked for one (`Numbered`), so that the
bound on GW IDs in the model cuts nothing off.

`CreationsTakeNumbers` is about the numbers of the date, which every save writes: the INSERT with a
new one, and the later ones with that of the instance they hold.  `IdInv` says that an instance
has the number of its row, so a save that undoes a confirmation still leaves the number as it is, and
the only step of `NumberSequence` is the INSERT.

### Events of a superevent

`EventsInv` says what each request may rely on, step by step (`Work`), as long as nothing
has gone wrong (`calm`): the requests at work are about different superevents and different
events, and a superevent no request is about is `Settled`, that is, its preferred and its
listed events are in it.  `MembersAgree` alone is not inductive because it holds between
requests only: in the middle of one, the preferred event may be outside the superevent until the
next statement puts it in, and `Work` keeps track of who will do that.  The
instance a request has loaded equals the row while only requests on other superevents run,
which makes the whole-row save harmless.  `EventsStayPut` reads the same invariant at each step
that writes `Event.superevent`.  `AloneInv` does without `calm`: it speaks only of a PATCH that
no other request overlaps, and assumes nothing of the state it finds.

### Exposure

`ExposureInv` has `Halfway`: a modify request that is in its loop has changed the
permissions up to the one it is at, and others that run with it want the same.  `FlagWaits`
says that the flag is not ahead of the permissions.  `CalmInv` holds while nothing has been
refused and only such requests overlap, `AloneInv` for a request without overlap, and
`AgreeInv` for behaviours in which all modify requests want the same, whatever PATCHes
there are: what a PATCH has read of the flag is then never ahead of the permissions either.

### Log tags

`TagsInv` has, for each log, what its requests have still to do.  `OnlyAdds`, for logs nobody has
taken a tag from: a group sees the log only after the tag is there, and every request that has a
tag to add shows the log to the group later in its list of statements (`Adds`).  `Covered`: a tag
that is there without its permission has a request that is about to give it, so that between
requests tags and permissions are the same.  A removal that runs alone goes through one of a few
lists of statements (`Removals`), and `Takes` says by how much the tags are ahead of the
permissions in each.  The lemmas `Two`, `Three` and so on are about the lists that are put
together, one request after the other.

### Signoffs

`SignInv` follows each kind of request (`Requesting`, `Posting`, `Putting`,
`Deleting`) through its four statements.  Of several requests to make a signoff one makes the
row, and it alone goes on.  Several that change the status to the same one share the work: whoever
removes the old label does it before anyone adds the new one, because each looks for the
new one only after the old one is gone; this is why there never are both.  `AloneInv` does the
same for one change of the status without overlap, from any state.

### VOEvents

`VOInv` relates rows, texts, log messages and the locals of each request.  `PastIsThere` says that
what had gone out when a request began has a filled row; `WillCite` that a text that is
built cites all of those by their identifiers, whatever rows have come in between;
`InOrder` which of the steps have been done.  `TagInHand` says that a request that holds the
tag holds the row there is, or its VOEvent is excused: every removal of the tag excuses the
VOEvents that are being made with it.

### Event submission

A request is a list of steps that is put together from many pieces, and what is left of it can
be any rest of that list, or, after an error, another one.  `SubmissionInv` therefore says nothing
of places in a program, but of a list what its steps will do.  `Going` holds whatever overlaps
and fails: a log message comes only when the version it names is there, or after the steps that
make it (`LogsCome`); what deletes is the way back of a submission (`Undoes`); what inserts has
found nothing (`Blank`).  `Undone` follows a submission that failed, when nothing else does: each thing
the event still has belongs to a step that is going to take it away.  `Undisturbed` is about requests
that do not overlap and do not fail: a list that changes the rows of the underlying event
has a step after the last change that refreshes the column, and no later save writes an older value
(`Cached`); what it gives to the subclass it gives to the event as well (`Shown`); and an
instance that is saved has what was asked for (`Kept`).  The superevent that takes a new event as soon
as it is announced is the one overlap allowed for: `Turns` says that after the announcement a
submission saves nothing any more, which is why its order matters.

The proof has a lemma for what each kind of step does to each of these (`ShownStill`, `KeptStill`,
`LastStill`, ...), and one for each list a request can begin with; there the positions of the
steps are counted, since nothing can be proved by induction over lists.

### Alerts

`AlertInv` has `Shape`, what may be left of a request at each of its steps.  For `NobodyIsMissed`,
`MissInv` says of each notification without labels that is met, or was met by an event that an
update under way is going to be compared with: its contacts have been told, or an alert that sets
it off is queued or is the next thing a request does.  The comparison with the former event has to
be part of it: when the new event passes a threshold which the former one had passed as well, the
update sets nothing off, and the contact hears of it from the alert about the former event.  For `ReportedOnce`,
`CountInv` is an equation: alerts sent, plus those on the queue that will reach the contact, plus
the one a request owes, are as many as the times one of its notifications has come to match
(no more than that when tasks were lost).  `Waiting` counts the queue, which is a set, by
cardinality; a task that runs moves one from the queue to the contact.  Labels do not matter to
contacts that ask for none (`WantsPlainly` and the lemmas after it).

### Throttling

Between requests the list need not be what the last requests were: requests overlap, and the table
drops lists.  What survives that is `Genuine`: each time on a list is of a request of its own
that went through, which is an injection from the list to the history; popping and adding keep it.
So a refusal has as many requests behind it as the list is long (`RefusedAtLimit`).  While requests come one by
one, `Recent` says that the list has the last ones and that those it lacks are too old; hence the
request that is let in has fewer than `Limit` in the span before it, and the last conjunct of
`InTurn` puts it as: `Limit` requests further the duration has passed.  `InvKeepsRate` turns that
into the cardinality of the property.

### Accounts

`AccountsInv` adds what the command and a login hold between two statements (`HoldsUser`,
`LoginHolds`): rows that are there, because nothing in this code deletes a user, and an
instance that is not staff without being active, because a login writes it back whole.
`NamesAreUnique` is kept by the unique constraint: where it would be broken the statement raises and the
command ends (`Die`).  The assumptions are that names are finitely many and have rows enough
(an injection from names to rows: the lemma `FreeRowIsFree` finds a row for a name nobody has
by counting), that the accounts there are to begin with have different names, and that commands
have finitely many entries.

### Control rooms

`RoomInv` has two parts.  `AskingInTurn`: while requests come one after the other, the groups a
request finds on its way out are the groups there are.  `SomeoneLeaves`: whatever overlaps,
each group the user is in has a request that has found it and will take the user out, or
has not yet looked; so none is left when all have ended.

### Contacts

`ContactInv` has `EarnedBefore`: wherever a contact is verified (on the row, on an instance a
page holds, or by what a page is about to do), the owner has entered a valid code before.
Whole-row saves can write `verified` back, and only to what was true once.  `PagesInTurn` says
what pages rely on that do not overlap.

### What is only model-checked

- Liveness (section 3), and what needs ENABLED: out of the prover's reach.
- Migrations: `AllMigrationsRun`, `RedoneIsTheSame` and `AccessIsOfApplied` say what 186 given
  lists of steps compute, one after the other, up to the last account; the only parameter is the
  number of rollbacks.  The run goes through all of it with three.  What holds of any list of
  steps (that a cascade leaves no row without those it links, say) is Django's doing and no
  theorem about this code.
- `PlanAssumption` of `Migrations`: no theorem uses it.  It says that the order of the plan is one the
  dependencies and the numbers of the migrations allow, and TLC evaluates it for all of them whenever
  it runs the module.

## 5. Where the code and its documentation part

Five runs end in a counterexample that is behaviour of the code:

1. **A superevent confirmed twice** (`id_confirmed_twice`).
   `api/v1/superevents/views.py:171` tests `is_gw` on the instance it loaded.  Two
   confirmations both pass, and the second one replaces the `gw_id` the first has given
   out.  `src/docs/user_docs/source/models.rst:178` promises that a superevent is
   accessible by both its old and new IDs.
2. **Public but not LV-EM** (`log_tags_public`).  The test at
   `superevents/utils.py:377` is the wrong way round.
3. **One account stops the others** (`accounts_stop`).
   `ligoauth/management/commands/update_user_accounts_from_ligo_ldap.py:813` goes on to
   `update_user` after the error it has caught, and an `IntegrityError` is not caught at all, against
   the comment at line 797: when a web login has made an account under the new name of an
   entry, every run of the command ends there.
4. **A tag that is still in use is deleted** (`tag_deleted`).
   `api/v1/events/views.py:1315` asks only the log messages of events whether the
   tag is empty, as the comment at 1313 has it, and takes it from those of superevents.
5. **Directories do not remain** (`directories_remain`).  The comment at
   `events/view_logic.py:155-157` says of a submission that is undone: "We need to make sure we
   clean up EVERYTHING.  We don't.  Wiki page and data directories remain."  The comment is out of date:
   `event.delete()` purges by default, and removes the data directory once the row is gone
   (`events/models.py:489-491`); there are no wiki pages any more.  `RefusedLeavesNothing`, which
   `services` checks and `FailureLeavesNothing` proves, says what does hold.  What does remain
   are permission rows, which the comment does not name (`PurgeTakesPermissions`, below).

Definitions state four more, and are not given to a run.  Each is violated under the constants
of `Services.cfg`: the first as its only `PROPERTY`, without symmetry; the others as an
invariant `part = "submission" => Submission!...` of a module that extends `Services`:

- `Services!NotificationsKeepContacts`: `DeleteContactView.get` deletes
  without the check of `form_valid` that a contact in a notification is kept
  (`alerts/views.py`; the test at `alerts/tests/test_views.py:86` is skipped).
- `EventSubmission!PurgeTakesPermissions`: a submission that is refused leaves the permission rows
  of the underlying event, against the docstring at `events/models.py:470`.
- `EventSubmission!OneLogPerVersion`: a replacement logs the same version of a file twice
  (`events/permission_utils.py:220`: "There should only be one file. Ugh.").
- `EventSubmission!RemovedBelowAsWell`: removing a group's permission stops half-way.

Other races that TLC finds when a bound or a `calm` is lifted, each at the lines named;
they need an overlap, a crash or a failure:

*Identifiers*

- Two creations of one date at once: the second one is refused, because
  `full_clean` runs outside the retry loop and meets the empty suffix of the
  first (`core/models.py:35`, `superevents/models.py:235`).  If the first
  process dies there, every later creation of that date and category is refused.
- A `gw_id` a user supplies may be the `superevent_id` of another superevent,
  and the lookup then raises an error (`superevents/utils.py:597-613`).  A PATCH
  can give a `gw_id` to a superevent that is not a confirmed GW.
- A confirmation with a `gw_id` of the user's takes no GW number, so that the
  next letter does not count it (`superevents/models.py:311`, against
  `models.rst:215`).

*Exposure, events, tags, signoffs*

- `superevents/utils.py:166` saves every column, `is_exposed` as a PATCH has loaded it: the
  superevent is public, flagged as hidden, and a request to hide it does nothing.
- Contradicting modify requests, or a save that is refused after the
  permissions have changed, part the flag from the permissions.
- The update serializer does not compare the category of a new preferred event, against
  `models.rst:151`.
- An event is removed while it is made the preferred event; listed while it is
  removed; two events of a pipeline are listed at once, after which
  `get` raises an error for that pipeline; one event is taken by two superevents at once.
- A tag is added while it is removed, or the process dies between the two
  statements of a removal: the log is shown without the tag.
- A signoff is requested again while it is made; one that is changed while it
  is deleted leaves its status label, which nobody can remove
  (`events/models.py` protects it) and which keeps the signoff from being
  requested: no request about it is acceptable then.
- A label someone else has put on is not found by `get_or_create`, which asks
  for the creator too (`superevents/utils.py:492`): the request fails after
  the signoff was saved.

*Files*

- An upload that finishes later points the link to its own, older version
  (`core/vfile.py:184`).
- A download that follows the link while a later version is written gets an
  incomplete file: the permission was checked on the version the link pointed
  to before.  A process that dies between `unlink` and `symlink` leaves no link.

*Alerts*

- A FAR of zero counts as none for the recipients, and nobody is told.
- An offline preferred event silences alerts, and a threshold that is crossed while it
  is preferred is never reported later.

*Accounts*

- The groups `RRT` and `priority_alerts` have no `ldap_name`, so a web login never removes
  them, against "Session group data is treated as definitive."; a login with an empty group
  header leaves all groups.
- Robots that lose their scope are not listed any more, so the branch that deactivates
  them is never reached.  With `--quiet`, certificates without a user are never assigned.
- The synchronisation of KAGRA takes LIGO groups from users of both.

*VOEvents*

- While a VOEvent of an event is unfinished, and for ever after one that failed half-way,
  the list of the event's VOEvents fails (`events/view_utils.py:566` formats a
  missing number with `%d`).
- Two that are made at once cite each other with blank identifiers; one that failed
  half-way is cited blank by all later ones.
- When tagging fails, the VOEvent of an event goes out without its alert; also when two
  requests make the missing tag at once: `full_clean` raises a `ValidationError`, and
  `get_or_create` only expects an `IntegrityError`.
- While the tag is gone, every VOEvent of a superevent fails after its row and file
  were made.

*Migrations*

- Rollbacks that always fail: guardian 0001 (irreversible), events 0046 (a name that is not
  defined), ligoauth 0023, 0052, 0053 and 0082.  ligoauth 0097 cannot be applied again.
  Events 0034 applied again makes a second search of its name, which the comment at
  lines 12-14 of events 0032 means to keep from happening.
- On a fresh database (`src/docs/admin_docs/source/new_gracedb_instance.rst:154`) auth 0030 and
  0031 come before the users and the group they name, and ligoauth 0049 clears
  `access_managers` after guardian 0027 has filled it.
- The rollback of ligoauth 0068 deletes a user that was there before, and a permission of
  guardian 0012 with it.  ligoauth 0045, applied again after 0046, finds no robots.
  Permissions on pipelines that are deleted remain without their object.
- Rollbacks that do not take back what their migration gave: ligoauth 0080 and 0086
  (`remove_permissions` is `pass`) leave permissions on `gstlal` and `HardwareInjection`, ligoauth
  0101 deletes its `AuthGroup` with `keep_parents`, and the group stays with its members.  The rollbacks
  of guardian 2, 7 to 9, 12 to 16, 18 to 25 and 30 and of ligoauth 45, 48, 49 and 51 do nothing.
- Rollbacks that give what nobody had: guardian 0003 gives `gdb-processor` a permission on
  `HardwareInjection`, which it had on `HardwareInjection ` only (guardian 0002, line 59, has a space
  at the end of the name).  Guardian 0017 removes users of `pycbc`, "users that aren't in the
  collaboration anymore", under names with `@ligo.org`, where guardian 0002 has
  `@LIGO.ORG`: on a fresh database it removes nobody, and its rollback makes accounts that upload.
- Rollbacks that take what others gave: guardian 0027 names users that guardian 0017 and
  0020 have given the same permission; ligoauth 0004 makes `gstlal-spiir-gpu` again without its group and
  permissions; ligoauth 0050 has taken `t90_grbevent` from its holders and deletes only the group
  that got it instead.

Seen while reading, not modelled: `api/v1/superevents/serializers.py:630` uses
a name that is not defined; `superevents/utils.py:401` uses `_`, which is not imported.

## 6. Plan

Done, in this order: numbering, identifiers, exposure, events, log tags, signoffs, files,
because this is where requests write the same rows; then event submission, alerts, VOEvents,
accounts, contacts, control rooms, throttling and the data migrations; then the proofs of
section 4.

What is left:

1. GWTC catalogs: one request makes many rows, and fails in between.
2. EM observations: several rows of their own, like VOEvents without citations.
3. Identifier letters: `int_to_letters` and `letters_to_int` against each other; pure functions
   that unit tests reach.
4. That the composed behaviour of exposure and log tags shows nobody more than both say.

## 7. Not modelled

- Formatting, parsing and rendering: VOEvent XML but for its citations, LIGOLW tables,
  pages, templates.  What a translator reads from an upload is one of a few contents.
- The search grammar, which has no state.
- Delivery by e-mail, telephone, XMPP and Kafka, which external services do; credentials,
  which libraries check.
- Permission checks: they are queries on the rows modelled; who may send which request is left
  open, which allows more than the code does.  So are the checks that a request for a
  VOEvent has what its type needs.
- Files: those that are not versioned (nothing writes one), listings, and the retries of
  downloads on a slow file system.
- VOEvents: other uses of the tag, which could make it again.
- Migrations: those that only change the schema (but events 0046, which a rollback
  needs); events 0015, 0036 and 0105, superevents 0004, alerts 0002, auth 0012 and sites 0002, which
  write nothing that others read; the column `ldap_name`; the rows of `Permission`, which
  Django makes.
- Settings and deployment, but for the autocommit mode above.
