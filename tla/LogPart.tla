-------------------------------- MODULE LogPart --------------------------------
(***************************************************************************)
(* The dirty-page log (DirtyLog) as a part of the components of the        *)
(* vhost-user-backend crate, and what is promised of it.                   *)
(***************************************************************************)
EXTENDS DirtyLogSizes

VARIABLES requests, length, dirty, inner, next, marking, fetched, begun, finished
-------------------------------------------------------------------------------
L == INSTANCE DirtyLog WITH writer <- marking

dirtyVars == <<requests, length, dirty, inner, next, marking, fetched, begun, finished>>
-------------------------------------------------------------------------------
\* The types of the dirty log, and who has a bitmap.
LogTypeOK == L!TypeOK

\* When mark_dirty is over, the frontend finds all pages of the range in the log.
WritesAreLogged == L!WritesAreLogged

\* Only pages that somebody writes to are marked, and dirty_at reads the frontend's bits.
OnlyWritesAreLogged == L!OnlyWritesAreLogged

\* No mark_dirty looks outside the log that its bitmap points into.
AccessInsideLog == L!AccessInsideLog

\* Between requests all regions log into one log.
OneLogForAll == L!OneLogForAll

\* Once set_log_base has returned, nobody marks pages in the log of an earlier request.
OldLogIsQuiet == L!OldLogIsQuiet
================================================================================
