------------------------------- MODULE Schema -------------------------------
(***************************************************************************)
(* Opening the database (db.py: connect): the SCHEMA script, whose         *)
(* statements commit one by one, the version stamp, and the migrations.    *)
(* The process may be killed between any two commits and starts again.     *)
(***************************************************************************)
EXTENDS Naturals

SchemaVersion == 2   \* SCHEMA_VERSION

VARIABLES
    file,   \* what the database file holds
    conn    \* how far connect() has come

vars == <<file, conn>>

(* What is on disk.                                                         *)
File == [videos  : {"absent", "without written_at", "with written_at"},
         index   : BOOLEAN,              \* idx_videos_written
         version : 0 .. SchemaVersion,   \* meta.schema_version, 0 for no row
         dated   : BOOLEAN]              \* every written row has written_at

NoFile == [videos |-> "absent", index |-> FALSE, version |-> 0, dated |-> TRUE]

(* A deployment of schema version 1: migration 2 is about exactly this file. *)
VersionOne == [videos |-> "without written_at", index |-> FALSE, version |-> 1,
               dated |-> FALSE]

Start == conn = "closed" /\ conn' = "table" /\ UNCHANGED file

(* CREATE TABLE IF NOT EXISTS videos: an existing table stays as it is.     *)
CreateTable ==
    /\ conn = "table"
    /\ file' = [file EXCEPT !.videos = IF @ = "absent" THEN "with written_at" ELSE @]
    /\ conn' = "index"

(* CREATE INDEX IF NOT EXISTS ... ON videos(written_at, id): an error when   *)
(* the table has no such column.                                            *)
CreateIndex ==
    /\ conn = "index"
    /\ IF file.index \/ file.videos = "with written_at"
       THEN file' = [file EXCEPT !.index = TRUE] /\ conn' = "stamp"
       ELSE conn' = "failed" /\ UNCHANGED file

(* INSERT OR IGNORE INTO meta: only a new file is stamped.                   *)
StampNew ==
    /\ conn = "stamp"
    /\ file' = [file EXCEPT !.version = IF @ = 0 THEN SchemaVersion ELSE @]
    /\ conn' = "migrate"

(* _migrate_2_written_at: ALTER TABLE commits by itself; the backfill and    *)
(* the new version are one transaction.                                     *)
AddColumn ==
    /\ conn = "migrate" /\ file.version < SchemaVersion
    /\ file' = [file EXCEPT !.videos = "with written_at"]
    /\ conn' = "backfill"

Backfill ==
    /\ conn = "backfill"
    /\ file' = [file EXCEPT !.dated = TRUE, !.version = SchemaVersion]
    /\ conn' = "open"

UpToDate ==
    /\ conn = "migrate" /\ file.version = SchemaVersion
    /\ conn' = "open" /\ UNCHANGED file

(* Stopped or killed, at any point, and started again.                      *)
Restart == conn # "closed" /\ conn' = "closed" /\ UNCHANGED file

Init == file \in {NoFile, VersionOne} \cap File /\ conn = "closed"

Next == \/ Start \/ CreateTable \/ CreateIndex \/ StampNew
        \/ AddColumn \/ Backfill \/ UpToDate \/ Restart

Spec == Init /\ [][Next]_vars

(* Documented in db.py:82-85 and 164-170: the whole script runs on every     *)
(* connect, so an existing database gains the index without a migration     *)
(* step; it runs every migration above its version, and no crash leaves a   *)
(* database that can never be opened. So connect never fails on a file that *)
(* an earlier version of the program, or a killed connect, has left.        *)
ConnectOpens == conn # "failed"
=============================================================================
