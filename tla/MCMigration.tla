------------------------------ MODULE MCMigration ------------------------------
(***************************************************************************)
(* Instances of Migration for TLC: a team, its players, a roster of them.  *)
(***************************************************************************)
EXTENDS Migration

Names == <<"Temp", "name", "nick", "player", "roster", "stats", "team", "team_id">>
MCRank == [x \in ToSet(Names) |-> CHOOSE i \in DOMAIN Names : Names[i] = x]

Whole(ref) == [type |-> "integer", ref |-> ref, from |-> None]
Text == [type |-> "text", ref |-> None, from |-> None]
Team == [c \in {} |-> None]
Table1(c, d) == [x \in {c} |-> d]
View(t, c) == [on |-> t, uses |-> {c}]
Schema(players, views) ==
  [tables |-> [t \in {"player", "team"} |-> IF t = "team" THEN Team ELSE players],
   views |-> views]
NoViews == [v \in {} |-> None]
Roster(v) == [x \in {"roster"} |-> v]

Plain == Table1("team_id", Whole("team"))
Nick == With(Plain, "nick", Text)

(* Base, a column more and one altered, the column renamed.                *)
Base == Schema(Plain, NoViews)
Nicknames == Schema(With(Nick, "team_id", Whole(None)), NoViews)
Renamed == Schema(With(Table1("team_id", Whole(None)), "name", [Text EXCEPT !.from = "nick"]), NoViews)
(* A column of a type SQLite does not have, renamed with no hint.          *)
Uuid == [Text EXCEPT !.type = "uuid"]
Tagged == Schema(With(Plain, "nick", Uuid), NoViews)
Retagged == Schema(With(Plain, "name", Uuid), NoViews)
(* A view, changed when the table is.                                      *)
Viewed == Schema(Nick, Roster(View("player", "nick")))
Reviewed == Schema([Nick EXCEPT !["team_id"].type = "text"], Roster(View("player", "team_id")))
(* The team goes, with and without the column that refers to it.           *)
Loose == [tables |-> Table1("player", Table1("team_id", Whole(None))), views |-> NoViews]
Alone == [tables |-> Table1("player", Team), views |-> NoViews]
(* Two tables that refer to each other, and a reference to nothing.        *)
Mutual == [tables |-> [t \in {"team", "player", "stats"} |->
             Table1("team_id", Whole(IF t = "team" THEN "stats" ELSE "team"))], views |-> NoViews]
Dangling == [tables |-> Table1("player", Plain), views |-> NoViews]

MCTargets ==
  {Base, Nicknames, Renamed, Tagged, Retagged, Viewed, Reviewed, Loose, Alone, Mutual, Dangling}
=============================================================================
