------------------------------- MODULE OsEol -------------------------------
(***************************************************************************)
(* OS lifecycle lookups (os_eol.py): which end-of-life date a device's OS  *)
(* text and build number stand for, and the status it gives on a day.      *)
(*                                                                         *)
(* An OS text is the set of phrases it contains ({} is a blank text), since *)
(* the code only ever asks whether a phrase is in it.  A table maps phrases *)
(* and <<product, build>> pairs to dates.                                  *)
(***************************************************************************)
EXTENDS Integers

CONSTANTS
    Length,     \* the length of a phrase, as a function
    NoBuild,    \* no build number
    NoDate      \* no end-of-life date

Blank == ""

LifecycleStatus == {"unknown", "supported", "eol_soon", "end_of_life"}

IsServerOs(text) == "server" \in text

\* The date of the longest phrase of the table that the text contains.
EolDateFor(tables, text) ==
    LET hits == text \cap DOMAIN tables.freeText
    IN IF hits = {} THEN NoDate
       ELSE tables.freeText[CHOOSE w \in hits : \A v \in hits : Length[v] <= Length[w]]

EolDateForBuild(tables, build, server) ==
    LET entry == <<IF server THEN "windows-server" ELSE "windows", build>>
    IN IF entry \in DOMAIN tables.builds THEN tables.builds[entry] ELSE NoDate

Classify(eol, today, warningDays) ==
    IF eol = NoDate THEN "unknown"
    ELSE IF eol <= today THEN "end_of_life"
    ELSE IF eol <= today + warningDays THEN "eol_soon" ELSE "supported"

\* Servers by name, then by build; clients by build, then by name.
EolDateForDevice(tables, text, build) ==
    LET named == EolDateFor(tables, text)
        server == IsServerOs(text)
        built == EolDateForBuild(tables, build, server)
    IN IF server THEN (IF named # NoDate THEN named ELSE built)
       ELSE (IF built # NoDate THEN built ELSE named)

EolStatusForDevice(tables, text, build, today, warningDays) ==
    Classify(EolDateForDevice(tables, text, build), today, warningDays)
=============================================================================
