---------------------------- MODULE ControlSeverity ----------------------------
(***************************************************************************)
(* reporthandling/apis/severity.go: the severity of a base score, as the    *)
(* number the priorities compare and as the name the summary counts by.     *)
(***************************************************************************)
EXTENDS Integers

ControlSeverityToInt(baseScore) ==
    IF baseScore >= 9 THEN 4 ELSE IF baseScore >= 7 THEN 3
    ELSE IF baseScore >= 4 THEN 2 ELSE IF baseScore >= 1 THEN 1 ELSE 0

SeverityName == <<"Low", "Medium", "High", "Critical">>

SeverityNumberToString(number) ==
    IF number \in DOMAIN SeverityName THEN SeverityName[number] ELSE "Unknown"

ControlSeverityToString(baseScore) == SeverityNumberToString(ControlSeverityToInt(baseScore))
=============================================================================
