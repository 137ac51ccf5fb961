--------------------------- MODULE MCOtaDownload ---------------------------
(* TLC instance of OtaDownload: two sound packages with different numbers   *)
(* of retries and a damaged one.                                            *)
EXTENDS OtaDownload

CONSTANTS a, b, bad

MCJobs == {a, b, bad}
MCGood == {a, b}
MCRetryMax == [j \in MCJobs |-> IF j = a THEN 1 ELSE IF j = b THEN 0 ELSE 2]
=============================================================================
