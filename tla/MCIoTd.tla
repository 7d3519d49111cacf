------------------------------- MODULE MCIoTd -------------------------------
(* Two sensors, an update interval of two seconds, a record file of two      *)
(* bytes, records of one or two, and the configurations whose daemon behaves *)
(* differently.                                                              *)
EXTENDS IoTd, TLC

\* Which sensor is which makes no difference.
MCSymmetry == Permutations(Sensors)

Config(i, t, r, k) == [iot |-> i, transparent |-> t, record |-> r, known |-> k]

\* Upload and record; a server without a command; forward only; and the
\* configuration that is shipped (config/sensor.uci): forward to the record.
MCConfigs == {Config(TRUE, FALSE, TRUE, TRUE), Config(TRUE, FALSE, TRUE, FALSE),
              Config(TRUE, TRUE, FALSE, TRUE), Config(FALSE, TRUE, TRUE, TRUE)}
=============================================================================
