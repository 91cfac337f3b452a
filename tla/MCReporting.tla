---------------------------- MODULE MCReporting ----------------------------
(***************************************************************************)
(* Reporting with the limits, texts and buffers of the code, and loads     *)
(* that make every verdict, alone or when they change during a reading.    *)
(***************************************************************************)
EXTENDS Reporting

\* defaultMeasurementLimits()
MCLimit ==
  [voltage |-> 300, current |-> 10000, power |-> 2500000, energy |-> 10000,
   powerFactor |-> 100]

Load(voltage, current, power, energy) ==
  [voltage |-> voltage, current |-> current, power |-> power, energy |-> energy,
   powerFactor |-> 100]

\* One at the limits of voltage and power factor; and one beyond the limit of current,
\* with no answer for the energy.
MCLoads == {Load(300, 100, 30000, 1), Load(230, 10001, 2300000, NaN)}
=============================================================================
