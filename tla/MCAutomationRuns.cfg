SPECIFICATION FairSpec
CONSTANTS
  Machine = {m1, m2}
  Run = {r1, r2}
  Nobody = Nobody
  MaxFaults = 1
INVARIANTS TypeOK ScheduleNeverStops OneRunAhead RepeatedOnlyAfterLapse SuccessWasExecuted
PROPERTY OutcomeIsFinal EveryRunSettles
