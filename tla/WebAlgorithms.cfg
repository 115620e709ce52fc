SPECIFICATION Spec
CONSTANTS
  Topic = {"dates", "weeks", "date text", "spans", "relative time", "sheets", "queries", "runs", "tasks", "numbers", "lists", "failures", "operators", "stages"}
  Ticks = 2
  Year = {2020, 2023}
  MaxLength = 5
  MaxNode = 3
  MaxStage = 4
INVARIANTS CalendarConsistent ParsedOrRefused LookHonest PrintedFaithfully PlanDrawnWhole
CHECK_DEADLOCK FALSE
