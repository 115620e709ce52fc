SPECIFICATION Spec
CONSTANTS
 Page={"plan"}
 FilterType={"running","failed"}
 ErrorType={"external"}
 SortType={"creation","cpu"}
 SearchString={"","a"}
 PageSize={1,2}
 Field={"User","Date"}
 Stage={0,1}
 ThreadGroup={"a","b"}
 UserName={"","u"}
 DateRange={"","r"}
 Menu={"INFO"}
 Chart={"cpu"}
 MaxHistory=2
 Window=3
 Fast=1
 Slow=10
 Limit=60
 Attempts=3
 MaxRows=2
 MaxPage=2
 MaxThreads=2
 MaxPolls=3
 MaxFailures=4
 MaxAnswers=6
 MonitorClicks=2
 HistoryClicks=1
 HistoryRequests=4
 HistoryChanges=1
 MaxRequests=2
 MaxChanges=3
 MaxClicks=2
CHECK_DEADLOCK FALSE
INVARIANT PlanWillAppear
