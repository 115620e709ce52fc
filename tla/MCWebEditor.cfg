SPECIFICATION SpecEither
CONSTANTS
 Part={"tree","table","form","text","results","collection"}
 Catalog={"c","d"}
 Schema={"s","t"}
 Table={"t","v"}
 Query={"","tables","a"}
 Collected={"q","r"}
 Uuid={1,2}
 Connector={"h"}
 File={"f","g"}
 Kind={"catalog","global"}
 PageSize={1,2}
 Hours=2
 Days=2
 Months=3
 Spill=1
 MinDate=1
 MaxDate=9
 DateLimit=3
 PresetStart=0
 PresetEnd=7
 Today=2
 MaxTrees=2
 MaxCollected=2
 MaxVersions=1
 MaxRows=2
 MaxForms=2
 MaxRequests=2
 MaxSamples=1
 MaxPage=2
 TreeClicks=3
 TableClicks=4
 FormClicks=6
 TextClicks=3
 ResultClicks=5
 CollectionClicks=4
 PickerClicks=4
CHECK_DEADLOCK FALSE
INVARIANTS ListedOnce ViewAgreesWithStore ShowsWhatWasAsked FormSound PickerSound
