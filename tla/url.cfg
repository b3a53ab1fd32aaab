SPECIFICATION FairSpec
CONSTANTS
    Absent = Absent
    Urls = {"a", "b"}
    Sources <- SomeSources
    EditSteps <- Forward
    MaxVersion = 2
    MaxAge = 2
    Outcomes = {"ok", "fail", "lost"}
PROPERTIES FollowsSource
