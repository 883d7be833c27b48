CONSTANTS
    Discoveries = {x1}
    Crons = {hourly, daily, invalid}
    BadCrons = {invalid}
    AdHoc = AdHoc
    MaxJobs = 3
SPECIFICATION ScheduleSpec
INVARIANT
    OneJobPerDiscovery
