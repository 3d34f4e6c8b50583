SPECIFICATION FairSpec
CONSTANTS
  Dashboards = {d}
  Inspections = {o}
  Users = {u}
  Threads = 1
INVARIANTS DashboardHolds
PROPERTIES PagesAnswered
