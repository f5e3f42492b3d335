CONSTANTS
  Rss = rss
  Videos = videos
  Github = github
  HackerNews = hackernews
  F1 = f1
  F2 = f2
  V = v
  U1 = u1
  U2 = u2
  NoLink = nolink
  Collectors = {rss, hackernews, videos, github}
  Enabled = {rss, videos}
  Instant = {hackernews}
  Triggers = {r1}
  Feeds <- MCFeeds
  Toml <- MCToml
  Subscribed <- MCSubscribed
  UserFeeds <- MCUserFeeds
  Entries <- MCEntries
  MaxFaults = 1
  MaxCopies = 4
SPECIFICATION FairSpec
INVARIANTS TypeOK
PROPERTIES DuplicatesOverlapped FeedIsCollected
