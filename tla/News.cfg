SPECIFICATION Crawl
CONSTANT
  MaxElements = 3
INVARIANTS
  CrawlTypeOK
  PhotosInStep
  AllOrNothing
CHECK_DEADLOCK FALSE
